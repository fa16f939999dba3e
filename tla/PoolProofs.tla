----------------------------- MODULE PoolProofs -----------------------------
(***************************************************************************)
(* Proofs about LocalPool: an event is taken for the item that was asked,  *)
(* a worker that was spawned has no forked twin, forks keep their pace,    *)
(* and a connection never holds more than one answer, for any number of    *)
(* workers, items, spawns and ticks.                                       *)
(*                                                                         *)
(* The invariant is about one worker at a time: which of its two processes *)
(* can be alive, what its slot says about the forked one, and, for each    *)
(* place of its task, which messages are on the connection and what the    *)
(* process at its other end is doing.  Beside it stand the counters of the *)
(* parent.                                                                 *)
(***************************************************************************)
EXTENDS LocalPool, FiniteSetTheorems, SequenceTheorems, WellFoundedInduction, TLAPS

M(type, item) == [type |-> type, item |-> item]

Tasks == Ended \union {"connect", "attach", "hello", "idle", "event", "status", "restart", "stop",
                       "abort", "exit_error"}
States == {"none", "boot", "ready", "busy", "answered", "fork?", "forking", "pid", "gone"}

Typed ==
    /\ task \in [Workers -> Tasks]
    /\ conn \in [Workers -> {"none", "spawned", "forked"}]
    /\ since \in [Workers -> 0..MaxTime] /\ started \in 0..MaxTime
    /\ asked \in [Workers -> 0..MaxItems] /\ answer \in [Workers -> 0..MaxItems]
    /\ req \in [Workers -> Seq(Messages)] /\ rsp \in [Workers -> Seq(Messages)]
    /\ end \in [Children -> BOOLEAN]
    /\ slot \in [Children -> {"parent", "child", "closed"}]
    /\ proc \in [Processes -> States] /\ serving \in [Processes -> 0..MaxItems]
    /\ completed \in Nat /\ forked \in Nat
    /\ spawns \in [Workers -> 0..MaxSpawns]
    /\ items \in 0..MaxItems /\ ending \in BOOLEAN /\ now \in 0..MaxTime

Spawned(w) == proc[<<w, "spawned">>]
Forked(w) == proc[<<w, "forked">>]
Dead == {"none", "gone"}

(* Which process of a worker can be alive. *)
LifeInv(w) ==
    /\ conn[w] # "spawned" => Spawned(w) \in Dead
    /\ conn[w] = "spawned" => Forked(w) \in Dead
    /\ task[w] = "connect" => Spawned(w) \in Dead /\ Forked(w) \in Dead
    /\ task[w] \in Ended => Spawned(w) \in Dead /\ (conn[w] = "forked" => Forked(w) \in Dead)
    /\ conn[w] = "none" => /\ task[w] \in Ended \union {"attach", "connect"}
                           /\ Forked(w) \in {"none", "forking", "pid", "ready", "gone"}
    /\ task[w] = "attach" => conn[w] = "none"

(* A slot is with a forked process or there is none, and then the parent is
   connected; a slot the parent holds belongs to a worker that attaches or has
   ended. *)
SlotInv(c) ==
    /\ slot[c] = "child" <=> Forked(c) # "none"
    /\ slot[c] = "child" => conn[0] = "spawned"
    /\ conn[c] = "spawned" \/ task[c] = "connect" => slot[c] # "parent"
    /\ conn[c] = "forked" => slot[c] = "child"
    /\ conn[c] = "none" => (end[c] <=> task[c] = "attach")

(* What is on the connection of a worker, by the place of its task. *)
Greets(w) ==
    /\ req[w] = <<>>
    /\ \/ Forked(w) \in {"none", "forking", "gone"} /\ rsp[w] = <<>>
       \/ Forked(w) \in {"pid", "gone"} /\ rsp[w] = <<M("pid", 0)>>
       \/ Forked(w) \in {"ready", "gone"} /\ rsp[w] = <<M("pid", 0), M("Ready", 0)>>

Boots(w) ==
    \/ proc[Of(w)] \in {"boot", "gone"} /\ req[w] = <<M("Setup", 0)>> /\ rsp[w] = <<>>
    \/ proc[Of(w)] \in {"ready", "gone"} /\ req[w] = <<>> /\ rsp[w] = <<M("Ready", 0)>>

Resting == {"ready", "fork?", "gone"}

Rests(w) == proc[Of(w)] \in Resting /\ req[w] = <<>> /\ rsp[w] = <<>>

Serves(w, i) ==
    \/ proc[Of(w)] \in Resting /\ req[w] = <<M("Work", i)>> /\ rsp[w] = <<>>
    \/ proc[Of(w)] = "busy" /\ serving[Of(w)] = i /\ req[w] = <<>> /\ rsp[w] = <<>>
    \/ proc[Of(w)] = "gone" /\ req[w] = <<>> /\ rsp[w] = <<>>
    \/ proc[Of(w)] \in {"answered", "gone"} /\ req[w] = <<>> /\ rsp[w] = <<M("Event", i)>>
    \/ proc[Of(w)] \in Resting /\ req[w] = <<>> /\ rsp[w] = <<M("Event", i), M("Ready", 0)>>
    \/ proc[Of(w)] = "gone" /\ req[w] = <<>> /\ rsp[w] = <<M("Event", i), M("Restart", 0)>>

Reports(w) ==
    /\ req[w] = <<>>
    /\ \/ proc[Of(w)] \in {"answered", "gone"} /\ rsp[w] = <<>>
       \/ proc[Of(w)] \in Resting /\ rsp[w] = <<M("Ready", 0)>>
       \/ proc[Of(w)] = "gone" /\ rsp[w] = <<M("Restart", 0)>>

Stops(w) ==
    /\ rsp[w] = <<>>
    /\ \/ proc[Of(w)] \in Resting /\ req[w] = <<M("Shutdown", 0)>>
       \/ proc[Of(w)] = "gone" /\ req[w] = <<>>

TalkInv(w) ==
    /\ Len(req[w]) <= 1 /\ Len(rsp[w]) <= 2
    /\ task[w] = "attach" => Greets(w)
    /\ task[w] = "hello" => conn[w] = "spawned" /\ Boots(w)
    /\ task[w] = "idle" => Rests(w)
    /\ task[w] = "event" => Serves(w, asked[w])
    /\ task[w] = "status" => Reports(w) /\ answer[w] = asked[w]
    /\ task[w] = "restart" => Rests(w) /\ proc[Of(w)] = "gone"
    /\ task[w] \in {"abort", "exit_error"} => proc[Of(w)] = "gone"
    /\ task[w] = "stop" => Stops(w)

WorkerInv(w) == LifeInv(w) /\ TalkInv(w) /\ (w \in Children => SlotInv(w))

(* The first worker is never forked. *)
FirstInv ==
    /\ conn[0] # "forked" /\ task[0] # "attach" /\ Forked(0) = "none"
    /\ conn[0] # "none" => spawns[0] > 0

(* An item that the parent has not answered is not among the completed. *)
Uncounted == proc[Parent] \in {"busy", "answered"} \/ (task[0] = "event" /\ req[0] # <<>>)

CountInv ==
    /\ completed <= items /\ (Uncounted => completed < items)
    /\ forked + Cardinality(HeldSlots) <= K

PoolInv ==
    /\ Typed /\ FirstInv /\ CountInv /\ ForkPace
    /\ \A w \in Workers : WorkerInv(w)

-----------------------------------------------------------------------------
(* Facts used throughout. *)

LEMMA Constants ==
  /\ K \in Nat /\ MaxItems \in Nat /\ MaxTime \in Nat /\ MaxSpawns \in Nat
  /\ ITEMS_PER_FORK \in Nat /\ TIME_PER_FORK \in Nat
  /\ 0 \in Workers /\ Children \subseteq Workers /\ 0 \notin Children
  /\ \A w \in Workers : w # 0 => w \in Children
  /\ \A w \in Workers : <<w, "spawned">> \in Processes /\ <<w, "forked">> \in Processes
  /\ Parent \in Processes
<1>1. /\ K \in Nat /\ MaxItems \in Nat /\ MaxTime \in Nat /\ MaxSpawns \in Nat
      /\ ITEMS_PER_FORK \in Nat /\ TIME_PER_FORK \in Nat
  BY LocalPoolAssumption
<1>2. /\ 0 \in Workers /\ Children \subseteq Workers /\ 0 \notin Children
      /\ \A w \in Workers : w # 0 => w \in Children
  BY <1>1 DEF Workers, Children
<1> QED
  BY <1>1, <1>2 DEF Processes, Parent

(* The lowest slot the parent holds is one it holds. *)
LEMMA FirstSlotIsHeld ==
  ASSUME HeldSlots # {}
  PROVE  FirstSlot \in HeldSlots
<1>1. HeldSlots \subseteq Nat
  BY Constants DEF HeldSlots, Children
<1>2. PICK m \in HeldSlots : \A n \in HeldSlots : ~(<<n, m>> \in OpToRel(<, Nat))
  BY <1>1, NatLessThanWellFounded, WFMin
<1>3. \A n \in HeldSlots : m <= n
  <2> SUFFICES ASSUME NEW n \in HeldSlots PROVE m <= n
    OBVIOUS
  <2>1. m \in Nat /\ n \in Nat
    BY <1>1
  <2>2. ~(n < m)
    BY <1>2, <2>1 DEF OpToRel
  <2> QED
    BY <2>1, <2>2
<1> QED
  BY <1>3 DEF FirstSlot

LEMMA HeldIsFinite ==
  /\ IsFiniteSet(HeldSlots) /\ Cardinality(HeldSlots) \in Nat /\ Cardinality(HeldSlots) <= K
<1>1. IsFiniteSet(Children) /\ Cardinality(Children) = K
  BY Constants, FS_Interval DEF Children
<1>2. HeldSlots \subseteq Children
  BY DEF HeldSlots
<1> QED
  BY <1>1, <1>2, FS_Subset, FS_CardinalityType

LEMMA SameItems ==
  ASSUME Typed, items' = items
  PROVE  items' >= items
<1>1. items \in 0..MaxItems /\ MaxItems \in Nat
  BY Constants DEF Typed
<1>2. items \in Int
  BY <1>1
<1> QED
  BY <1>2

LEMMA MessagesTyped ==
  /\ \A i \in 0..MaxItems : M("Work", i) \in Messages /\ M("Event", i) \in Messages
  /\ {M("Setup", 0), M("Shutdown", 0), M("Ready", 0), M("Restart", 0), M("pid", 0)} \subseteq Messages
<1>1. 0 \in 0..MaxItems
  BY Constants
<1> QED
  BY <1>1 DEF Messages, M

(* A worker that a step has nothing to do with; the slot the parent holds for
   it may be closed. *)
Untouched(v) ==
    /\ task'[v] = task[v] /\ conn'[v] = conn[v] /\ asked'[v] = asked[v] /\ answer'[v] = answer[v]
    /\ req'[v] = req[v] /\ rsp'[v] = rsp[v]
    /\ Spawned(v)' = Spawned(v) /\ Forked(v)' = Forked(v)
    /\ serving'[<<v, "spawned">>] = serving[<<v, "spawned">>]
    /\ serving'[<<v, "forked">>] = serving[<<v, "forked">>]
    /\ v \in Children => /\ end'[v] = end[v]
                         /\ slot'[v] = slot[v] \/ (slot[v] = "parent" /\ slot'[v] = "closed")

(* The task of the first worker stays connected. *)
Connected == conn[0] = "spawned" => conn'[0] = "spawned"

LEMMA UntouchedKept ==
  ASSUME Typed, NEW v \in Workers, WorkerInv(v), Untouched(v), Connected
  PROVE  WorkerInv(v)'
<1>t. conn[v] \in {"none", "spawned", "forked"} /\ (conn[v] = "none" => Of(v) = <<v, "none">>)
      /\ (conn[v] = "spawned" => Of(v) = <<v, "spawned">>)
      /\ (conn[v] = "forked" => Of(v) = <<v, "forked">>)
      /\ Of(v)' = Of(v)
  BY DEF Typed, Of, Untouched
<1>1. LifeInv(v)'
  BY DEF WorkerInv, LifeInv, Untouched
<1>2. conn[v] # "none" => proc'[Of(v)] = proc[Of(v)] /\ serving'[Of(v)] = serving[Of(v)]
  BY <1>t DEF Untouched, Spawned, Forked
<1>3. conn[v] = "none" => task[v] \in Ended \union {"attach", "connect"}
  BY DEF WorkerInv, LifeInv
<1>4. conn[v] # "none" => /\ (Boots(v) => Boots(v)') /\ (Rests(v) => Rests(v)')
                          /\ (Reports(v) => Reports(v)') /\ (Stops(v) => Stops(v)')
                          /\ Serves(v, asked[v]) => Serves(v, asked[v])'
  <2> SUFFICES ASSUME conn[v] # "none"
               PROVE  /\ (Boots(v) => Boots(v)') /\ (Rests(v) => Rests(v)')
                      /\ (Reports(v) => Reports(v)') /\ (Stops(v) => Stops(v)')
                      /\ Serves(v, asked[v]) => Serves(v, asked[v])'
    OBVIOUS
  <2>1. /\ proc'[Of(v)'] = proc[Of(v)] /\ serving'[Of(v)'] = serving[Of(v)]
        /\ req'[v] = req[v] /\ rsp'[v] = rsp[v] /\ asked'[v] = asked[v]
    BY <1>t, <1>2 DEF Untouched
  <2> QED
    BY <2>1 DEF Boots, Rests, Reports, Stops, Serves
<1>5. Greets(v) => Greets(v)'
  BY DEF Greets, Untouched
<1>6. TalkInv(v)'
  <2>1. task'[v] = task[v] /\ conn'[v] = conn[v] /\ asked'[v] = asked[v] /\ answer'[v] = answer[v]
        /\ req'[v] = req[v] /\ rsp'[v] = rsp[v] /\ TalkInv(v)
    BY DEF Untouched, WorkerInv
  <2>2. CASE conn[v] = "none"
    <3>1. task[v] \notin {"hello", "idle", "event", "status", "restart", "stop", "abort", "exit_error"}
      BY <1>3, <2>2 DEF Ended
    <3> QED
      BY <1>5, <2>1, <3>1 DEF TalkInv
  <2>3. CASE conn[v] # "none"
    <3>1. proc'[Of(v)'] = proc[Of(v)]
      BY <1>t, <1>2, <2>3
    <3> QED
      BY <1>4, <1>5, <2>1, <2>3, <3>1 DEF TalkInv
  <2> QED
    BY <2>2, <2>3
<1>7. v \in Children => SlotInv(v)'
  BY DEF WorkerInv, SlotInv, Untouched, Connected
<1> QED
  BY <1>1, <1>6, <1>7 DEF WorkerInv

-----------------------------------------------------------------------------
(* A step of one worker, of its task or of its process. *)

StepFrame(w) ==
    /\ \A v \in Workers \ {w} : Untouched(v)
    /\ Connected /\ HeldSlots' \subseteq HeldSlots
    /\ forked' = forked /\ started' = started /\ now' = now
    /\ completed' = completed /\ items' >= items
    /\ Uncounted' => Uncounted \/ items' > items

LEMMA CountKept ==
  ASSUME PoolInv, completed' = completed, items' \in Nat, items' >= items,
         forked' = forked, HeldSlots' \subseteq HeldSlots,
         Uncounted' => Uncounted \/ items' > items
  PROVE  CountInv'
<1>1. /\ completed \in Nat /\ items \in Nat /\ forked \in Nat
      /\ completed <= items /\ (Uncounted => completed < items)
      /\ forked + Cardinality(HeldSlots) <= K
  BY Constants DEF PoolInv, Typed, CountInv
<1>2. /\ Cardinality(HeldSlots) \in Nat /\ Cardinality(HeldSlots') \in Nat
      /\ Cardinality(HeldSlots') <= Cardinality(HeldSlots)
  BY HeldIsFinite, FS_Subset, FS_CardinalityType
<1>3. forked' + Cardinality(HeldSlots') <= K
  BY <1>1, <1>2, Constants
<1>4. completed' <= items' /\ (Uncounted' => completed' < items')
  BY <1>1
<1> QED
  BY <1>3, <1>4 DEF CountInv

LEMMA StepKeeps ==
  ASSUME PoolInv, NEW w \in Workers, StepFrame(w), Typed', FirstInv', WorkerInv(w)'
  PROVE  PoolInv'
<1>1. ASSUME NEW v \in Workers PROVE WorkerInv(v)'
  <2>1. CASE v = w
    BY <2>1
  <2>2. CASE v # w
    BY <2>2, UntouchedKept DEF PoolInv, StepFrame
  <2> QED
    BY <2>1, <2>2
<1>2. CountInv'
  <2>1. items' \in Nat
    BY Constants DEF Typed
  <2> QED
    BY <2>1, CountKept DEF StepFrame
<1>3. ForkPace'
  BY DEF PoolInv, ForkPace, StepFrame
<1> QED
  BY <1>1, <1>2, <1>3 DEF PoolInv

(* What the end of a process changes. *)
LEMMA GoneEffect ==
  ASSUME Typed, NEW w \in Workers, NEW k \in {"spawned", "forked"}, Gone(<<w, k>>)
  PROVE  /\ proc' \in [Processes -> States] /\ slot' \in [Children -> {"parent", "child", "closed"}]
         /\ proc'[<<w, k>>] = "gone"
         /\ \A v \in Workers : /\ <<v, "spawned">> # <<w, k>> => Spawned(v)' = Spawned(v)
                               /\ <<v, "forked">> # <<w, k>> => Forked(v)' = Forked(v)
         /\ \A c \in Children : slot'[c] = slot[c] \/ (slot[c] = "parent" /\ slot'[c] = "closed")
         /\ HeldSlots' \subseteq HeldSlots
         /\ proc'[Parent] \in {"busy", "answered"} => proc[Parent] \in {"busy", "answered"}
<1>t. /\ proc \in [Processes -> States] /\ slot \in [Children -> {"parent", "child", "closed"}]
      /\ \A v \in Workers : <<v, "spawned">> \in Processes /\ <<v, "forked">> \in Processes
      /\ <<w, k>> \in Processes /\ Parent \in Processes
  BY Constants DEF Typed
<1>g. proc' = [proc EXCEPT ![<<w, k>>] = "gone"]
  BY DEF Gone
<1>1. /\ proc' \in [Processes -> States] /\ proc'[<<w, k>>] = "gone"
      /\ \A p \in Processes : p # <<w, k>> => proc'[p] = proc[p]
  BY <1>t, <1>g DEF States
<1>2. /\ slot' \in [Children -> {"parent", "child", "closed"}]
      /\ \A c \in Children : slot'[c] = slot[c] \/ (slot[c] = "parent" /\ slot'[c] = "closed")
  BY <1>t DEF Gone
<1>3. HeldSlots' \subseteq HeldSlots
  BY <1>2 DEF HeldSlots
<1>4. \A v \in Workers : /\ <<v, "spawned">> # <<w, k>> => Spawned(v)' = Spawned(v)
                         /\ <<v, "forked">> # <<w, k>> => Forked(v)' = Forked(v)
  BY <1>t, <1>1 DEF Spawned, Forked
<1>5. proc'[Parent] \in {"busy", "answered"} => proc[Parent] \in {"busy", "answered"}
  BY <1>t, <1>1
<1> QED
  BY <1>1, <1>2, <1>3, <1>4, <1>5

-----------------------------------------------------------------------------
(* The task moves and nothing else changes. *)

LEMMA MoveKeeps ==
  ASSUME PoolInv, NEW w \in Workers, NEW l \in Tasks, task' = [task EXCEPT ![w] = l],
         l # "event", l # "attach",
         UNCHANGED <<conn, since, asked, answer, req, rsp, end, proc, serving, forkVars, spawns,
                     items, ending, now>>,
         WorkerInv(w)'
  PROVE  PoolInv'
<1>t. Typed /\ FirstInv /\ 0 \in Workers
  BY Constants DEF PoolInv
<1>k. task'[w] = l /\ \A v \in Workers \ {w} : task'[v] = task[v]
  BY <1>t DEF Typed
<1>1. Typed'
  BY <1>t DEF Typed, forkVars
<1>2. FirstInv'
  BY <1>t, <1>k DEF FirstInv, Forked
<1>3. StepFrame(w)
  <2>1. \A v \in Workers \ {w} : Untouched(v)
    BY <1>k DEF Untouched, Spawned, Forked, forkVars
  <2>2. Uncounted' => Uncounted
    BY <1>k, <1>t DEF Uncounted
  <2>3. items' >= items
    BY <1>t, SameItems
  <2> QED
    BY <2>1, <2>2, <2>3 DEF StepFrame, Connected, HeldSlots, forkVars
<1> QED
  BY <1>1, <1>2, <1>3, StepKeeps

(* A worker that gives its process up, which is dead: it reconnects or ends. *)
LEMMA GiveUpKeeps ==
  ASSUME PoolInv, NEW w \in Workers, NEW l \in {"connect", "failed", "stopped"},
         task' = [task EXCEPT ![w] = l], conn[w] # "none", proc[Of(w)] \in Dead,
         UNCHANGED <<conn, since, asked, answer, req, rsp, end, proc, serving, forkVars, spawns,
                     items, ending, now>>
  PROVE  PoolInv'
<1>t. Typed /\ WorkerInv(w)
  BY DEF PoolInv
<1>k. task'[w] = l /\ task \in [Workers -> Tasks] /\ l \in Tasks
  BY <1>t DEF Typed, Tasks, Ended
<1>d. Spawned(w) \in Dead /\ Forked(w) \in Dead
  <2>1. CASE conn[w] = "spawned"
    BY <1>t, <2>1 DEF Of, Spawned, WorkerInv, LifeInv
  <2>2. CASE conn[w] = "forked"
    BY <1>t, <2>2 DEF Of, Forked, WorkerInv, LifeInv
  <2> QED
    BY <1>t, <2>1, <2>2 DEF Typed
<1>1. LifeInv(w)'
  BY <1>t, <1>k, <1>d DEF WorkerInv, LifeInv, Spawned, Forked
<1>2. TalkInv(w)'
  BY <1>t, <1>k DEF WorkerInv, TalkInv
<1>3. w \in Children => SlotInv(w)'
  BY <1>t, <1>k, <1>d DEF WorkerInv, SlotInv, Forked, forkVars, Typed, Dead
<1>4. WorkerInv(w)'
  BY <1>1, <1>2, <1>3 DEF WorkerInv
<1> QED
  BY <1>k, <1>4, MoveKeeps

(* A worker past its first connection has a process. *)
LEMMA HasProcess ==
  ASSUME PoolInv, NEW w \in Workers,
         task[w] \in {"hello", "idle", "event", "status", "restart", "stop", "abort", "exit_error"}
  PROVE  /\ conn[w] \in {"spawned", "forked"} /\ Of(w) = <<w, conn[w]>> /\ Of(w) \in Processes
         /\ conn[w] = "forked" => w \in Children
<1>1. conn[w] \in {"none", "spawned", "forked"} /\ conn[w] # "none"
  BY DEF PoolInv, Typed, WorkerInv, LifeInv, Ended
<1>2. w = 0 => conn[w] # "forked"
  BY DEF PoolInv, FirstInv
<1> QED
  BY <1>1, <1>2, Constants DEF Of

LEMMA EndsKeep ==
  ASSUME PoolInv, NEW w \in Workers, HelloFails(w) \/ Restart(w) \/ WorkFails(w) \/ Stopped(w)
                                         \/ Reaped(w)
  PROVE  PoolInv'
<1>1. task[w] \in {"hello", "restart", "event", "status", "stop", "abort", "exit_error"}
  BY DEF HelloFails, Restart, WorkFails, Stopped, Reaped
<1>2. conn[w] # "none"
  BY <1>1, HasProcess
<1>3. proc[Of(w)] \in Dead
  BY DEF HelloFails, Restart, WorkFails, Stopped, Reaped, StderrOpen, Alive, Dead
<1>4. PICK l \in {"connect", "failed", "stopped"} : task' = [task EXCEPT ![w] = l]
  BY DEF HelloFails, Restart, WorkFails, Stopped, Reaped
<1>5. UNCHANGED <<conn, since, asked, answer, req, rsp, end, proc, serving, forkVars, spawns,
                  items, ending, now>>
  BY DEF HelloFails, Restart, WorkFails, Stopped, Reaped
<1> QED
  BY <1>2, <1>3, <1>4, <1>5, GiveUpKeeps

(* A timeout kills the process before the task goes on. *)
LEMMA TimeoutKeeps ==
  ASSUME PoolInv, NEW w \in Workers, HelloTimeout(w) \/ WorkTimeout(w)
  PROVE  PoolInv'
<1>t. Typed /\ FirstInv /\ WorkerInv(w)
  BY DEF PoolInv
<1>a. task[w] \in {"hello", "event", "status"}
  BY DEF HelloTimeout, WorkTimeout
<1>p. PICK k \in {"spawned", "forked"} : k = conn[w] /\ Of(w) = <<w, k>> /\ (k = "forked" => w \in Children)
  BY <1>a, HasProcess
<1>f. UNCHANGED <<conn, since, asked, answer, req, rsp, end, serving, completed, forked, started,
                  spawns, items, ending, now>>
  BY DEF HelloTimeout, WorkTimeout
<1>l. PICK l \in {"connect", "failed", "abort", "exit_error"} : task' = [task EXCEPT ![w] = l]
  BY DEF HelloTimeout, WorkTimeout
<1>k. task'[w] = l /\ \A v \in Workers \ {w} : task'[v] = task[v]
  BY <1>t, <1>l DEF Typed
<1>g. /\ proc' \in [Processes -> States] /\ slot' \in [Children -> {"parent", "child", "closed"}]
      /\ proc'[<<w, k>>] = "gone"
      /\ \A v \in Workers : /\ <<v, "spawned">> # <<w, k>> => Spawned(v)' = Spawned(v)
                            /\ <<v, "forked">> # <<w, k>> => Forked(v)' = Forked(v)
      /\ \A c \in Children : slot'[c] = slot[c] \/ (slot[c] = "parent" /\ slot'[c] = "closed")
      /\ HeldSlots' \subseteq HeldSlots
      /\ proc'[Parent] \in {"busy", "answered"} => proc[Parent] \in {"busy", "answered"}
  <2>1. Gone(<<w, k>>)
    BY <1>p DEF HelloTimeout, WorkTimeout
  <2> QED
    BY <1>t, <2>1, GoneEffect
<1>1. Typed'
  <2>1. task' \in [Workers -> Tasks]
    BY <1>t, <1>l DEF Typed, Tasks, Ended
  <2> QED
    BY <1>t, <1>f, <1>g, <2>1 DEF Typed
<1>2. FirstInv'
  BY <1>t, <1>f, <1>g, <1>k, <1>p, Constants DEF FirstInv
<1>3. StepFrame(w)
  <2>1. \A v \in Workers \ {w} : Untouched(v)
    BY <1>f, <1>g, <1>k DEF Untouched
  <2>2. Uncounted' => Uncounted
    BY <1>f, <1>g, <1>k, Constants DEF Uncounted
  <2>3. items' >= items
    BY <1>t, <1>f, SameItems
  <2> QED
    BY <1>f, <1>g, <2>1, <2>2, <2>3 DEF StepFrame, Connected
<1>d. Spawned(w)' \in Dead /\ Forked(w)' \in Dead
      /\ (w \in Children => (Forked(w)' # "none" <=> Forked(w) # "none"))
  <2>1. CASE k = "spawned"
    <3>1. Spawned(w)' = "gone" /\ Forked(w)' = Forked(w)
      BY <1>g, <2>1 DEF Spawned
    <3>2. Forked(w) \in Dead
      BY <1>t, <1>p, <2>1 DEF WorkerInv, LifeInv
    <3> QED
      BY <3>1, <3>2 DEF Dead
  <2>2. CASE k = "forked"
    <3>1. Forked(w)' = "gone" /\ Spawned(w)' = Spawned(w)
      BY <1>g, <2>2 DEF Forked
    <3>2. Spawned(w) \in Dead
      BY <1>t, <1>p, <2>2 DEF WorkerInv, LifeInv
    <3>3. w \in Children => Forked(w) # "none"
      BY <1>t, <1>p, <2>2 DEF WorkerInv, SlotInv
    <3> QED
      BY <3>1, <3>2, <3>3 DEF Dead
  <2> QED
    BY <2>1, <2>2
<1>4. WorkerInv(w)'
  <2>1. LifeInv(w)'
    BY <1>t, <1>f, <1>k, <1>d, <1>p DEF WorkerInv, LifeInv
  <2>2. TalkInv(w)'
    <3>1. proc'[Of(w)'] = "gone"
      BY <1>f, <1>g, <1>p DEF Of
    <3> QED
      BY <1>t, <1>f, <1>k, <3>1 DEF WorkerInv, TalkInv
  <2>3. w \in Children => SlotInv(w)'
    <3> SUFFICES ASSUME w \in Children PROVE SlotInv(w)'
      OBVIOUS
    <3>1. /\ SlotInv(w)
          /\ slot'[w] = slot[w] \/ (slot[w] = "parent" /\ slot'[w] = "closed")
          /\ (Forked(w)' # "none" <=> Forked(w) # "none") /\ conn' = conn /\ conn[w] # "none"
      BY <1>t, <1>g, <1>d, <1>f, <1>p DEF WorkerInv
    <3>2. slot[w] # "parent"
      BY <1>p, <3>1 DEF SlotInv
    <3> QED
      BY <3>1, <3>2 DEF SlotInv
  <2> QED
    BY <2>1, <2>2, <2>3 DEF WorkerInv
<1> QED
  BY <1>1, <1>2, <1>3, <1>4, StepKeeps

(* The task ends and takes its process along. *)
LEMMA LeaveKeeps ==
  ASSUME PoolInv, NEW w \in Workers, task[w] \notin Ended, Leave(w),
         UNCHANGED <<conn, since, asked, answer, req, rsp, serving, completed, forked, started,
                     spawns, items, ending, now>>
  PROVE  PoolInv'
<1>t. Typed /\ FirstInv /\ WorkerInv(w) /\ 0 \in Workers
  BY Constants DEF PoolInv
<1>l. /\ task' = [task EXCEPT ![w] = "stopped"]
      /\ end' = IF w = 0 THEN end ELSE [end EXCEPT ![w] = FALSE]
  BY DEF Leave
<1>k. /\ task' \in [Workers -> Tasks] /\ task'[w] = "stopped"
      /\ \A v \in Workers \ {w} : task'[v] = task[v]
  BY <1>t, <1>l DEF Typed, Tasks, Ended
<1>n. /\ end' \in [Children -> BOOLEAN] /\ (w \in Children => end'[w] = FALSE)
      /\ \A v \in Children \ {w} : end'[v] = end[v]
  BY <1>t, <1>l, Constants DEF Typed
<1>o. conn[w] # "none" => conn[w] \in {"spawned", "forked"} /\ Of(w) = <<w, conn[w]>>
  BY <1>t DEF Typed, Of
<1>p. /\ proc' \in [Processes -> States] /\ slot' \in [Children -> {"parent", "child", "closed"}]
      /\ \A v \in Workers \ {w} : Spawned(v)' = Spawned(v) /\ Forked(v)' = Forked(v)
      /\ \A c \in Children : slot'[c] = slot[c] \/ (slot[c] = "parent" /\ slot'[c] = "closed")
      /\ HeldSlots' \subseteq HeldSlots
      /\ proc'[Parent] \in {"busy", "answered"} => proc[Parent] \in {"busy", "answered"}
      /\ Spawned(w)' = Spawned(w) \/ (conn[w] = "spawned" /\ Spawned(w)' = "gone")
      /\ Forked(w)' = Forked(w) \/ (conn[w] = "forked" /\ Forked(w)' = "gone")
      /\ conn[w] = "spawned" => Spawned(w)' \in Dead
      /\ conn[w] = "forked" => Forked(w)' \in Dead
  <2>1. CASE conn[w] # "none" /\ Gone(Of(w))
    <3>1. PICK k \in {"spawned", "forked"} : k = conn[w] /\ Gone(<<w, k>>)
      BY <1>o, <2>1
    <3>2. /\ proc' \in [Processes -> States] /\ slot' \in [Children -> {"parent", "child", "closed"}]
          /\ proc'[<<w, k>>] = "gone"
          /\ \A v \in Workers : /\ <<v, "spawned">> # <<w, k>> => Spawned(v)' = Spawned(v)
                                /\ <<v, "forked">> # <<w, k>> => Forked(v)' = Forked(v)
          /\ \A c \in Children : slot'[c] = slot[c] \/ (slot[c] = "parent" /\ slot'[c] = "closed")
          /\ HeldSlots' \subseteq HeldSlots
          /\ proc'[Parent] \in {"busy", "answered"} => proc[Parent] \in {"busy", "answered"}
      BY <1>t, <3>1, GoneEffect
    <3>3. CASE k = "spawned"
      BY <3>1, <3>2, <3>3 DEF Spawned, Dead
    <3>4. CASE k = "forked"
      BY <3>1, <3>2, <3>4 DEF Forked, Dead
    <3> QED
      BY <3>3, <3>4
  <2>2. CASE conn[w] # "none" /\ ~Alive(Of(w)) /\ UNCHANGED <<proc, slot>>
    <3>1. proc[Of(w)] \in Dead
      BY <2>2 DEF Alive, Dead
    <3> QED
      BY <1>t, <1>o, <2>2, <3>1 DEF Typed, HeldSlots, Spawned, Forked
  <2>3. CASE conn[w] = "none" /\ UNCHANGED proc
             /\ slot' = IF w = 0 THEN [c \in Children |-> "closed"] ELSE slot
    <3>1. w = 0 => \A c \in Children : slot[c] # "child"
      BY <2>3 DEF PoolInv, WorkerInv, SlotInv, Children, Workers
    <3>2. /\ slot' \in [Children -> {"parent", "child", "closed"}]
          /\ \A c \in Children : slot'[c] = slot[c] \/ (slot[c] = "parent" /\ slot'[c] = "closed")
      BY <1>t, <2>3, <3>1 DEF Typed
    <3>3. HeldSlots' \subseteq HeldSlots
      BY <3>2 DEF HeldSlots
    <3> QED
      BY <1>t, <2>3, <3>2, <3>3 DEF Typed, Spawned, Forked
  <2> QED
    BY <2>1, <2>2, <2>3 DEF Leave
<1>1. Typed'
  BY <1>t, <1>k, <1>n, <1>p DEF Typed
<1>2. FirstInv'
  <2>1. Forked(0)' = "none"
    BY <1>t, <1>p DEF FirstInv
  <2> QED
    BY <1>t, <1>k, <2>1 DEF FirstInv
<1>3. StepFrame(w)
  <2>1. \A v \in Workers \ {w} : Untouched(v)
    BY <1>n, <1>p, <1>k DEF Untouched
  <2>2. Uncounted' => Uncounted
    BY <1>p, <1>k, <1>t DEF Uncounted
  <2>3. items' >= items
    BY <1>t, SameItems
  <2> QED
    BY <1>p, <2>1, <2>2, <2>3 DEF StepFrame, Connected
<1>4. WorkerInv(w)'
  <2>1. LifeInv(w)'
    BY <1>t, <1>k, <1>p DEF WorkerInv, LifeInv, Ended, Dead
  <2>2. TalkInv(w)'
    BY <1>t, <1>k DEF WorkerInv, TalkInv
  <2>3. w \in Children => SlotInv(w)'
    <3> SUFFICES ASSUME w \in Children PROVE SlotInv(w)'
      OBVIOUS
    <3>1. SlotInv(w) /\ (slot'[w] = slot[w] \/ (slot[w] = "parent" /\ slot'[w] = "closed"))
      BY <1>t, <1>p DEF WorkerInv
    <3> QED
      BY <1>k, <1>n, <1>p, <3>1 DEF SlotInv
  <2> QED
    BY <2>1, <2>2, <2>3 DEF WorkerInv
<1> QED
  BY <1>1, <1>2, <1>3, <1>4, StepKeeps

LEMMA StopKeeps ==
  ASSUME PoolInv, NEW w \in Workers, Stop(w)
  PROVE  PoolInv'
<1>t. Typed /\ FirstInv /\ WorkerInv(w) /\ 0 \in Workers
  BY Constants DEF PoolInv
<1>f. UNCHANGED <<conn, since, asked, answer, rsp, serving, completed, forked, started, spawns,
                  items, ending, now>>
  BY DEF Stop
<1>1. CASE FirstConnect(w) /\ Leave(w) /\ UNCHANGED req
  <2>1. task[w] \notin Ended
    BY <1>1 DEF FirstConnect, Ended
  <2> QED
    BY <1>f, <1>1, <2>1, LeaveKeeps
<1>2. ASSUME task[w] = "idle", task' = [task EXCEPT ![w] = "stop"],
             req' = [req EXCEPT ![w] = Append(@, [type |-> "Shutdown", item |-> 0])],
             UNCHANGED <<end, proc, slot>>
      PROVE  PoolInv'
  <2>k. /\ task' \in [Workers -> Tasks] /\ task'[w] = "stop"
        /\ \A v \in Workers \ {w} : task'[v] = task[v]
    BY <1>t, <1>2 DEF Typed, Tasks
  <2>r. Rests(w) /\ conn[w] # "none"
    BY <1>t, <1>2, HasProcess DEF WorkerInv, TalkInv
  <2>q. /\ req' \in [Workers -> Seq(Messages)] /\ req'[w] = <<M("Shutdown", 0)>> /\ Len(req'[w]) = 1
        /\ \A v \in Workers \ {w} : req'[v] = req[v]
    <3>1. /\ Append(<<>>, M("Shutdown", 0)) = <<M("Shutdown", 0)>>
          /\ <<M("Shutdown", 0)>> \in Seq(Messages) /\ Len(<<M("Shutdown", 0)>>) = 1
      BY MessagesTyped
    <3>2. req \in [Workers -> Seq(Messages)] /\ req[w] = <<>>
      BY <1>t, <2>r DEF Typed, Rests
    <3>3. req' = [req EXCEPT ![w] = Append(@, M("Shutdown", 0))]
      BY <1>2 DEF M
    <3> QED
      BY <3>1, <3>2, <3>3
  <2>1. Typed'
    BY <1>t, <1>f, <1>2, <2>k, <2>q DEF Typed
  <2>2. FirstInv'
    BY <1>t, <1>f, <1>2, <2>k DEF FirstInv, Forked
  <2>3. StepFrame(w)
    <3>1. \A v \in Workers \ {w} : Untouched(v)
      BY <1>f, <1>2, <2>k, <2>q DEF Untouched, Spawned, Forked
    <3>2. Uncounted' => Uncounted
      BY <1>2, <1>t, <2>k, <2>q DEF Uncounted
    <3>3. items' >= items
      BY <1>t, <1>f, SameItems
    <3> QED
      BY <1>f, <1>2, <3>1, <3>2, <3>3 DEF StepFrame, Connected, HeldSlots
  <2>4. LifeInv(w)'
    BY <1>t, <1>f, <1>2, <2>k, <2>r DEF WorkerInv, LifeInv, Spawned, Forked, Ended
  <2>5. TalkInv(w)'
    <3>1. Stops(w)'
      BY <1>f, <1>2, <2>q, <2>r DEF Stops, Rests, Of
    <3> QED
      BY <1>t, <1>f, <2>k, <2>q, <3>1 DEF WorkerInv, TalkInv
  <2>6. w \in Children => SlotInv(w)'
    BY <1>t, <1>f, <1>2, <2>k, <2>r DEF WorkerInv, SlotInv, Forked
  <2>7. WorkerInv(w)'
    BY <2>4, <2>5, <2>6 DEF WorkerInv
  <2> QED
    BY <2>1, <2>2, <2>3, <2>7, StepKeeps
<1> QED
  BY <1>1, <1>2 DEF Stop

LEMMA AbortKeeps ==
  ASSUME PoolInv, NEW w \in Workers, Abort(w)
  PROVE  PoolInv'
  BY LeaveKeeps DEF Abort

(* A process is spawned for a worker that has none left, neither spawned nor
   forked, and whose slot the parent does not hold. *)
LEMMA SpawnKeeps ==
  ASSUME PoolInv, NEW w \in Workers, Spawn(w)
  PROVE  PoolInv'
<1>t. Typed /\ FirstInv /\ WorkerInv(w) /\ 0 \in Workers
  BY Constants DEF PoolInv
<1>f. /\ task[w] = "connect" /\ spawns[w] < MaxSpawns
      /\ proc' = [proc EXCEPT ![<<w, "spawned">>] = "boot"]
      /\ conn' = [conn EXCEPT ![w] = "spawned"]
      /\ req' = [req EXCEPT ![w] = <<M("Setup", 0)>>]
      /\ rsp' = [rsp EXCEPT ![w] = <<>>]
      /\ task' = [task EXCEPT ![w] = "hello"]
      /\ since' = [since EXCEPT ![w] = now]
      /\ spawns' = [spawns EXCEPT ![w] = @ + 1]
      /\ UNCHANGED <<asked, answer, end, serving, slot, completed, forked, started, items, ending, now>>
  BY DEF Spawn, M, forkVars
<1>k. /\ task' \in [Workers -> Tasks] /\ task'[w] = "hello"
      /\ conn' \in [Workers -> {"none", "spawned", "forked"}] /\ conn'[w] = "spawned"
      /\ \A v \in Workers \ {w} : task'[v] = task[v] /\ conn'[v] = conn[v]
  BY <1>t, <1>f DEF Typed, Tasks
<1>p. /\ proc' \in [Processes -> States] /\ Spawned(w)' = "boot" /\ Forked(w)' = Forked(w)
      /\ \A v \in Workers \ {w} : Spawned(v)' = Spawned(v) /\ Forked(v)' = Forked(v)
      /\ proc'[Parent] \in {"busy", "answered"} => proc[Parent] \in {"busy", "answered"}
  <2>1. proc \in [Processes -> States] /\ "boot" \in States
    BY <1>t DEF Typed, States
  <2> QED
    BY <1>f, <2>1, Constants DEF Spawned, Forked
<1>q. /\ req' \in [Workers -> Seq(Messages)] /\ req'[w] = <<M("Setup", 0)>> /\ Len(req'[w]) = 1
      /\ rsp' \in [Workers -> Seq(Messages)] /\ rsp'[w] = <<>>
      /\ \A v \in Workers \ {w} : req'[v] = req[v] /\ rsp'[v] = rsp[v]
  <2>1. /\ <<M("Setup", 0)>> \in Seq(Messages) /\ Len(<<M("Setup", 0)>>) = 1 /\ <<>> \in Seq(Messages)
    BY MessagesTyped
  <2>2. req \in [Workers -> Seq(Messages)] /\ rsp \in [Workers -> Seq(Messages)]
    BY <1>t DEF Typed
  <2> QED
    BY <1>f, <2>1, <2>2
<1>s. spawns' \in [Workers -> 0..MaxSpawns] /\ spawns'[w] > 0 /\ \A v \in Workers \ {w} : spawns'[v] = spawns[v]
  <2>1. spawns \in [Workers -> 0..MaxSpawns] /\ MaxSpawns \in Nat
    BY <1>t, Constants DEF Typed
  <2>2. spawns[w] + 1 \in 0..MaxSpawns /\ spawns[w] + 1 > 0
    BY <1>f, <2>1
  <2> QED
    BY <1>f, <2>1, <2>2
<1>1. Typed'
  <2>1. since' \in [Workers -> 0..MaxTime]
    BY <1>t, <1>f DEF Typed
  <2> QED
    BY <1>t, <1>f, <1>k, <1>p, <1>q, <1>s, <2>1 DEF Typed
<1>2. FirstInv'
  BY <1>t, <1>k, <1>p, <1>s DEF FirstInv
<1>3. StepFrame(w)
  <2>1. \A v \in Workers \ {w} : Untouched(v)
    BY <1>f, <1>k, <1>p, <1>q DEF Untouched
  <2>2. Uncounted' => Uncounted
    BY <1>t, <1>k, <1>p, <1>q DEF Uncounted
  <2>3. items' >= items
    BY <1>t, <1>f, SameItems
  <2> QED
    BY <1>f, <1>k, <1>t, <2>1, <2>2, <2>3 DEF StepFrame, Connected, HeldSlots
<1>d. Forked(w) \in Dead
  BY <1>t, <1>f DEF WorkerInv, LifeInv
<1>4. LifeInv(w)'
  BY <1>k, <1>p, <1>d DEF LifeInv, Ended
<1>5. TalkInv(w)'
  <2>1. Boots(w)'
    BY <1>k, <1>p, <1>q DEF Boots, Of, Spawned
  <2>2. Len(rsp'[w]) <= 2 /\ Len(req'[w]) <= 1
    BY <1>q
  <2> QED
    BY <1>k, <2>1, <2>2 DEF TalkInv
<1>6. w \in Children => SlotInv(w)'
  <2> SUFFICES ASSUME w \in Children PROVE SlotInv(w)'
    OBVIOUS
  <2>1. SlotInv(w) /\ slot[w] # "parent" /\ w # 0
    BY <1>t, <1>f, Constants DEF WorkerInv, SlotInv
  <2>2. conn'[0] = conn[0]
    BY <1>k, <1>t, <2>1
  <2> QED
    BY <1>f, <1>k, <1>p, <2>1, <2>2 DEF SlotInv
<1>7. WorkerInv(w)'
  BY <1>4, <1>5, <1>6 DEF WorkerInv
<1> QED
  BY <1>1, <1>2, <1>3, <1>7, StepKeeps

LEMMA SpawnFailsKeeps ==
  ASSUME PoolInv, NEW w \in Workers, SpawnFails(w)
  PROVE  PoolInv'
<1>t. Typed /\ FirstInv /\ WorkerInv(w) /\ 0 \in Workers
  BY Constants DEF PoolInv
<1>f. /\ task[w] = "connect" /\ task' = [task EXCEPT ![w] = "failed"]
      /\ slot' = IF w = 0 /\ spawns[0] = 0 THEN [c \in Children |-> "closed"] ELSE slot
      /\ UNCHANGED <<conn, since, asked, answer, req, rsp, end, proc, serving, completed, forked,
                     started, spawns, items, ending, now>>
  BY DEF SpawnFails
<1>k. /\ task' \in [Workers -> Tasks] /\ task'[w] = "failed"
      /\ \A v \in Workers \ {w} : task'[v] = task[v]
  BY <1>t, <1>f DEF Typed, Tasks, Ended
<1>s. /\ slot' \in [Children -> {"parent", "child", "closed"}]
      /\ \A c \in Children : slot'[c] = slot[c] \/ (slot[c] = "parent" /\ slot'[c] = "closed")
  <2>1. w = 0 /\ spawns[0] = 0 => conn[0] # "spawned"
    BY <1>t DEF FirstInv
  <2>2. w = 0 /\ spawns[0] = 0 => \A c \in Children : slot[c] # "child"
    BY <2>1, Constants DEF PoolInv, WorkerInv, SlotInv
  <2> QED
    BY <1>t, <1>f, <2>2 DEF Typed
<1>1. Typed'
  BY <1>t, <1>f, <1>k, <1>s DEF Typed
<1>2. FirstInv'
  BY <1>t, <1>f, <1>k DEF FirstInv, Forked
<1>3. StepFrame(w)
  <2>1. \A v \in Workers \ {w} : Untouched(v)
    BY <1>f, <1>k, <1>s DEF Untouched, Spawned, Forked
  <2>2. Uncounted' => Uncounted
    BY <1>t, <1>f, <1>k DEF Uncounted
  <2>3. items' >= items
    BY <1>t, <1>f, SameItems
  <2>4. HeldSlots' \subseteq HeldSlots
    BY <1>s DEF HeldSlots
  <2> QED
    BY <1>f, <2>1, <2>2, <2>3, <2>4 DEF StepFrame, Connected
<1>4. LifeInv(w)'
  BY <1>t, <1>f, <1>k DEF WorkerInv, LifeInv, Ended, Spawned, Forked
<1>5. TalkInv(w)'
  BY <1>t, <1>f, <1>k DEF WorkerInv, TalkInv
<1>6. w \in Children => SlotInv(w)'
  BY <1>t, <1>f, <1>k, <1>s DEF WorkerInv, SlotInv, Forked
<1>7. WorkerInv(w)'
  BY <1>4, <1>5, <1>6 DEF WorkerInv
<1> QED
  BY <1>1, <1>2, <1>3, <1>7, StepKeeps

(* A worker that stops waiting for its fork closes its end of the slot: it is
   spawned instead only when no fork can come. *)
LEMMA AttachEndsKeeps ==
  ASSUME PoolInv, NEW c \in Children, AttachEof(c) \/ AttachFails(c) \/ AttachTimeout(c)
  PROVE  PoolInv'
<1>t. Typed /\ FirstInv /\ WorkerInv(c) /\ 0 \in Workers /\ c \in Workers /\ c # 0 /\ SlotInv(c)
  BY Constants DEF PoolInv, WorkerInv
<1>f. /\ task[c] = "attach" /\ end' = [end EXCEPT ![c] = FALSE]
      /\ UNCHANGED <<conn, since, asked, answer, req, rsp, proc, serving, slot, completed, forked,
                     started, spawns, items, ending, now>>
  BY DEF AttachEof, AttachFails, AttachTimeout, forkVars
<1>l. PICK l \in {"connect", "failed", "timed out"} :
         /\ task' = [task EXCEPT ![c] = l]
         /\ l = "connect" => Forked(c) \in Dead /\ slot[c] # "parent"
  <2>1. CASE AttachEof(c)
    <3>1. slot[c] = "closed" => Forked(c) = "none"
      BY <1>t DEF SlotInv, Typed, Forked
    <3>2. Forked(c) \in Dead /\ slot[c] # "parent"
      BY <2>1, <3>1 DEF AttachEof, Dead, Forked
    <3> QED
      BY <2>1, <3>2 DEF AttachEof
  <2>2. CASE AttachFails(c) \/ AttachTimeout(c)
    BY <2>2 DEF AttachFails, AttachTimeout
  <2> QED
    BY <2>1, <2>2
<1>k. /\ task' \in [Workers -> Tasks] /\ task'[c] = l
      /\ \A v \in Workers \ {c} : task'[v] = task[v]
  BY <1>t, <1>l DEF Typed, Tasks, Ended
<1>n. end' \in [Children -> BOOLEAN] /\ end'[c] = FALSE /\ \A v \in Children \ {c} : end'[v] = end[v]
  BY <1>t, <1>f DEF Typed
<1>c. conn[c] = "none"
  BY <1>t, <1>f DEF WorkerInv, LifeInv
<1>1. Typed'
  BY <1>t, <1>f, <1>k, <1>n DEF Typed
<1>2. FirstInv'
  BY <1>t, <1>f, <1>k DEF FirstInv, Forked
<1>3. StepFrame(c)
  <2>1. \A v \in Workers \ {c} : Untouched(v)
    BY <1>f, <1>k, <1>n DEF Untouched, Spawned, Forked
  <2>2. Uncounted' => Uncounted
    BY <1>t, <1>f, <1>k DEF Uncounted
  <2>3. items' >= items
    BY <1>t, <1>f, SameItems
  <2> QED
    BY <1>f, <2>1, <2>2, <2>3 DEF StepFrame, Connected, HeldSlots
<1>4. LifeInv(c)'
  BY <1>t, <1>f, <1>k, <1>l, <1>c DEF WorkerInv, LifeInv, Ended, Spawned, Forked
<1>5. TalkInv(c)'
  BY <1>t, <1>f, <1>k DEF WorkerInv, TalkInv
<1>6. SlotInv(c)'
  BY <1>t, <1>f, <1>k, <1>n, <1>l, <1>c DEF SlotInv, Forked
<1>7. WorkerInv(c)'
  BY <1>4, <1>5, <1>6 DEF WorkerInv
<1> QED
  BY <1>t, <1>1, <1>2, <1>3, <1>7, StepKeeps

(* Both messages of a forked process are there: it has nothing else to say. *)
LEMMA AttachKeeps ==
  ASSUME PoolInv, NEW c \in Children, Attach(c)
  PROVE  PoolInv'
<1>t. Typed /\ FirstInv /\ WorkerInv(c) /\ 0 \in Workers /\ c \in Workers /\ c # 0 /\ SlotInv(c)
  BY Constants DEF PoolInv, WorkerInv
<1>f. /\ task[c] = "attach" /\ Len(rsp[c]) = 2
      /\ rsp' = [rsp EXCEPT ![c] = <<>>]
      /\ conn' = [conn EXCEPT ![c] = "forked"]
      /\ task' = [task EXCEPT ![c] = "idle"]
      /\ UNCHANGED <<since, asked, answer, req, end, proc, serving, slot, completed, forked, started,
                     spawns, items, ending, now>>
  BY DEF Attach, forkVars
<1>k. /\ task' \in [Workers -> Tasks] /\ task'[c] = "idle"
      /\ conn' \in [Workers -> {"none", "spawned", "forked"}] /\ conn'[c] = "forked"
      /\ \A v \in Workers \ {c} : task'[v] = task[v] /\ conn'[v] = conn[v]
  BY <1>t, <1>f DEF Typed, Tasks
<1>q. /\ rsp' \in [Workers -> Seq(Messages)] /\ rsp'[c] = <<>> /\ Len(<<>>) = 0
      /\ \A v \in Workers \ {c} : rsp'[v] = rsp[v]
  <2>1. <<>> \in Seq(Messages) /\ Len(<<>>) = 0
    OBVIOUS
  <2> QED
    BY <1>t, <1>f, <2>1 DEF Typed
<1>g. Forked(c) \in {"ready", "gone"} /\ req[c] = <<>>
  <2>1. Greets(c)
    BY <1>t, <1>f DEF WorkerInv, TalkInv
  <2>2. Len(<<>>) # 2 /\ Len(<<M("pid", 0)>>) # 2
    OBVIOUS
  <2> QED
    BY <1>f, <2>1, <2>2 DEF Greets
<1>c. conn[c] = "none" /\ Spawned(c) \in Dead
  BY <1>t, <1>f DEF WorkerInv, LifeInv
<1>1. Typed'
  BY <1>t, <1>f, <1>k, <1>q DEF Typed
<1>2. FirstInv'
  BY <1>t, <1>f, <1>k DEF FirstInv, Forked
<1>3. StepFrame(c)
  <2>1. \A v \in Workers \ {c} : Untouched(v)
    BY <1>f, <1>k, <1>q DEF Untouched, Spawned, Forked
  <2>2. Uncounted' => Uncounted
    BY <1>t, <1>f, <1>k DEF Uncounted
  <2>3. items' >= items
    BY <1>t, <1>f, SameItems
  <2> QED
    BY <1>f, <1>k, <1>t, <2>1, <2>2, <2>3 DEF StepFrame, Connected, HeldSlots
<1>4. LifeInv(c)'
  BY <1>t, <1>f, <1>k, <1>c DEF LifeInv, Ended, Spawned, Forked
<1>5. TalkInv(c)'
  <2>1. Rests(c)'
    BY <1>f, <1>k, <1>q, <1>g DEF Rests, Resting, Of, Forked
  <2>2. Len(req'[c]) <= 1 /\ Len(rsp'[c]) <= 2
    BY <1>f, <1>g, <1>q
  <2> QED
    BY <1>k, <2>1, <2>2 DEF TalkInv
<1>6. SlotInv(c)'
  <2>1. conn'[0] = conn[0] /\ slot[c] = "child"
    BY <1>t, <1>g, <1>k DEF SlotInv
  <2> QED
    BY <1>t, <1>f, <1>k, <1>g, <2>1 DEF SlotInv, Forked
<1>7. WorkerInv(c)'
  BY <1>4, <1>5, <1>6 DEF WorkerInv
<1> QED
  BY <1>t, <1>1, <1>2, <1>3, <1>7, StepKeeps

(* The task reads a message; the process and the request stay. *)
LEMMA ReadKeeps ==
  ASSUME PoolInv, NEW w \in Workers, NEW l \in {"idle", "status", "restart"},
         task[w] \in {"hello", "event", "status"}, rsp[w] # <<>>,
         task' = [task EXCEPT ![w] = l], rsp' = [rsp EXCEPT ![w] = Tail(@)],
         UNCHANGED <<conn, since, asked, req, end, proc, serving, forkVars, spawns, items, ending, now>>,
         answer' \in [Workers -> 0..MaxItems],
         \A v \in Workers \ {w} : answer'[v] = answer[v],
         l \in {"idle", "restart"} => Rests(w)', l = "restart" => proc[Of(w)] = "gone",
         l = "status" => Reports(w)' /\ answer'[w] = asked[w]
  PROVE  PoolInv'
<1>t. Typed /\ FirstInv /\ WorkerInv(w) /\ 0 \in Workers
  BY Constants DEF PoolInv
<1>p. conn[w] # "none"
  BY HasProcess
<1>k. /\ task' \in [Workers -> Tasks] /\ task'[w] = l
      /\ \A v \in Workers \ {w} : task'[v] = task[v]
  BY <1>t DEF Typed, Tasks
<1>q. /\ rsp' \in [Workers -> Seq(Messages)] /\ Len(rsp'[w]) <= 2
      /\ \A v \in Workers \ {w} : rsp'[v] = rsp[v]
  <2>1. rsp \in [Workers -> Seq(Messages)] /\ rsp[w] \in Seq(Messages) /\ Len(rsp[w]) <= 2
    BY <1>t DEF Typed, WorkerInv, TalkInv
  <2>2. Tail(rsp[w]) \in Seq(Messages) /\ Len(Tail(rsp[w])) <= 2
    BY <2>1
  <2> QED
    BY <2>1, <2>2
<1>1. Typed'
  BY <1>t, <1>k, <1>q DEF Typed, forkVars
<1>2. FirstInv'
  BY <1>t, <1>k DEF FirstInv, Forked
<1>3. StepFrame(w)
  <2>1. \A v \in Workers \ {w} : Untouched(v)
    BY <1>k, <1>q DEF Untouched, Spawned, Forked, forkVars
  <2>2. Uncounted' => Uncounted
    BY <1>t, <1>k DEF Uncounted
  <2>3. items' >= items
    BY <1>t, SameItems
  <2> QED
    BY <2>1, <2>2, <2>3 DEF StepFrame, Connected, HeldSlots, forkVars
<1>4. LifeInv(w)'
  BY <1>t, <1>k, <1>p DEF WorkerInv, LifeInv, Ended, Spawned, Forked
<1>5. TalkInv(w)'
  <2>1. Len(req'[w]) <= 1 /\ asked'[w] = asked[w] /\ proc'[Of(w)'] = proc[Of(w)]
    BY <1>t DEF WorkerInv, TalkInv, Of
  <2> QED
    BY <1>k, <1>q, <2>1 DEF TalkInv
<1>6. w \in Children => SlotInv(w)'
  BY <1>t, <1>k, <1>p DEF WorkerInv, SlotInv, Forked, forkVars
<1>7. WorkerInv(w)'
  BY <1>4, <1>5, <1>6 DEF WorkerInv
<1> QED
  BY <1>1, <1>2, <1>3, <1>7, StepKeeps

LEMMA Tails ==
  /\ \A m : Tail(<<m>>) = <<>> /\ Head(<<m>>) = m /\ <<m>> # <<>>
  /\ \A m, n : Tail(<<m, n>>) = <<n>> /\ Head(<<m, n>>) = m
  OBVIOUS

LEMMA HelloKeeps ==
  ASSUME PoolInv, NEW w \in Workers, Hello(w)
  PROVE  PoolInv'
<1>t. Typed /\ TalkInv(w) /\ rsp \in [Workers -> Seq(Messages)]
  BY DEF PoolInv, WorkerInv, Typed
<1>f. /\ task[w] = "hello" /\ rsp[w] # <<>> /\ rsp' = [rsp EXCEPT ![w] = Tail(@)]
      /\ task' = [task EXCEPT ![w] = "idle"]
      /\ UNCHANGED <<conn, since, asked, answer, req, end, proc, serving, forkVars, spawns, items,
                     ending, now>>
  BY DEF Hello
<1>1. proc[Of(w)] \in {"ready", "gone"} /\ req[w] = <<>> /\ rsp[w] = <<M("Ready", 0)>>
  BY <1>t, <1>f DEF TalkInv, Boots
<1>2. rsp'[w] = <<>>
  BY <1>t, <1>f, <1>1, Tails
<1>3. Rests(w)'
  BY <1>f, <1>1, <1>2 DEF Rests, Resting, Of
<1> QED
  BY <1>t, <1>f, <1>3, ReadKeeps DEF Typed

LEMMA ReadEventKeeps ==
  ASSUME PoolInv, NEW w \in Workers, ReadEvent(w)
  PROVE  PoolInv'
<1>t. Typed /\ TalkInv(w) /\ rsp \in [Workers -> Seq(Messages)] /\ answer \in [Workers -> 0..MaxItems]
      /\ asked[w] \in 0..MaxItems
  BY DEF PoolInv, WorkerInv, Typed
<1>f. /\ task[w] = "event" /\ rsp[w] # <<>> /\ rsp' = [rsp EXCEPT ![w] = Tail(@)]
      /\ answer' = [answer EXCEPT ![w] = Head(rsp[w]).item]
      /\ task' = [task EXCEPT ![w] = "status"]
      /\ UNCHANGED <<conn, since, asked, req, end, proc, serving, forkVars, spawns, items,
                     ending, now>>
  BY DEF ReadEvent
<1>s. Serves(w, asked[w])
  BY <1>t, <1>f DEF TalkInv
<1>h. /\ req[w] = <<>>
      /\ \/ proc[Of(w)] \in {"answered", "gone"} /\ rsp[w] = <<M("Event", asked[w])>>
         \/ proc[Of(w)] \in Resting /\ rsp[w] = <<M("Event", asked[w]), M("Ready", 0)>>
         \/ proc[Of(w)] = "gone" /\ rsp[w] = <<M("Event", asked[w]), M("Restart", 0)>>
  BY <1>f, <1>s DEF Serves
<1>i. Head(rsp[w]) = M("Event", asked[w])
  BY <1>h, Tails
<1>a. answer' \in [Workers -> 0..MaxItems] /\ answer'[w] = asked[w]
      /\ \A v \in Workers \ {w} : answer'[v] = answer[v]
  BY <1>t, <1>f, <1>i DEF M
<1>r. rsp'[w] = Tail(rsp[w])
  BY <1>t, <1>f
<1>1. Reports(w)'
  <2>1. /\ req'[w] = <<>> /\ proc'[Of(w)'] = proc[Of(w)]
    BY <1>f, <1>h DEF Of
  <2>2. \/ proc[Of(w)] \in {"answered", "gone"} /\ rsp'[w] = <<>>
        \/ proc[Of(w)] \in Resting /\ rsp'[w] = <<M("Ready", 0)>>
        \/ proc[Of(w)] = "gone" /\ rsp'[w] = <<M("Restart", 0)>>
    BY <1>h, <1>r, Tails
  <2> QED
    BY <2>1, <2>2 DEF Reports
<1> QED
  BY <1>f, <1>a, <1>1, ReadKeeps

LEMMA ReadStatusKeeps ==
  ASSUME PoolInv, NEW w \in Workers, ReadStatus(w)
  PROVE  PoolInv'
<1>t. Typed /\ TalkInv(w) /\ rsp \in [Workers -> Seq(Messages)] /\ answer \in [Workers -> 0..MaxItems]
  BY DEF PoolInv, WorkerInv, Typed
<1>f. /\ task[w] = "status" /\ rsp[w] # <<>> /\ rsp' = [rsp EXCEPT ![w] = Tail(@)]
      /\ task' = [task EXCEPT ![w] = IF Head(rsp[w]).type = "Restart" THEN "restart" ELSE "idle"]
      /\ UNCHANGED <<conn, since, asked, answer, req, end, proc, serving, forkVars, spawns, items,
                     ending, now>>
  BY DEF ReadStatus
<1>h. /\ req[w] = <<>>
      /\ \/ proc[Of(w)] \in Resting /\ rsp[w] = <<M("Ready", 0)>>
         \/ proc[Of(w)] = "gone" /\ rsp[w] = <<M("Restart", 0)>>
  BY <1>t, <1>f DEF TalkInv, Reports
<1>r. rsp'[w] = <<>>
  BY <1>t, <1>f, <1>h, Tails
<1>1. Rests(w)'
  BY <1>f, <1>h, <1>r DEF Rests, Resting, Of
<1>2. PICK l \in {"idle", "restart"} : /\ task' = [task EXCEPT ![w] = l]
                                       /\ l = "restart" => proc[Of(w)] = "gone"
  <2>1. CASE rsp[w] = <<M("Ready", 0)>>
    <3>1. Head(rsp[w]).type = "Ready"
      BY <2>1, Tails DEF M
    <3> QED
      BY <1>f, <3>1
  <2>2. CASE proc[Of(w)] = "gone"
    BY <1>f, <2>2
  <2> QED
    BY <1>h, <2>1, <2>2
<1> QED
  BY <1>t, <1>f, <1>1, <1>2, ReadKeeps

(* An idle worker has an empty connection: the request is all there is. *)
LEMMA WorkKeeps ==
  ASSUME PoolInv, NEW w \in Workers, Work(w)
  PROVE  PoolInv'
<1>t. Typed /\ FirstInv /\ WorkerInv(w) /\ 0 \in Workers
  BY Constants DEF PoolInv
<1>i. PICK i \in 0..MaxItems : i = items + 1 /\ i > items
  <2>1. items \in 0..MaxItems /\ MaxItems \in Nat /\ items < MaxItems
    BY <1>t, Constants DEF Typed, Work
  <2>2. items + 1 \in 0..MaxItems /\ items + 1 > items
    BY <2>1
  <2> QED
    BY <2>2
<1>f. /\ task[w] = "idle" /\ items' = i /\ asked' = [asked EXCEPT ![w] = i]
      /\ req' = [req EXCEPT ![w] = Append(@, M("Work", i))]
      /\ task' = [task EXCEPT ![w] = "event"]
      /\ since' = [since EXCEPT ![w] = now]
      /\ UNCHANGED <<conn, answer, rsp, end, proc, serving, slot, completed, forked, started, spawns,
                     ending, now>>
  BY <1>i DEF Work, M, forkVars
<1>r. Rests(w) /\ conn[w] # "none"
  BY <1>t, <1>f, HasProcess DEF WorkerInv, TalkInv
<1>k. /\ task' \in [Workers -> Tasks] /\ task'[w] = "event"
      /\ asked' \in [Workers -> 0..MaxItems] /\ asked'[w] = i
      /\ \A v \in Workers \ {w} : task'[v] = task[v] /\ asked'[v] = asked[v]
  BY <1>t, <1>f DEF Typed, Tasks
<1>q. /\ req' \in [Workers -> Seq(Messages)] /\ req'[w] = <<M("Work", i)>> /\ Len(req'[w]) = 1
      /\ \A v \in Workers \ {w} : req'[v] = req[v]
  <2>1. /\ Append(<<>>, M("Work", i)) = <<M("Work", i)>>
        /\ <<M("Work", i)>> \in Seq(Messages) /\ Len(<<M("Work", i)>>) = 1
    BY MessagesTyped
  <2>2. req \in [Workers -> Seq(Messages)] /\ req[w] = <<>>
    BY <1>t, <1>r DEF Typed, Rests
  <2> QED
    BY <1>f, <2>1, <2>2
<1>1. Typed'
  <2>1. since' \in [Workers -> 0..MaxTime]
    BY <1>t, <1>f DEF Typed
  <2> QED
    BY <1>t, <1>f, <1>k, <1>q, <2>1 DEF Typed
<1>2. FirstInv'
  BY <1>t, <1>f, <1>k DEF FirstInv, Forked
<1>3. StepFrame(w)
  <2>1. \A v \in Workers \ {w} : Untouched(v)
    BY <1>f, <1>k, <1>q DEF Untouched, Spawned, Forked
  <2>2. items' > items
    BY <1>i, <1>f
  <2>3. items' >= items
    <3>1. items \in 0..MaxItems /\ MaxItems \in Nat
      BY <1>t, Constants DEF Typed
    <3>2. items \in Int /\ items' \in Int
      BY <1>i, <1>f, <3>1
    <3> QED
      BY <2>2, <3>2
  <2> QED
    BY <1>f, <2>1, <2>2, <2>3 DEF StepFrame, Connected, HeldSlots
<1>4. LifeInv(w)'
  BY <1>t, <1>f, <1>k, <1>r DEF WorkerInv, LifeInv, Ended, Spawned, Forked
<1>5. TalkInv(w)'
  <2>1. Serves(w, asked[w])'
    BY <1>f, <1>k, <1>q, <1>r DEF Serves, Rests, Of
  <2>2. Len(rsp'[w]) <= 2
    BY <1>t, <1>f DEF WorkerInv, TalkInv
  <2> QED
    BY <1>k, <1>q, <2>1, <2>2 DEF TalkInv
<1>6. w \in Children => SlotInv(w)'
  BY <1>t, <1>f, <1>k, <1>r DEF WorkerInv, SlotInv, Forked
<1>7. WorkerInv(w)'
  BY <1>4, <1>5, <1>6 DEF WorkerInv
<1> QED
  BY <1>1, <1>2, <1>3, <1>7, StepKeeps

-----------------------------------------------------------------------------
(* The steps of processes. *)

(* Whose process it is: the one its worker is connected to, or a forked one
   that the worker still waits for or waits for no more. *)
LEMMA Whose ==
  ASSUME PoolInv, NEW w \in Workers, NEW k \in {"spawned", "forked"}, Alive(<<w, k>>)
  PROVE  /\ k = "forked" => w \in Children
         /\ \/ /\ conn[w] = k /\ Of(w) = <<w, k>>
               /\ task[w] \in {"hello", "idle", "event", "status", "stop"}
            \/ /\ conn[w] = "none" /\ k = "forked" /\ Forked(w) \in {"forking", "pid", "ready"}
               /\ (task[w] = "attach" /\ end[w]) \/ (task[w] \in Ended /\ ~end[w])
<1>t. Typed /\ FirstInv /\ WorkerInv(w)
  BY DEF PoolInv
<1>a. proc[<<w, k>>] \notin Dead
  BY DEF Alive, Dead
<1>c. k = "forked" => w \in Children
  BY <1>t, <1>a, Constants DEF FirstInv, Forked, Dead
<1>k. task[w] \in Tasks /\ conn[w] \in {"none", "spawned", "forked"}
  BY <1>t DEF Typed
<1>1. CASE conn[w] = k
  <2>1. Of(w) = <<w, k>>
    BY <1>1 DEF Of
  <2>2. task[w] # "connect" /\ task[w] \notin Ended /\ task[w] # "attach"
    <3>1. CASE k = "spawned"
      BY <1>t, <1>a, <1>1, <3>1 DEF WorkerInv, LifeInv, Spawned
    <3>2. CASE k = "forked"
      BY <1>t, <1>a, <1>1, <3>2 DEF WorkerInv, LifeInv, Forked
    <3> QED
      BY <3>1, <3>2
  <2>3. task[w] \notin {"restart", "abort", "exit_error"}
    BY <1>t, <1>a, <2>1 DEF WorkerInv, TalkInv, Dead
  <2> QED
    BY <1>c, <1>k, <1>1, <2>1, <2>2, <2>3 DEF Tasks
<1>2. CASE conn[w] # k
  <2>1. k = "forked" /\ conn[w] = "none"
    <3>1. k # "spawned"
      BY <1>t, <1>a, <1>2 DEF WorkerInv, LifeInv, Spawned
    <3> QED
      BY <1>t, <1>a, <1>2, <1>k, <3>1 DEF WorkerInv, LifeInv, Forked
  <2>2. Forked(w) \in {"forking", "pid", "ready"}
    BY <1>t, <1>a, <2>1 DEF WorkerInv, LifeInv, Forked, Dead
  <2>3. task[w] \in Ended \union {"attach"}
    BY <1>t, <1>a, <2>1 DEF WorkerInv, LifeInv, Forked
  <2>4. (end[w] <=> task[w] = "attach")
    BY <1>t, <1>c, <2>1 DEF WorkerInv, SlotInv
  <2> QED
    BY <1>c, <2>1, <2>2, <2>3, <2>4
<1> QED
  BY <1>1, <1>2

(* What a step of process k of worker w may change. *)
ProcessFrame(w, k, s) ==
    /\ proc' = [proc EXCEPT ![<<w, k>>] = s]
    /\ slot' \in [Children -> {"parent", "child", "closed"}]
    /\ \A c \in Children : slot'[c] = slot[c] \/ (slot[c] = "parent" /\ slot'[c] = "closed")
    /\ req' \in [Workers -> Seq(Messages)] /\ rsp' \in [Workers -> Seq(Messages)]
    /\ \A v \in Workers \ {w} : req'[v] = req[v] /\ rsp'[v] = rsp[v]
    /\ serving' \in [Processes -> 0..MaxItems]
    /\ \A p \in Processes \ {<<w, k>>} : serving'[p] = serving[p]
    /\ UNCHANGED <<task, conn, since, asked, answer, end, spawns, items, ending, now>>

LEMMA ProcessKeeps ==
  ASSUME PoolInv, NEW w \in Workers, NEW k \in {"spawned", "forked"}, NEW s \in States \ {"none"},
         Alive(<<w, k>>), conn[w] = "none" => s \in {"pid", "ready", "gone"},
         ProcessFrame(w, k, s), TalkInv(w)', CountInv', ForkPace',
         started' \in 0..MaxTime, completed' \in Nat, forked' \in Nat
  PROVE  PoolInv'
<1>t. Typed /\ FirstInv /\ WorkerInv(w) /\ 0 \in Workers
  BY Constants DEF PoolInv
<1>f. UNCHANGED <<task, conn, since, asked, answer, end, spawns, items, ending, now>>
  BY DEF ProcessFrame
<1>p. /\ proc' \in [Processes -> States] /\ proc'[<<w, k>>] = s
      /\ \A v \in Workers \ {w} : Spawned(v)' = Spawned(v) /\ Forked(v)' = Forked(v)
      /\ (k = "spawned" => Spawned(w)' = s /\ Forked(w)' = Forked(w))
      /\ (k = "forked" => Forked(w)' = s /\ Spawned(w)' = Spawned(w))
  <2>1. proc \in [Processes -> States] /\ <<w, k>> \in Processes
        /\ \A v \in Workers : <<v, "spawned">> \in Processes /\ <<v, "forked">> \in Processes
    BY <1>t, Constants DEF Typed
  <2>2. proc' = [proc EXCEPT ![<<w, k>>] = s]
    BY DEF ProcessFrame
  <2> QED
    BY <2>1, <2>2 DEF Spawned, Forked
<1>w. /\ k = "forked" => w \in Children
      /\ \/ conn[w] = k /\ task[w] \in {"hello", "idle", "event", "status", "stop"}
         \/ conn[w] = "none" /\ k = "forked" /\ task[w] \in Ended \union {"attach"}
  BY Whose
<1>1. Typed'
  BY <1>t, <1>f, <1>p DEF Typed, ProcessFrame
<1>2. FirstInv'
  <2>1. Forked(0)' = "none"
    BY <1>t, <1>p, <1>w, Constants DEF FirstInv
  <2> QED
    BY <1>t, <1>f, <2>1 DEF FirstInv
<1>3. \A v \in Workers \ {w} : Untouched(v)
  <2> SUFFICES ASSUME NEW v \in Workers \ {w} PROVE Untouched(v)
    OBVIOUS
  <2>1. serving'[<<v, "spawned">>] = serving[<<v, "spawned">>]
        /\ serving'[<<v, "forked">>] = serving[<<v, "forked">>]
    <3>1. <<v, "spawned">> \in Processes \ {<<w, k>>} /\ <<v, "forked">> \in Processes \ {<<w, k>>}
      BY Constants
    <3> QED
      BY <3>1 DEF ProcessFrame
  <2> QED
    BY <1>f, <1>p, <2>1 DEF Untouched, ProcessFrame
<1>4. LifeInv(w)'
  <2>1. LifeInv(w)
    BY <1>t DEF WorkerInv
  <2> QED
    BY <1>f, <1>p, <1>w, <2>1 DEF LifeInv, Ended
<1>5. w \in Children => SlotInv(w)'
  <2> SUFFICES ASSUME w \in Children PROVE SlotInv(w)'
    OBVIOUS
  <2>1. SlotInv(w)
    BY <1>t DEF WorkerInv
  <2>2. k = "forked" => Forked(w) # "none"
    BY DEF Alive, Forked
  <2>3. slot[w] # "parent"
    BY <1>w, <2>1, <2>2 DEF SlotInv
  <2>4. slot'[w] = slot[w] /\ (Forked(w)' # "none" <=> Forked(w) # "none")
    BY <1>p, <2>2, <2>3 DEF ProcessFrame
  <2> QED
    BY <1>f, <2>1, <2>4 DEF SlotInv
<1>6. \A v \in Workers : WorkerInv(v)'
  <2>1. Connected
    BY <1>f DEF Connected
  <2> SUFFICES ASSUME NEW v \in Workers PROVE WorkerInv(v)'
    OBVIOUS
  <2>2. CASE v = w
    BY <1>4, <1>5, <2>2 DEF WorkerInv
  <2>3. CASE v # w
    BY <1>3, <2>1, <2>3, UntouchedKept DEF PoolInv
  <2> QED
    BY <2>2, <2>3
<1> QED
  BY <1>1, <1>2, <1>6 DEF PoolInv

(* A step that counts nothing. *)
LEMMA UncountedKept ==
  ASSUME PoolInv, NEW w \in Workers, NEW k \in {"spawned", "forked"}, NEW s \in States,
         ProcessFrame(w, k, s), UNCHANGED <<completed, forked, started>>,
         <<w, k>> = Parent /\ s \in {"busy", "answered"} => Uncounted,
         w = 0 => req'[0] = req[0] \/ req'[0] = <<>>
  PROVE  /\ CountInv' /\ ForkPace'
         /\ started' \in 0..MaxTime /\ completed' \in Nat /\ forked' \in Nat
<1>t. Typed /\ 0 \in Workers /\ Parent \in Processes
  BY Constants DEF PoolInv
<1>1. HeldSlots' \subseteq HeldSlots
  BY DEF HeldSlots, ProcessFrame
<1>2. items' >= items /\ items' \in Nat
  BY <1>t, SameItems, Constants DEF ProcessFrame, Typed
<1>3. Uncounted' => Uncounted
  <2>1. <<w, k>> # Parent => proc'[Parent] = proc[Parent]
    BY <1>t DEF ProcessFrame, Typed
  <2>2. <<w, k>> = Parent => proc'[Parent] = s
    BY <1>t DEF ProcessFrame, Typed
  <2>3. req'[0] = req[0] \/ req'[0] = <<>>
    BY <1>t DEF ProcessFrame
  <2>4. task' = task
    BY DEF ProcessFrame
  <2> QED
    BY <2>1, <2>2, <2>3, <2>4 DEF Uncounted
<1>4. CountInv'
  BY <1>1, <1>2, <1>3, CountKept
<1>5. ForkPace'
  BY DEF PoolInv, ForkPace, ProcessFrame
<1> QED
  BY <1>t, <1>4, <1>5 DEF Typed

LEMMA Joins ==
  /\ \A m \in Messages : <<>> \o <<m>> = <<m>> /\ Len(<<m>>) = 1
  /\ \A m, n \in Messages : <<m>> \o <<n>> = <<m, n>> /\ Len(<<m, n>>) = 2
  /\ Len(<<>>) = 0
<1>1. \A m \in Messages : <<m>> \in Seq(Messages) /\ Len(<<m>>) = 1
  OBVIOUS
<1>2. \A m \in Messages : <<>> \o <<m>> = <<m>>
  BY <1>1
<1>3. ASSUME NEW m \in Messages, NEW n \in Messages
      PROVE  <<m>> \o <<n>> = <<m, n>> /\ Len(<<m, n>>) = 2
  <2>1. <<m, n>> \in Seq(Messages) /\ Len(<<m, n>>) = 2 /\ <<m, n>>[1] = m /\ <<m, n>>[2] = n
    OBVIOUS
  <2>2. /\ <<m>> \o <<n>> \in Seq(Messages) /\ Len(<<m>> \o <<n>>) = 2
        /\ (<<m>> \o <<n>>)[1] = m /\ (<<m>> \o <<n>>)[2] = n
    <3>1. <<m>>[1] = m /\ <<n>>[1] = n
      OBVIOUS
    <3> QED
      BY <1>1, <3>1, ConcatProperties
  <2>3. \A i \in 1..2 : (<<m>> \o <<n>>)[i] = <<m, n>>[i]
    BY <2>1, <2>2
  <2> QED
    BY <2>1, <2>2, <2>3, SeqEqual
<1>4. Len(<<>>) = 0
  OBVIOUS
<1> QED
  BY <1>1, <1>2, <1>3, <1>4

(* A reply is appended to what is on the connection. *)
LEMMA ReplyEffect ==
  ASSUME Typed, NEW w \in Workers, NEW m \in Messages, Reply(w, <<m>>)
  PROVE  /\ rsp' \in [Workers -> Seq(Messages)] /\ rsp'[w] = rsp[w] \o <<m>>
         /\ \A v \in Workers \ {w} : rsp'[v] = rsp[v]
<1>1. rsp \in [Workers -> Seq(Messages)] /\ rsp[w] \in Seq(Messages) /\ <<m>> \in Seq(Messages)
  BY DEF Typed
<1>2. rsp[w] \o <<m>> \in Seq(Messages)
  BY <1>1
<1> QED
  BY <1>1, <1>2 DEF Reply

(* The first message on the way to a process is taken. *)
LEMMA TakeEffect ==
  ASSUME Typed, NEW w \in Workers, NEW m, req[w] = <<m>>, req' = [req EXCEPT ![w] = Tail(@)]
  PROVE  /\ req' \in [Workers -> Seq(Messages)] /\ req'[w] = <<>>
         /\ \A v \in Workers \ {w} : req'[v] = req[v]
<1>1. req \in [Workers -> Seq(Messages)] /\ <<>> \in Seq(Messages)
  BY DEF Typed
<1>2. Tail(req[w]) = <<>>
  BY Tails
<1> QED
  BY <1>1, <1>2

(* A process ends between any two of its steps: every place of its task allows
   for that. *)
LEMMA VanishKeeps ==
  ASSUME PoolInv, NEW w \in Workers, NEW k \in {"spawned", "forked"}, Alive(<<w, k>>),
         Gone(<<w, k>>),
         UNCHANGED <<taskVars, req, rsp, end, serving, completed, forked, started, spawns, items,
                     ending, now>>
  PROVE  PoolInv'
<1>t. Typed /\ TalkInv(w)
  BY DEF PoolInv, WorkerInv
<1>f. UNCHANGED <<task, conn, since, asked, answer, req, rsp, end, serving, completed, forked,
                  started, spawns, items, ending, now>>
  BY DEF taskVars
<1>g. /\ slot' \in [Children -> {"parent", "child", "closed"}] /\ proc'[<<w, k>>] = "gone"
      /\ \A c \in Children : slot'[c] = slot[c] \/ (slot[c] = "parent" /\ slot'[c] = "closed")
  BY <1>t, GoneEffect
<1>1. ProcessFrame(w, k, "gone")
  <2>1. proc' = [proc EXCEPT ![<<w, k>>] = "gone"]
    BY DEF Gone
  <2> QED
    BY <1>t, <1>f, <1>g, <2>1 DEF ProcessFrame, Typed
<1>2. TalkInv(w)'
  <2>1. CASE conn[w] = k /\ Of(w) = <<w, k>> /\ task[w] \in {"hello", "idle", "event", "status", "stop"}
    <3>1. Of(w)' = Of(w) /\ proc'[Of(w)'] = "gone"
      BY <1>f, <1>g, <2>1 DEF Of
    <3>2. proc[Of(w)] \notin {"none", "gone"}
      BY <2>1 DEF Alive
    <3>3. Boots(w) => Boots(w)'
      BY <1>f, <3>1 DEF Boots
    <3>4. Rests(w) => Rests(w)'
      BY <1>f, <3>1 DEF Rests, Resting
    <3>5. Serves(w, asked[w]) => Serves(w, asked[w])'
      BY <1>f, <3>1 DEF Serves, Resting
    <3>6. Reports(w) => Reports(w)'
      BY <1>f, <3>1 DEF Reports, Resting
    <3>7. Stops(w) => Stops(w)'
      BY <1>f, <3>1 DEF Stops, Resting
    <3> QED
      BY <1>t, <1>f, <2>1, <3>3, <3>4, <3>5, <3>6, <3>7 DEF TalkInv
  <2>2. CASE k = "forked" /\ task[w] \in Ended \union {"attach"}
    <3>1. Forked(w)' = "gone"
      BY <1>g, <2>2 DEF Forked
    <3>2. Greets(w) => Greets(w)'
      BY <1>f, <3>1 DEF Greets
    <3> QED
      BY <1>t, <1>f, <2>2, <3>2 DEF TalkInv, Ended
  <2> QED
    BY <2>1, <2>2, Whose
<1>3. /\ CountInv' /\ ForkPace'
      /\ started' \in 0..MaxTime /\ completed' \in Nat /\ forked' \in Nat
  BY <1>f, <1>1, UncountedKept DEF States
<1> QED
  BY <1>1, <1>2, <1>3, ProcessKeeps DEF States

(* Setup is read: the counters of the parent start again. *)
LEMMA BootKeeps ==
  ASSUME PoolInv, NEW w \in Workers, NEW k \in {"spawned", "forked"}, Boot(<<w, k>>)
  PROVE  PoolInv'
<1>t. Typed /\ TalkInv(w) /\ MaxItems \in Nat
  BY Constants DEF PoolInv, WorkerInv
<1>f. /\ proc[<<w, k>>] = "boot" /\ proc' = [proc EXCEPT ![<<w, k>>] = "ready"]
      /\ req' = [req EXCEPT ![w] = Tail(@)] /\ Reply(w, <<M("Ready", 0)>>)
      /\ UNCHANGED <<task, conn, since, asked, answer, end, serving, slot, spawns, items, ending, now>>
  BY DEF Boot, M, taskVars
<1>c. IF <<w, k>> = Parent THEN started' = now /\ completed' = 0 /\ forked' = 0
                           ELSE UNCHANGED <<started, completed, forked>>
  BY DEF Boot
<1>a. Alive(<<w, k>>)
  BY <1>f DEF Alive
<1>b. /\ conn[w] = k /\ Of(w) = <<w, k>> /\ task[w] = "hello" /\ conn[w] = "spawned"
      /\ req[w] = <<M("Setup", 0)>> /\ rsp[w] = <<>>
  <2>1. /\ conn[w] = k /\ Of(w) = <<w, k>>
        /\ task[w] \in {"hello", "idle", "event", "status", "stop"}
    BY <1>a, <1>f, Whose DEF Forked
  <2>2. task[w] = "hello"
    BY <1>t, <1>f, <2>1 DEF TalkInv, Rests, Serves, Reports, Stops, Resting
  <2> QED
    BY <1>t, <1>f, <2>1, <2>2 DEF TalkInv, Boots
<1>q. /\ req' \in [Workers -> Seq(Messages)] /\ req'[w] = <<>>
      /\ \A v \in Workers \ {w} : req'[v] = req[v]
  BY <1>t, <1>f, <1>b, TakeEffect
<1>r. /\ rsp' \in [Workers -> Seq(Messages)] /\ rsp'[w] = <<M("Ready", 0)>>
      /\ \A v \in Workers \ {w} : rsp'[v] = rsp[v]
  BY <1>t, <1>f, <1>b, ReplyEffect, MessagesTyped, Joins
<1>1. ProcessFrame(w, k, "ready")
  BY <1>t, <1>f, <1>q, <1>r DEF ProcessFrame, Typed
<1>2. TalkInv(w)'
  <2>1. proc'[Of(w)'] = "ready"
    BY <1>t, <1>f, <1>b, Constants DEF Typed, Of
  <2>2. Boots(w)'
    BY <2>1, <1>q, <1>r DEF Boots
  <2> QED
    BY <1>f, <1>b, <1>q, <1>r, <2>2, Joins DEF TalkInv
<1>3. /\ CountInv' /\ ForkPace'
      /\ started' \in 0..MaxTime /\ completed' \in Nat /\ forked' \in Nat
  <2>1. CASE <<w, k>> = Parent
    <3>1. w = 0 /\ started' = now /\ completed' = 0 /\ forked' = 0
      BY <1>c, <2>1 DEF Parent
    <3>2. ~Uncounted'
      <4>1. proc'[Parent] = "ready" /\ task'[0] = "hello"
        BY <1>t, <1>f, <1>b, <2>1, <3>1, Constants DEF Typed
      <4> QED
        BY <4>1 DEF Uncounted
    <3>3. Cardinality(HeldSlots') \in Nat /\ Cardinality(HeldSlots') <= K
      <4>1. HeldSlots' = HeldSlots
        BY <1>f DEF HeldSlots
      <4> QED
        BY <4>1, HeldIsFinite
    <3>4. items' \in Nat
      BY <1>t, <1>f DEF Typed
    <3>5. CountInv'
      BY <3>1, <3>2, <3>3, <3>4, Constants DEF CountInv
    <3>6. ForkPace'
      BY <3>1 DEF ForkPace
    <3>7. started' \in 0..MaxTime
      BY <1>t, <3>1 DEF Typed
    <3> QED
      BY <3>1, <3>5, <3>6, <3>7
  <2>2. CASE <<w, k>> # Parent
    <3>1. UNCHANGED <<completed, forked, started>>
      BY <1>c, <2>2
    <3>2. w # 0
      BY <1>b, <2>2 DEF Parent
    <3> QED
      BY <1>1, <2>2, <3>1, <3>2, UncountedKept DEF States
  <2> QED
    BY <2>1, <2>2
<1> QED
  BY <1>a, <1>1, <1>2, <1>3, ProcessKeeps DEF States

(* A message is read: the item that was asked, or Shutdown. *)
LEMMA ReceiveKeeps ==
  ASSUME PoolInv, NEW w \in Workers, NEW k \in {"spawned", "forked"}, Receive(<<w, k>>)
  PROVE  PoolInv'
<1>t. Typed /\ TalkInv(w)
  BY DEF PoolInv, WorkerInv
<1>f. /\ proc[<<w, k>>] = "ready"
      /\ UNCHANGED <<task, conn, since, asked, answer, rsp, end, completed, forked, started, spawns,
                     items, ending, now>>
  BY DEF Receive, taskVars
<1>a. Alive(<<w, k>>)
  BY <1>f DEF Alive
<1>1. CASE ~Holds(<<w, k>>) /\ Gone(<<w, k>>) /\ UNCHANGED <<req, serving>>
  BY <1>a, <1>f, <1>1, VanishKeeps DEF taskVars
<1>2. ASSUME Holds(<<w, k>>), req[w] # <<>>, req' = [req EXCEPT ![w] = Tail(@)],
             IF Head(req[w]).type = "Work"
             THEN /\ proc' = [proc EXCEPT ![<<w, k>>] = "busy"]
                  /\ serving' = [serving EXCEPT ![<<w, k>>] = Head(req[w]).item]
                  /\ UNCHANGED slot
             ELSE Gone(<<w, k>>) /\ UNCHANGED serving
      PROVE  PoolInv'
  <2>w. conn[w] = k /\ Of(w) = <<w, k>> /\ task[w] \in {"hello", "idle", "event", "status", "stop"}
    <3>1. conn[w] = "none" /\ k = "forked" => task[w] = "attach" \/ ~end[w]
      BY <1>a, Whose
    <3>2. task[w] = "attach" => req[w] = <<>>
      BY <1>t DEF TalkInv, Greets
    <3>3. k = "forked" => end[w]
      BY <1>2 DEF Holds
    <3> QED
      BY <1>a, <1>2, <3>1, <3>2, <3>3, Whose
  <2>p. <<w, k>> \in Processes /\ proc \in [Processes -> States]
    BY <1>t, Constants DEF Typed
  <2>m. \/ task[w] = "event" /\ req[w] = <<M("Work", asked[w])>> /\ rsp[w] = <<>>
        \/ task[w] = "stop" /\ req[w] = <<M("Shutdown", 0)>> /\ rsp[w] = <<>>
    <3>1. task[w] \notin {"hello", "idle", "status"}
      BY <1>t, <1>f, <1>2, <2>w DEF TalkInv, Boots, Rests, Reports
    <3>2. task[w] = "event" => req[w] = <<M("Work", asked[w])>> /\ rsp[w] = <<>>
      BY <1>t, <1>2 DEF TalkInv, Serves
    <3>3. task[w] = "stop" => req[w] = <<M("Shutdown", 0)>> /\ rsp[w] = <<>>
      BY <1>t, <1>2 DEF TalkInv, Stops
    <3> QED
      BY <2>w, <3>1, <3>2, <3>3
  <2>q. /\ req' \in [Workers -> Seq(Messages)] /\ req'[w] = <<>>
        /\ \A v \in Workers \ {w} : req'[v] = req[v]
    BY <1>t, <1>2, <2>m, TakeEffect
  <2>1. ASSUME task[w] = "event", req[w] = <<M("Work", asked[w])>>, rsp[w] = <<>>
        PROVE  PoolInv'
    <3>h. Head(req[w]).type = "Work" /\ Head(req[w]).item = asked[w]
      BY <2>1, Tails DEF M
    <3>b. /\ proc' = [proc EXCEPT ![<<w, k>>] = "busy"]
          /\ serving' = [serving EXCEPT ![<<w, k>>] = asked[w]] /\ UNCHANGED slot
      BY <1>2, <3>h
    <3>s. /\ serving' \in [Processes -> 0..MaxItems] /\ serving'[<<w, k>>] = asked[w]
          /\ \A p \in Processes \ {<<w, k>>} : serving'[p] = serving[p]
      BY <1>t, <2>p, <3>b DEF Typed
    <3>1. ProcessFrame(w, k, "busy")
      BY <1>t, <1>f, <2>q, <3>b, <3>s DEF ProcessFrame, Typed
    <3>2. TalkInv(w)'
      <4>1. Of(w)' = <<w, k>> /\ proc'[Of(w)'] = "busy"
        BY <1>f, <2>w, <2>p, <3>b DEF Of
      <4>2. Serves(w, asked[w])'
        BY <1>f, <2>1, <2>q, <3>s, <4>1 DEF Serves
      <4> QED
        BY <1>f, <2>1, <2>q, <4>2, Joins DEF TalkInv
    <3>3. <<w, k>> = Parent => Uncounted
      BY <2>1, Tails DEF Uncounted, Parent
    <3>4. /\ CountInv' /\ ForkPace'
          /\ started' \in 0..MaxTime /\ completed' \in Nat /\ forked' \in Nat
      BY <1>f, <2>q, <3>1, <3>3, UncountedKept DEF States
    <3>5. conn[w] # "none"
      BY <2>w
    <3> QED
      BY <1>a, <3>1, <3>2, <3>4, <3>5, ProcessKeeps DEF States
  <2>2. ASSUME task[w] = "stop", req[w] = <<M("Shutdown", 0)>>, rsp[w] = <<>>
        PROVE  PoolInv'
    <3>h. Head(req[w]).type # "Work"
      BY <2>2, Tails DEF M
    <3>b. Gone(<<w, k>>) /\ UNCHANGED serving
      BY <1>2, <3>h
    <3>g. /\ slot' \in [Children -> {"parent", "child", "closed"}] /\ proc'[<<w, k>>] = "gone"
          /\ \A c \in Children : slot'[c] = slot[c] \/ (slot[c] = "parent" /\ slot'[c] = "closed")
      BY <1>t, <3>b, GoneEffect
    <3>1. ProcessFrame(w, k, "gone")
      <4>1. proc' = [proc EXCEPT ![<<w, k>>] = "gone"]
        BY <3>b DEF Gone
      <4> QED
        BY <1>t, <1>f, <2>q, <3>b, <3>g, <4>1 DEF ProcessFrame, Typed
    <3>2. TalkInv(w)'
      <4>1. proc'[Of(w)'] = "gone"
        BY <1>f, <2>w, <3>g DEF Of
      <4>2. Stops(w)'
        BY <1>f, <2>2, <2>q, <4>1 DEF Stops
      <4> QED
        BY <1>f, <2>2, <2>q, <4>2, Joins DEF TalkInv
    <3>4. /\ CountInv' /\ ForkPace'
          /\ started' \in 0..MaxTime /\ completed' \in Nat /\ forked' \in Nat
      BY <1>f, <2>q, <3>1, UncountedKept DEF States
    <3> QED
      BY <1>a, <3>1, <3>2, <3>4, ProcessKeeps DEF States
  <2> QED
    BY <2>m, <2>1, <2>2
<1> QED
  BY <1>1, <1>2 DEF Receive

(* A process that holds an item: its task waits for the event or the status. *)
LEMMA Answering ==
  ASSUME PoolInv, NEW w \in Workers, NEW k \in {"spawned", "forked"},
         proc[<<w, k>>] \in {"busy", "answered"}
  PROVE  /\ conn[w] = k /\ Of(w) = <<w, k>> /\ req[w] = <<>>
         /\ \/ proc[<<w, k>>] = "busy" /\ task[w] = "event" /\ serving[<<w, k>>] = asked[w] /\ rsp[w] = <<>>
            \/ proc[<<w, k>>] = "answered" /\ task[w] = "event" /\ rsp[w] = <<M("Event", asked[w])>>
            \/ proc[<<w, k>>] = "answered" /\ task[w] = "status" /\ rsp[w] = <<>>
<1>t. TalkInv(w)
  BY DEF PoolInv, WorkerInv
<1>1. Alive(<<w, k>>)
  BY DEF Alive
<1>2. conn[w] = k /\ Of(w) = <<w, k>> /\ task[w] \in {"hello", "idle", "event", "status", "stop"}
  BY <1>1, Whose DEF Forked
<1>3. task[w] \in {"event", "status"}
  BY <1>t, <1>2 DEF TalkInv, Boots, Rests, Stops, Resting
<1>4. task[w] = "event" => Serves(w, asked[w])
  BY <1>t DEF TalkInv
<1>5. task[w] = "status" => Reports(w)
  BY <1>t DEF TalkInv
<1>6. CASE task[w] = "event"
  BY <1>2, <1>4, <1>6 DEF Serves, Resting
<1>7. CASE task[w] = "status"
  BY <1>2, <1>5, <1>7 DEF Reports, Resting
<1> QED
  BY <1>3, <1>6, <1>7

(* The event carries the item that is served, which is the one asked. *)
LEMMA AnswerKeeps ==
  ASSUME PoolInv, NEW w \in Workers, NEW k \in {"spawned", "forked"}, Answer(<<w, k>>)
  PROVE  PoolInv'
<1>t. Typed /\ TalkInv(w) /\ asked[w] \in 0..MaxItems /\ <<w, k>> \in Processes
  BY Constants DEF PoolInv, WorkerInv, Typed
<1>f. /\ proc[<<w, k>>] = "busy" /\ Reply(w, <<M("Event", serving[<<w, k>>])>>)
      /\ proc' = [proc EXCEPT ![<<w, k>>] = "answered"]
      /\ UNCHANGED <<task, conn, since, asked, answer, req, end, serving, slot, completed, forked,
                     started, spawns, items, ending, now>>
  BY DEF Answer, M, taskVars, forkVars
<1>a. /\ conn[w] = k /\ Of(w) = <<w, k>> /\ req[w] = <<>> /\ task[w] = "event"
      /\ serving[<<w, k>>] = asked[w] /\ rsp[w] = <<>> /\ Alive(<<w, k>>)
  BY <1>f, Answering DEF Alive
<1>m. M("Event", asked[w]) \in Messages
  BY <1>t, MessagesTyped
<1>r. /\ rsp' \in [Workers -> Seq(Messages)] /\ rsp'[w] = <<M("Event", asked[w])>>
      /\ \A v \in Workers \ {w} : rsp'[v] = rsp[v]
  BY <1>t, <1>f, <1>a, <1>m, ReplyEffect, Joins
<1>1. ProcessFrame(w, k, "answered")
  BY <1>t, <1>f, <1>r DEF ProcessFrame, Typed
<1>2. TalkInv(w)'
  <2>1. proc'[Of(w)'] = "answered"
    BY <1>t, <1>f, <1>a DEF Typed, Of
  <2>2. Serves(w, asked[w])'
    BY <1>f, <1>a, <1>r, <2>1 DEF Serves
  <2> QED
    BY <1>f, <1>a, <1>r, <1>m, <2>2, Joins DEF TalkInv
<1>3. <<w, k>> = Parent => Uncounted
  BY <1>f DEF Uncounted
<1>4. /\ CountInv' /\ ForkPace'
      /\ started' \in 0..MaxTime /\ completed' \in Nat /\ forked' \in Nat
  BY <1>f, <1>1, <1>3, UncountedKept DEF States
<1> QED
  BY <1>a, <1>1, <1>2, <1>4, ProcessKeeps DEF States

(* The status follows its event. *)
LEMMA StatusEffect ==
  ASSUME PoolInv, NEW w \in Workers, NEW k \in {"spawned", "forked"},
         NEW m \in {M("Ready", 0), M("Restart", 0)},
         proc[<<w, k>>] = "answered", Reply(w, <<m>>),
         UNCHANGED <<task, conn, asked, answer, req>>,
         IF m = M("Ready", 0) THEN proc'[<<w, k>>] \in {"ready", "fork?"} ELSE proc'[<<w, k>>] = "gone"
  PROVE  /\ TalkInv(w)' /\ rsp' \in [Workers -> Seq(Messages)]
         /\ \A v \in Workers \ {w} : rsp'[v] = rsp[v]
<1>t. Typed /\ TalkInv(w) /\ asked[w] \in 0..MaxItems
  BY DEF PoolInv, WorkerInv, Typed
<1>m. m \in Messages /\ M("Event", asked[w]) \in Messages
  BY <1>t, MessagesTyped
<1>a. /\ conn[w] = k /\ Of(w) = <<w, k>> /\ req[w] = <<>>
      /\ \/ task[w] = "event" /\ rsp[w] = <<M("Event", asked[w])>>
         \/ task[w] = "status" /\ rsp[w] = <<>>
  BY Answering
<1>r. /\ rsp' \in [Workers -> Seq(Messages)] /\ rsp'[w] = rsp[w] \o <<m>>
      /\ \A v \in Workers \ {w} : rsp'[v] = rsp[v]
  BY <1>t, <1>m, ReplyEffect
<1>o. Of(w)' = <<w, k>>
  BY <1>a DEF Of
<1>1. CASE task[w] = "event" /\ rsp[w] = <<M("Event", asked[w])>>
  <2>1. rsp'[w] = <<M("Event", asked[w]), m>> /\ Len(rsp'[w]) = 2
    BY <1>1, <1>m, <1>r, Joins
  <2>2. Serves(w, asked[w])'
    BY <1>a, <1>o, <2>1 DEF Serves, Resting
  <2> QED
    BY <1>1, <1>a, <1>r, <2>1, <2>2, Joins DEF TalkInv
<1>2. CASE task[w] = "status" /\ rsp[w] = <<>>
  <2>1. rsp'[w] = <<m>> /\ Len(rsp'[w]) = 1
    BY <1>2, <1>m, <1>r, Joins
  <2>2. Reports(w)'
    BY <1>a, <1>o, <2>1 DEF Reports, Resting
  <2>3. answer'[w] = asked'[w]
    BY <1>t, <1>2 DEF TalkInv
  <2> QED
    BY <1>2, <1>a, <1>r, <2>1, <2>2, <2>3, Joins DEF TalkInv
<1> QED
  BY <1>a, <1>r, <1>1, <1>2

LEMMA AnswerRestartKeeps ==
  ASSUME PoolInv, NEW w \in Workers, NEW k \in {"spawned", "forked"}, AnswerRestart(<<w, k>>)
  PROVE  PoolInv'
<1>t. Typed /\ <<w, k>> \in Processes
  BY Constants DEF PoolInv
<1>f. /\ proc[<<w, k>>] = "answered" /\ Reply(w, <<M("Restart", 0)>>) /\ Gone(<<w, k>>)
      /\ UNCHANGED <<task, conn, since, asked, answer, req, end, serving, completed, forked,
                     started, spawns, items, ending, now>>
  BY DEF AnswerRestart, M, taskVars
<1>a. Alive(<<w, k>>)
  BY <1>f DEF Alive
<1>g. /\ slot' \in [Children -> {"parent", "child", "closed"}] /\ proc'[<<w, k>>] = "gone"
      /\ \A c \in Children : slot'[c] = slot[c] \/ (slot[c] = "parent" /\ slot'[c] = "closed")
  BY <1>t, <1>f, GoneEffect
<1>r. /\ TalkInv(w)' /\ rsp' \in [Workers -> Seq(Messages)]
      /\ \A v \in Workers \ {w} : rsp'[v] = rsp[v]
  <2>1. M("Restart", 0) # M("Ready", 0)
    BY DEF M
  <2>2. PICK m \in {M("Ready", 0), M("Restart", 0)} : m = M("Restart", 0)
    OBVIOUS
  <2> QED
    BY <1>f, <1>g, <2>1, <2>2, StatusEffect
<1>1. ProcessFrame(w, k, "gone")
  <2>1. proc' = [proc EXCEPT ![<<w, k>>] = "gone"]
    BY <1>f DEF Gone
  <2> QED
    BY <1>t, <1>f, <1>g, <1>r, <2>1 DEF ProcessFrame, Typed
<1>2. /\ CountInv' /\ ForkPace'
      /\ started' \in 0..MaxTime /\ completed' \in Nat /\ forked' \in Nat
  BY <1>f, <1>1, UncountedKept DEF States
<1> QED
  BY <1>a, <1>r, <1>1, <1>2, ProcessKeeps DEF States

(* The parent counts the item: it was not among the completed. *)
LEMMA AnswerReadyKeeps ==
  ASSUME PoolInv, NEW w \in Workers, NEW k \in {"spawned", "forked"}, AnswerReady(<<w, k>>)
  PROVE  PoolInv'
<1>t. Typed /\ <<w, k>> \in Processes
  BY Constants DEF PoolInv
<1>s. PICK s \in {"ready", "fork?"} : s = IF <<w, k>> = Parent THEN "fork?" ELSE "ready"
  OBVIOUS
<1>f. /\ proc[<<w, k>>] = "answered" /\ Reply(w, <<M("Ready", 0)>>)
      /\ proc' = [proc EXCEPT ![<<w, k>>] = s]
      /\ completed' = IF <<w, k>> = Parent THEN completed + 1 ELSE completed
      /\ UNCHANGED <<task, conn, since, asked, answer, req, end, serving, slot, forked,
                     started, spawns, items, ending, now>>
  BY <1>s DEF AnswerReady, M, taskVars
<1>a. Alive(<<w, k>>) /\ conn[w] # "none" /\ req[w] = <<>>
  BY <1>f, Answering DEF Alive
<1>p. proc'[<<w, k>>] = s
  BY <1>t, <1>f DEF Typed
<1>r. /\ TalkInv(w)' /\ rsp' \in [Workers -> Seq(Messages)]
      /\ \A v \in Workers \ {w} : rsp'[v] = rsp[v]
  <2>1. PICK m \in {M("Ready", 0), M("Restart", 0)} : m = M("Ready", 0)
    OBVIOUS
  <2> QED
    BY <1>f, <1>p, <2>1, StatusEffect
<1>1. ProcessFrame(w, k, s)
  BY <1>t, <1>f, <1>r DEF ProcessFrame, Typed
<1>2. /\ CountInv' /\ ForkPace'
      /\ started' \in 0..MaxTime /\ completed' \in Nat /\ forked' \in Nat
  <2>1. CASE <<w, k>> = Parent
    <3>1. w = 0 /\ completed' = completed + 1 /\ proc'[Parent] = s
      BY <1>f, <1>p, <2>1 DEF Parent
    <3>t. completed \in Nat /\ forked \in Nat /\ started \in 0..MaxTime /\ items \in Nat /\ now \in Nat
      BY <1>t, Constants DEF Typed
    <3>2. completed < items
      BY <1>f, <2>1 DEF PoolInv, CountInv, Uncounted
    <3>3. ~Uncounted'
      BY <1>f, <1>a, <3>1 DEF Uncounted
    <3>4. forked' + Cardinality(HeldSlots') <= K
      BY <1>f DEF PoolInv, CountInv, HeldSlots
    <3>5. completed' <= items'
      BY <1>f, <3>1, <3>2, <3>t
    <3>6. CountInv'
      BY <3>3, <3>4, <3>5 DEF CountInv
    <3>7. ForkPace'
      <4>1. ITEMS_PER_FORK * forked \in Nat
        BY <3>t, Constants
      <4>2. completed >= ITEMS_PER_FORK * forked => completed' >= ITEMS_PER_FORK * forked
        BY <3>1, <3>t, <4>1
      <4>3. ForkPace
        BY DEF PoolInv
      <4> QED
        BY <1>f, <4>2, <4>3 DEF ForkPace
    <3> QED
      BY <1>f, <3>1, <3>t, <3>6, <3>7
  <2>2. CASE <<w, k>> # Parent
    <3>1. UNCHANGED <<completed, forked, started>>
      BY <1>f, <2>2
    <3>2. w = 0 => req'[0] = req[0]
      BY <1>f
    <3> QED
      BY <1>1, <2>2, <3>1, <3>2, UncountedKept DEF States
  <2> QED
    BY <2>1, <2>2
<1> QED
  BY <1>a, <1>r, <1>1, <1>2, ProcessKeeps DEF States

(* A forked process greets the worker that waits for it. *)
LEMMA GreetKeeps ==
  ASSUME PoolInv, NEW w \in Workers, ForkedPid(<<w, "forked">>) \/ ForkedReady(<<w, "forked">>)
  PROVE  PoolInv'
<1>t. Typed /\ TalkInv(w) /\ <<w, "forked">> \in Processes
  BY Constants DEF PoolInv, WorkerInv
<1>f. /\ proc[<<w, "forked">>] \in {"forking", "pid"}
      /\ UNCHANGED <<task, conn, since, asked, answer, req, end, serving, completed, forked, started,
                     spawns, items, ending, now>>
  BY DEF ForkedPid, ForkedReady, taskVars
<1>a. Alive(<<w, "forked">>) /\ Forked(w) = proc[<<w, "forked">>]
  BY <1>f DEF Alive, Forked
<1>w. /\ w \in Children /\ conn[w] = "none"
      /\ (task[w] = "attach" /\ end[w]) \/ (task[w] \in Ended /\ ~end[w])
  <2>1. ~(conn[w] = "forked" /\ Of(w) = <<w, "forked">>
          /\ task[w] \in {"hello", "idle", "event", "status", "stop"})
    BY <1>t, <1>f DEF TalkInv, Boots, Rests, Serves, Reports, Stops, Resting
  <2> QED
    BY <1>a, <2>1, Whose
<1>1. CASE Holds(<<w, "forked">>)
  <2>w. task[w] = "attach"
    BY <1>1, <1>w DEF Holds
  <2>g. Greets(w)
    BY <1>t, <2>w DEF TalkInv
  <2>m. M("pid", 0) \in Messages /\ M("Ready", 0) \in Messages
    BY MessagesTyped
  <2>s. PICK s \in {"pid", "ready"}, m \in {M("pid", 0), M("Ready", 0)} :
          /\ proc' = [proc EXCEPT ![<<w, "forked">>] = s] /\ Reply(w, <<m>>) /\ slot' = slot
          /\ \/ s = "pid" /\ m = M("pid", 0) /\ rsp[w] = <<>>
             \/ s = "ready" /\ m = M("Ready", 0) /\ rsp[w] = <<M("pid", 0)>>
    <3>1. CASE ForkedPid(<<w, "forked">>)
      <4>1. rsp[w] = <<>>
        BY <1>a, <2>g, <3>1 DEF Greets, ForkedPid
      <4>2. /\ proc' = [proc EXCEPT ![<<w, "forked">>] = "pid"] /\ Reply(w, <<M("pid", 0)>>)
            /\ slot' = slot
        BY <1>1, <3>1 DEF ForkedPid, M
      <4> QED
        BY <4>1, <4>2
    <3>2. CASE ForkedReady(<<w, "forked">>)
      <4>1. rsp[w] = <<M("pid", 0)>>
        BY <1>a, <2>g, <3>2 DEF Greets, ForkedReady
      <4>2. /\ proc' = [proc EXCEPT ![<<w, "forked">>] = "ready"] /\ Reply(w, <<M("Ready", 0)>>)
            /\ slot' = slot
        BY <1>1, <3>2 DEF ForkedReady, M
      <4> QED
        BY <4>1, <4>2
    <3> QED
      BY <3>1, <3>2
  <2>r. /\ rsp' \in [Workers -> Seq(Messages)] /\ rsp'[w] = rsp[w] \o <<m>>
        /\ \A v \in Workers \ {w} : rsp'[v] = rsp[v]
    BY <1>t, <2>m, <2>s, ReplyEffect
  <2>1. ProcessFrame(w, "forked", s)
    BY <1>t, <1>f, <2>r, <2>s DEF ProcessFrame, Typed
  <2>2. TalkInv(w)'
    <3>1. Forked(w)' = s
      BY <1>t, <2>s DEF Forked, Typed
    <3>2. \/ s = "pid" /\ rsp'[w] = <<M("pid", 0)>> /\ Len(rsp'[w]) = 1
          \/ s = "ready" /\ rsp'[w] = <<M("pid", 0), M("Ready", 0)>> /\ Len(rsp'[w]) = 2
      <4>1. CASE s = "pid" /\ m = M("pid", 0) /\ rsp[w] = <<>>
        <5>1. rsp'[w] = <<M("pid", 0)>>
          BY <2>m, <2>r, <4>1, Joins
        <5> QED
          BY <4>1, <5>1, <2>m, Joins
      <4>2. CASE s = "ready" /\ m = M("Ready", 0) /\ rsp[w] = <<M("pid", 0)>>
        <5>1. rsp'[w] = <<M("pid", 0), M("Ready", 0)>>
          BY <2>m, <2>r, <4>2, Joins
        <5> QED
          BY <4>2, <5>1, <2>m, Joins
      <4> QED
        BY <2>s, <4>1, <4>2
    <3>3. req'[w] = <<>> /\ Len(req'[w]) = 0
      BY <1>f, <2>g, Joins DEF Greets
    <3>4. Greets(w)'
      BY <3>1, <3>2, <3>3 DEF Greets
    <3>5. 0 <= 1 /\ 1 <= 2 /\ 2 <= 2
      OBVIOUS
    <3>6. Len(rsp'[w]) <= 2 /\ Len(req'[w]) <= 1
      BY <3>2, <3>3, <3>5, Zenon
    <3> QED
      BY <1>f, <2>w, <3>4, <3>6 DEF TalkInv
  <2>3. /\ CountInv' /\ ForkPace'
        /\ started' \in 0..MaxTime /\ completed' \in Nat /\ forked' \in Nat
    <3>1. s \in States /\ s \notin {"busy", "answered"} /\ (w = 0 => req'[0] = req[0])
      BY <1>f DEF States
    <3> QED
      BY <1>f, <2>1, <3>1, UncountedKept
  <2> QED
    BY <1>a, <2>1, <2>2, <2>3, ProcessKeeps DEF States
<1>2. CASE ~Holds(<<w, "forked">>)
  <2>1. Gone(<<w, "forked">>) /\ UNCHANGED rsp
    BY <1>2 DEF ForkedPid, ForkedReady
  <2> QED
    BY <1>a, <1>f, <2>1, VanishKeeps DEF taskVars
<1> QED
  BY <1>1, <1>2

-----------------------------------------------------------------------------
(* fork_due. *)

LEMMA ParentIsConnected ==
  ASSUME PoolInv, proc[Parent] = "fork?"
  PROVE  /\ conn[0] = "spawned" /\ Of(0) = Parent /\ Alive(Parent) /\ 0 \in Workers
         /\ task[0] \in {"idle", "event", "status", "stop"}
<1>1. Alive(Parent) /\ 0 \in Workers
  BY Constants DEF Alive
<1>2. /\ conn[0] = "spawned" /\ Of(0) = Parent
      /\ task[0] \in {"hello", "idle", "event", "status", "stop"}
  BY <1>1, Whose DEF Parent
<1>3. task[0] # "hello"
  BY <1>1, <1>2 DEF PoolInv, WorkerInv, TalkInv, Boots
<1> QED
  BY <1>1, <1>2, <1>3

(* The parent goes back to its requests; slots may have been closed. *)
LEMMA ResumeKeeps ==
  ASSUME PoolInv, proc[Parent] = "fork?", proc' = [proc EXCEPT ![Parent] = "ready"],
         slot' \in [Children -> {"parent", "child", "closed"}],
         \A c \in Children : slot'[c] = slot[c] \/ (slot[c] = "parent" /\ slot'[c] = "closed"),
         UNCHANGED <<taskVars, req, rsp, end, serving, completed, started, spawns, items, ending, now>>,
         forked' \in Nat, forked' + Cardinality(HeldSlots') <= K, ForkPace'
  PROVE  PoolInv'
<1>t. Typed /\ WorkerInv(0) /\ 0 \in Workers /\ Parent \in Processes /\ TalkInv(0)
  BY Constants DEF PoolInv, WorkerInv
<1>f. UNCHANGED <<task, conn, since, asked, answer, req, rsp, end, serving, completed, started, spawns,
                  items, ending, now>>
  BY DEF taskVars
<1>c. /\ conn[0] = "spawned" /\ Of(0) = Parent /\ Alive(Parent)
      /\ task[0] \in {"idle", "event", "status", "stop"}
  BY ParentIsConnected
<1>1. ProcessFrame(0, "spawned", "ready")
  BY <1>t, <1>f DEF ProcessFrame, Typed, Parent
<1>2. TalkInv(0)'
  <2>1. proc'[Of(0)'] = "ready"
    BY <1>t, <1>f, <1>c DEF Typed, Of, Parent
  <2>2. Rests(0) => Rests(0)'
    BY <1>f, <2>1 DEF Rests, Resting
  <2>3. Serves(0, asked[0]) => Serves(0, asked[0])'
    BY <1>f, <1>c, <2>1 DEF Serves, Resting
  <2>4. Reports(0) => Reports(0)'
    BY <1>f, <1>c, <2>1 DEF Reports, Resting
  <2>5. Stops(0) => Stops(0)'
    BY <1>f, <1>c, <2>1 DEF Stops, Resting
  <2> QED
    BY <1>t, <1>f, <1>c, <2>2, <2>3, <2>4, <2>5 DEF TalkInv
<1>3. CountInv'
  <2>1. Uncounted' => Uncounted
    <3>1. proc'[Parent] = "ready"
      BY <1>t DEF Typed
    <3> QED
      BY <1>f, <3>1 DEF Uncounted
  <2>2. completed' <= items' /\ (Uncounted' => completed' < items')
    BY <1>f, <2>1 DEF PoolInv, CountInv
  <2> QED
    BY <2>2 DEF CountInv
<1>4. started' \in 0..MaxTime /\ completed' \in Nat
  BY <1>t, <1>f DEF Typed
<1>5. Alive(<<0, "spawned">>) /\ conn[0] # "none"
  BY <1>c DEF Parent
<1> QED
  BY <1>t, <1>1, <1>2, <1>3, <1>4, <1>5, ProcessKeeps DEF States

LEMMA ForkHazardKeeps ==
  ASSUME PoolInv, ForkHazard \/ ForkNotDue
  PROVE  PoolInv'
<1>t. Typed
  BY DEF PoolInv
<1>1. /\ proc[Parent] = "fork?" /\ proc' = [proc EXCEPT ![Parent] = "ready"]
      /\ UNCHANGED <<taskVars, req, rsp, end, serving, completed, forked, started, spawns, items,
                     ending, now>>
  BY DEF ForkHazard, ForkNotDue, forkVars
<1>2. /\ slot' \in [Children -> {"parent", "child", "closed"}]
      /\ \A c \in Children : slot'[c] = slot[c] \/ (slot[c] = "parent" /\ slot'[c] = "closed")
  BY <1>t DEF ForkHazard, ForkNotDue, forkVars, Typed, HeldSlots
<1>3. forked \in Nat /\ forked' = forked /\ forked' + Cardinality(HeldSlots') <= K
  <2>1. HeldSlots' \subseteq HeldSlots
    BY <1>2 DEF HeldSlots
  <2>2. /\ Cardinality(HeldSlots) \in Nat /\ Cardinality(HeldSlots') \in Nat
        /\ Cardinality(HeldSlots') <= Cardinality(HeldSlots)
    BY <2>1, HeldIsFinite, FS_Subset, FS_CardinalityType
  <2>3. forked \in Nat /\ forked' = forked /\ forked + Cardinality(HeldSlots) <= K
    BY <1>1 DEF PoolInv, Typed, CountInv
  <2> QED
    BY <2>2, <2>3, Constants
<1>4. ForkPace'
  BY <1>1 DEF PoolInv, ForkPace
<1> QED
  BY <1>1, <1>2, <1>3, <1>4, ResumeKeeps

(* A slot less is held: the fork is counted, whether it succeeded or not. *)
LEMMA SlotSpent ==
  ASSUME PoolInv, HeldSlots # {}, is_due, NEW s \in {"child", "closed"},
         slot' = [slot EXCEPT ![FirstSlot] = s], forked' = forked + 1,
         UNCHANGED <<completed, started, now>>
  PROVE  /\ FirstSlot \in Children /\ slot[FirstSlot] = "parent" /\ slot'[FirstSlot] = s
         /\ slot' \in [Children -> {"parent", "child", "closed"}]
         /\ \A c \in Children : c # FirstSlot => slot'[c] = slot[c]
         /\ forked' \in Nat /\ forked' + Cardinality(HeldSlots') <= K /\ ForkPace'
<1>t. slot \in [Children -> {"parent", "child", "closed"}] /\ forked \in Nat
      /\ forked + Cardinality(HeldSlots) <= K
  BY DEF PoolInv, Typed, CountInv
<1>1. FirstSlot \in HeldSlots
  BY FirstSlotIsHeld
<1>2. PICK c \in Children : c = FirstSlot /\ slot[c] = "parent" /\ c \in HeldSlots
  BY <1>1 DEF HeldSlots
<1>3. /\ slot'[c] = s /\ slot' \in [Children -> {"parent", "child", "closed"}]
      /\ \A d \in Children : d # c => slot'[d] = slot[d]
  BY <1>t, <1>2
<1>4. HeldSlots' = HeldSlots \ {c}
  BY <1>2, <1>3 DEF HeldSlots
<1>5. Cardinality(HeldSlots') = Cardinality(HeldSlots) - 1 /\ Cardinality(HeldSlots) \in Nat
  BY <1>2, <1>4, HeldIsFinite, FS_RemoveElement
<1>6. forked' \in Nat /\ forked' + Cardinality(HeldSlots') <= K
  BY <1>t, <1>5, Constants
<1>7. ForkPace'
  BY DEF ForkPace, is_due
<1> QED
  BY <1>2, <1>3, <1>6, <1>7

(* A fork that succeeds: the worker of the slot has no process yet. *)
LEMMA ForkKeeps ==
  ASSUME PoolInv, Fork
  PROVE  PoolInv'
<1>t. Typed /\ FirstInv
  BY DEF PoolInv
<1>f. /\ proc[Parent] = "fork?" /\ HeldSlots # {} /\ is_due /\ forked' = forked + 1
      /\ UNCHANGED <<taskVars, req, rsp, end, serving, completed, started, spawns, items, ending, now>>
  BY DEF Fork
<1>u. UNCHANGED <<task, conn, since, asked, answer, req, rsp, end, serving, completed, started, spawns,
                  items, ending, now>>
  BY <1>f DEF taskVars
<1>1. ASSUME slot' = [slot EXCEPT ![FirstSlot] = "closed"], proc' = [proc EXCEPT ![Parent] = "ready"]
      PROVE  PoolInv'
  <2>1. /\ FirstSlot \in Children /\ slot[FirstSlot] = "parent" /\ slot'[FirstSlot] = "closed"
        /\ slot' \in [Children -> {"parent", "child", "closed"}]
        /\ \A c \in Children : c # FirstSlot => slot'[c] = slot[c]
        /\ forked' \in Nat /\ forked' + Cardinality(HeldSlots') <= K /\ ForkPace'
    BY <1>f, <1>1, SlotSpent
  <2>2. \A c \in Children : slot'[c] = slot[c] \/ (slot[c] = "parent" /\ slot'[c] = "closed")
    BY <2>1
  <2> QED
    BY <1>f, <1>1, <2>1, <2>2, ResumeKeeps
<1>2. ASSUME slot' = [slot EXCEPT ![FirstSlot] = "child"],
             proc' = [proc EXCEPT ![<<FirstSlot, "forked">>] = "forking"]
      PROVE  PoolInv'
  <2>1. /\ FirstSlot \in Children /\ slot[FirstSlot] = "parent" /\ slot'[FirstSlot] = "child"
        /\ slot' \in [Children -> {"parent", "child", "closed"}]
        /\ \A c \in Children : c # FirstSlot => slot'[c] = slot[c]
        /\ forked' \in Nat /\ forked' + Cardinality(HeldSlots') <= K /\ ForkPace'
    BY <1>f, <1>2, SlotSpent
  <2>c. PICK c \in Children : /\ c = FirstSlot /\ c \in Workers /\ c # 0
                              /\ slot[c] = "parent" /\ slot'[c] = "child"
                              /\ \A d \in Children : d # c => slot'[d] = slot[d]
    BY <2>1, Constants
  <2>w. WorkerInv(c) /\ SlotInv(c)
    BY <2>c DEF PoolInv, WorkerInv
  <2>p. /\ proc' \in [Processes -> States] /\ Forked(c)' = "forking" /\ Spawned(c)' = Spawned(c)
        /\ \A v \in Workers \ {c} : Spawned(v)' = Spawned(v) /\ Forked(v)' = Forked(v)
        /\ proc'[Parent] = proc[Parent]
    <3>1. proc \in [Processes -> States] /\ "forking" \in States
      BY <1>t DEF Typed, States
    <3>2. proc' = [proc EXCEPT ![<<c, "forked">>] = "forking"]
      BY <1>2, <2>c
    <3> QED
      BY <2>c, <3>1, <3>2, Constants DEF Spawned, Forked, Parent
  <2>n. /\ conn[c] = "none" /\ Forked(c) = "none" /\ task[c] # "connect" /\ conn[0] = "spawned"
    <3>1. conn[c] \in {"none", "spawned", "forked"}
      BY <1>t, <2>c DEF Typed
    <3>2. conn[0] = "spawned"
      BY <1>f, ParentIsConnected
    <3> QED
      BY <2>c, <2>w, <3>1, <3>2 DEF SlotInv
  <2>2. Typed'
    BY <1>t, <1>u, <2>1, <2>p DEF Typed
  <2>3. FirstInv'
    BY <1>t, <1>u, <2>c, <2>p, Constants DEF FirstInv
  <2>4. LifeInv(c)'
    BY <1>u, <2>w, <2>n, <2>p DEF WorkerInv, LifeInv, Ended
  <2>5. TalkInv(c)'
    <3>1. task[c] \notin {"hello", "idle", "event", "status", "restart", "stop", "abort", "exit_error"}
      BY <2>w, <2>n DEF WorkerInv, LifeInv, Ended
    <3>2. Greets(c) => Greets(c)'
      BY <1>u, <2>n, <2>p DEF Greets
    <3> QED
      BY <1>u, <2>w, <3>1, <3>2 DEF WorkerInv, TalkInv
  <2>6. SlotInv(c)'
    BY <1>u, <2>c, <2>w, <2>n, <2>p DEF SlotInv
  <2>7. ASSUME NEW v \in Workers PROVE WorkerInv(v)'
    <3>1. CASE v = c
      BY <2>4, <2>5, <2>6, <3>1 DEF WorkerInv
    <3>2. CASE v # c
      <4>1. Untouched(v)
        BY <1>u, <2>c, <2>p, <3>2 DEF Untouched
      <4>2. Connected
        BY <1>u DEF Connected
      <4> QED
        BY <4>1, <4>2, UntouchedKept DEF PoolInv
    <3> QED
      BY <3>1, <3>2
  <2>8. CountInv'
    <3>1. Uncounted' <=> Uncounted
      BY <1>u, <2>p DEF Uncounted
    <3> QED
      BY <1>u, <2>1, <3>1 DEF PoolInv, CountInv
  <2> QED
    BY <2>1, <2>2, <2>3, <2>7, <2>8 DEF PoolInv
<1> QED
  BY <1>1, <1>2 DEF Fork

-----------------------------------------------------------------------------
(* The invariant. *)

LEMMA ProcessStepKeeps ==
  ASSUME PoolInv, NEW p \in Processes, ProcessStep(p) \/ Die(p)
  PROVE  PoolInv'
<1>1. PICK w \in Workers, k \in {"spawned", "forked"} : p = <<w, k>>
  BY DEF Processes
<1>2. CASE Boot(p)
  BY <1>1, <1>2, BootKeeps
<1>3. CASE Receive(p)
  BY <1>1, <1>3, ReceiveKeeps
<1>4. CASE Answer(p)
  BY <1>1, <1>4, AnswerKeeps
<1>5. CASE AnswerRestart(p)
  BY <1>1, <1>5, AnswerRestartKeeps
<1>6. CASE AnswerReady(p)
  BY <1>1, <1>6, AnswerReadyKeeps
<1>7. CASE ForkedPid(p) \/ ForkedReady(p)
  <2>1. k = "forked"
    <3>1. proc[<<w, k>>] \in {"forking", "pid"}
      BY <1>1, <1>7 DEF ForkedPid, ForkedReady
    <3>2. Alive(<<w, k>>)
      BY <3>1 DEF Alive
    <3> SUFFICES ASSUME k = "spawned" PROVE FALSE
      OBVIOUS
    <3>3. conn[w] = k /\ Of(w) = <<w, k>> /\ task[w] \in {"hello", "idle", "event", "status", "stop"}
      BY <3>2, Whose
    <3> QED
      BY <3>1, <3>3 DEF PoolInv, WorkerInv, TalkInv, Boots, Rests, Serves, Reports, Stops, Resting
  <2> QED
    BY <1>1, <1>7, <2>1, GreetKeeps
<1>8. CASE Fork
  BY <1>8, ForkKeeps
<1>9. CASE ForkHazard \/ ForkNotDue
  BY <1>9, ForkHazardKeeps
<1>10. CASE Die(p)
  BY <1>1, <1>10, VanishKeeps DEF Die
<1> QED
  BY <1>2, <1>3, <1>4, <1>5, <1>6, <1>7, <1>8, <1>9, <1>10 DEF ProcessStep

LEMMA TaskStepKeeps ==
  ASSUME PoolInv, NEW w \in Workers, TaskStep(w)
  PROVE  PoolInv'
<1>1. CASE Spawn(w) \/ SpawnFails(w)
  BY <1>1, SpawnKeeps, SpawnFailsKeeps
<1>2. CASE Hello(w) \/ ReadEvent(w) \/ ReadStatus(w)
  BY <1>2, HelloKeeps, ReadEventKeeps, ReadStatusKeeps
<1>3. CASE HelloFails(w) \/ Restart(w) \/ WorkFails(w) \/ Stopped(w) \/ Reaped(w)
  BY <1>3, EndsKeep
<1>4. CASE HelloTimeout(w) \/ WorkTimeout(w)
  BY <1>4, TimeoutKeeps
<1>5. CASE Work(w) \/ Stop(w) \/ Abort(w)
  BY <1>5, WorkKeeps, StopKeeps, AbortKeeps
<1> QED
  BY <1>1, <1>2, <1>3, <1>4, <1>5 DEF TaskStep

(* Time and the end of the work leave every worker alone. *)
LEMMA ClockKeeps ==
  ASSUME PoolInv, Finish \/ Tick \/ UNCHANGED vars
  PROVE  PoolInv'
<1>t. Typed /\ FirstInv /\ CountInv /\ ForkPace /\ 0 \in Workers
  BY Constants DEF PoolInv
<1>f. UNCHANGED <<task, conn, since, asked, answer, req, rsp, end, slot, proc, serving, completed,
                  forked, started, spawns, items>>
  BY DEF Finish, Tick, vars, taskVars, forkVars
<1>n. now \in Nat /\ now' \in 0..MaxTime /\ (now' = now \/ now' = now + 1)
  <2>1. now \in 0..MaxTime /\ MaxTime \in Nat
    BY <1>t, Constants DEF Typed
  <2>2. now' = now \/ (now < MaxTime /\ now' = now + 1)
    BY DEF Finish, Tick, vars
  <2> QED
    BY <2>1, <2>2
<1>e. ending' \in BOOLEAN
  BY <1>t DEF Finish, Tick, vars, Typed
<1>1. Typed'
  BY <1>t, <1>f, <1>n, <1>e DEF Typed
<1>2. FirstInv'
  BY <1>t, <1>f DEF FirstInv, Forked
<1>3. CountInv'
  BY <1>t, <1>f DEF CountInv, Uncounted, HeldSlots
<1>4. ForkPace'
  <2>1. TIME_PER_FORK * forked \in Nat /\ started \in Nat
    BY <1>t, Constants DEF Typed
  <2>2. now - started >= TIME_PER_FORK * forked => now' - started >= TIME_PER_FORK * forked
    BY <1>n, <2>1
  <2> QED
    BY <1>t, <1>f, <2>2 DEF ForkPace
<1>5. ASSUME NEW v \in Workers PROVE WorkerInv(v)'
  <2>1. Untouched(v)
    BY <1>f DEF Untouched, Spawned, Forked
  <2>2. Connected
    BY <1>f DEF Connected
  <2> QED
    BY <2>1, <2>2, UntouchedKept DEF PoolInv
<1> QED
  BY <1>1, <1>2, <1>3, <1>4, <1>5 DEF PoolInv

LEMMA InitHolds == Init => PoolInv
<1> SUFFICES ASSUME Init PROVE PoolInv
  OBVIOUS
<1>c. /\ 0 \in Workers /\ Children \subseteq Workers /\ 0 \notin Children
      /\ 0 \in 0..MaxTime /\ 0 \in 0..MaxItems /\ 0 \in 0..MaxSpawns
      /\ \A w \in Workers : w # 0 => w \in Children
  BY Constants
<1>p. /\ \A w \in Workers : Spawned(w) = "none" /\ Forked(w) = "none"
      /\ proc[Parent] = "none"
  BY Constants DEF Init, Spawned, Forked
<1>1. Typed
  <2>1. <<>> \in Seq(Messages)
    OBVIOUS
  <2> QED
    BY <1>c, <2>1 DEF Typed, Init, Tasks, States
<1>2. FirstInv
  BY <1>c, <1>p DEF FirstInv, Init
<1>3. CountInv
  <2>1. ~Uncounted
    BY <1>c, <1>p DEF Uncounted, Init
  <2>2. completed <= items /\ forked = 0
    BY DEF Init
  <2> QED
    BY <2>1, <2>2, HeldIsFinite, Constants DEF CountInv
<1>4. ForkPace
  BY DEF ForkPace, Init
<1>5. ASSUME NEW w \in Workers PROVE WorkerInv(w)
  <2>1. /\ conn[w] = "none" /\ req[w] = <<>> /\ rsp[w] = <<>>
        /\ task[w] = IF w = 0 THEN "connect" ELSE "attach"
    BY DEF Init
  <2>2. LifeInv(w)
    BY <1>p, <2>1 DEF LifeInv, Dead, Ended
  <2>3. Greets(w)
    BY <1>p, <2>1 DEF Greets
  <2>4. Len(req[w]) <= 1 /\ Len(rsp[w]) <= 2
    BY <2>1
  <2>5. TalkInv(w)
    BY <2>1, <2>3, <2>4 DEF TalkInv
  <2>6. ASSUME w \in Children PROVE SlotInv(w)
    <3>1. slot[w] = "parent" /\ end[w] = TRUE /\ task[w] = "attach"
      BY <1>c, <2>1, <2>6 DEF Init
    <3> QED
      BY <1>p, <2>1, <3>1 DEF SlotInv
  <2> QED
    BY <2>2, <2>5, <2>6 DEF WorkerInv
<1> QED
  BY <1>1, <1>2, <1>3, <1>4, <1>5 DEF PoolInv

LEMMA InvariantHolds == Spec => []PoolInv
<1>1. PoolInv /\ [Next]_vars => PoolInv'
  <2> SUFFICES ASSUME PoolInv, [Next]_vars PROVE PoolInv'
    OBVIOUS
  <2>1. ASSUME NEW w \in Workers, TaskStep(w) PROVE PoolInv'
    BY <2>1, TaskStepKeeps
  <2>2. ASSUME NEW c \in Children, AttachStep(c) \/ AttachTimeout(c) PROVE PoolInv'
    BY <2>2, AttachKeeps, AttachEndsKeeps DEF AttachStep
  <2>3. ASSUME NEW p \in Processes, ProcessStep(p) \/ Die(p) PROVE PoolInv'
    BY <2>3, ProcessStepKeeps
  <2>4. CASE Finish \/ Tick \/ UNCHANGED vars
    BY <2>4, ClockKeeps
  <2> QED
    BY <2>1, <2>2, <2>3, <2>4 DEF Next
<1> QED
  BY <1>1, InitHolds, PTL DEF Spec

-----------------------------------------------------------------------------
(* The theorems. *)

(* Processes and slots are sound for any number of workers, items, spawns and
   ticks: every variable has its type, so no more forks and answered items are
   counted than workers and items there are, and a connection holds at most
   one answer (TypeOK); a worker that was spawned because its slot was closed
   has no forked twin and gets none (NoTwin; WorkerClient::attach and connect);
   and no fork comes before it is due (ForkPace; Forker::is_due). *)
THEOREM PoolIsSound == Spec => []PoolSound
<1>1. PoolInv => PoolSound
  <2> SUFFICES ASSUME PoolInv PROVE PoolSound
    OBVIOUS
  <2>t. Typed /\ CountInv /\ \A w \in Workers : WorkerInv(w)
    BY DEF PoolInv
  <2>1. completed \in 0..MaxItems /\ forked \in 0..K
    <3>1. completed \in Nat /\ forked \in Nat /\ items \in 0..MaxItems /\ completed <= items
          /\ forked + Cardinality(HeldSlots) <= K
      BY <2>t DEF Typed, CountInv
    <3> QED
      BY <3>1, HeldIsFinite, Constants
  <2>2. ASSUME NEW w \in Workers PROVE Len(req[w]) <= 2 /\ Len(rsp[w]) <= 2
    <3>1. Len(req[w]) <= 1 /\ Len(rsp[w]) <= 2 /\ req[w] \in Seq(Messages)
      BY <2>t DEF WorkerInv, TalkInv, Typed
    <3>2. Len(req[w]) \in Nat
      BY <3>1
    <3> QED
      BY <3>1, <3>2
  <2>3. \A w \in Workers : \A i \in 1..Len(req[w]) : req[w][i] \in Messages
    BY <2>t DEF Typed
  <2>4. TypeOK
    BY <2>t, <2>1, <2>2, <2>3 DEF TypeOK, Typed, Tasks, States
  <2>5. NoTwin
    <3> SUFFICES ASSUME NEW c \in Children, conn[c] = "spawned"
                 PROVE  ~Alive(<<c, "forked">>) /\ slot[c] # "parent"
      BY DEF NoTwin
    <3>1. LifeInv(c) /\ SlotInv(c)
      BY <2>t, Constants DEF WorkerInv
    <3> QED
      BY <3>1 DEF LifeInv, SlotInv, Alive, Forked, Dead
  <2> QED
    BY <2>4, <2>5 DEF PoolSound, PoolInv
<1> QED
  BY <1>1, InvariantHolds, PTL

(* An event is taken for the item that was sent, whatever restarts, timeouts,
   deaths and forks came before: nothing of an earlier item is ever left on
   the connection a worker reads (WorkerClient::work, work_with_timeout). *)
THEOREM AnswersAreMatched == Spec => []AnswersMatch
<1>1. PoolInv => AnswersMatch
  BY DEF PoolInv, WorkerInv, TalkInv, AnswersMatch
<1> QED
  BY <1>1, InvariantHolds, PTL
==============================================================================
