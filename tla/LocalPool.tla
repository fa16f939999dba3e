----------------------------- MODULE LocalPool -----------------------------
(***************************************************************************)
(* The local worker processes of one evaluation: crates/evix/src/          *)
(* {worker_process,worker,fork}.rs and WorkerClient in async_master.rs.    *)
(*                                                                         *)
(* Worker 0 is spawned; once it has answered a few items it forks the      *)
(* others, each on a socket (a slot) that was opened for it beforehand.  A *)
(* worker whose slot is closed without a fork is spawned instead.          *)
(* Requests and answers are messages on the connection of a worker, every  *)
(* process may die between two of them, and time passes in ticks.  Which   *)
(* worker gets which item is Scheduler's matter: any idle one may get the  *)
(* next, and items are numbered.                                           *)
(*                                                                         *)
(* A definition Name_Fault is the definition Name with one plausible       *)
(* mistake; it is used by no behaviour.                                    *)
(***************************************************************************)
EXTENDS Integers, Sequences, FiniteSets

CONSTANTS
    K,              \* workers to be forked
    ITEMS_PER_FORK,
    TIME_PER_FORK,  \* in ticks
    ItemTimeout,    \* in ticks
    MaxItems,       \* bound: items handed out
    MaxTime,        \* bound: ticks
    MaxSpawns       \* bound: processes spawned for one worker

ASSUME LocalPoolAssumption ==
    /\ K \in Nat /\ MaxItems \in Nat /\ MaxTime \in Nat
    /\ {ITEMS_PER_FORK, TIME_PER_FORK, ItemTimeout, MaxSpawns} \subseteq Nat \ {0}

Workers == 0..K
Children == 1..K
Processes == Workers \X {"spawned", "forked"}

VARIABLES
    task,       \* where the task of each worker is
    conn,       \* the kind of process it is connected to
    since,      \* when its current timeout started
    asked,      \* the item it sent last
    answer,     \* the item whose event it read last
    req, rsp,   \* messages on their way to and from its process
    end,        \* the master's end of each slot is open
    slot,       \* the other end: with the parent, with a forked process, or closed
    proc,       \* what each process does
    serving,    \* the item a process evaluates
    completed, forked, started,  \* of the parent: items answered, forks, clock
    spawns,     \* processes spawned for each worker
    items,      \* items handed out
    ending,     \* the coordinator has told the tasks to stop
    now         \* the clock

taskVars == <<task, conn, since, asked, answer>>
forkVars == <<slot, completed, forked, started>>
vars == <<taskVars, req, rsp, end, proc, serving, forkVars, spawns, items, ending, now>>

Init ==
    /\ task = [w \in Workers |-> IF w = 0 THEN "connect" ELSE "attach"]
    /\ conn = [w \in Workers |-> "none"]
    /\ since = [w \in Workers |-> 0]
    /\ asked = [w \in Workers |-> 0] /\ answer = [w \in Workers |-> 0]
    /\ req = [w \in Workers |-> <<>>] /\ rsp = [w \in Workers |-> <<>>]
    /\ end = [c \in Children |-> TRUE]
    /\ slot = [c \in Children |-> "parent"]
    /\ proc = [p \in Processes |-> "none"]
    /\ serving = [p \in Processes |-> 0]
    /\ completed = 0 /\ forked = 0 /\ started = 0
    /\ spawns = [w \in Workers |-> 0]
    /\ items = 0 /\ ending = FALSE /\ now = 0

Parent == <<0, "spawned">>
Alive(p) == proc[p] \notin {"none", "gone"}
Ended == {"stopped", "failed", "timed out"}
Of(w) == <<w, conn[w]>>

(* The process at the other end has closed the connection and nothing is left
   to read. *)
Eof(w) == rsp[w] = <<>> /\ ~Alive(Of(w))

(* A forked process holds a copy of the parent's stderr until detach_stdio. *)
StderrOpen(p) == Alive(p) \/ (p = Parent /\ \E c \in Children : proc[<<c, "forked">>] = "forking")

(* A process ends, killed or not; the parent's slots end with it. *)
Gone(p) ==
    /\ proc' = [proc EXCEPT ![p] = "gone"]
    /\ slot' = IF p = Parent
               THEN [c \in Children |-> IF slot[c] = "parent" THEN "closed" ELSE slot[c]]
               ELSE slot

Leave_Fault(w) ==
    /\ task' = [task EXCEPT ![w] = "stopped"]
    /\ UNCHANGED <<end, proc, slot>>

(* The task ends and its client is dropped: that closes the slot and kills the
   process it is connected to, whichever way that was started. *)
Leave(w) ==
    /\ task' = [task EXCEPT ![w] = "stopped"]
    /\ end' = IF w = 0 THEN end ELSE [end EXCEPT ![w] = FALSE]
    /\ \/ conn[w] # "none" /\ Alive(Of(w)) /\ Gone(Of(w))
       \/ conn[w] # "none" /\ ~Alive(Of(w)) /\ UNCHANGED <<proc, slot>>
       \/ /\ conn[w] = "none" /\ UNCHANGED proc
          /\ slot' = IF w = 0 THEN [c \in Children |-> "closed"] ELSE slot

---------------------------------------------------------------------------
(* The task of a worker.                                                    *)

(* spawn_local: a new process with pipes of its own, the Setup message sent. *)
Spawn(w) ==
    /\ task[w] = "connect" /\ spawns[w] < MaxSpawns
    /\ proc' = [proc EXCEPT ![<<w, "spawned">>] = "boot"]
    /\ conn' = [conn EXCEPT ![w] = "spawned"]
    /\ req' = [req EXCEPT ![w] = <<[type |-> "Setup", item |-> 0]>>]
    /\ rsp' = [rsp EXCEPT ![w] = <<>>]
    /\ task' = [task EXCEPT ![w] = "hello"]
    /\ since' = [since EXCEPT ![w] = now]
    /\ spawns' = [spawns EXCEPT ![w] = @ + 1]
    /\ UNCHANGED <<asked, answer, end, serving, forkVars, items, ending, now>>

(* The command cannot be started: a slot that was to be passed on is dropped. *)
SpawnFails(w) ==
    /\ task[w] = "connect"
    /\ task' = [task EXCEPT ![w] = "failed"]
    /\ slot' = IF w = 0 /\ spawns[0] = 0 THEN [c \in Children |-> "closed"] ELSE slot
    /\ UNCHANGED <<conn, since, asked, answer, req, rsp, end, proc, serving, completed, forked,
                   started, spawns, items, ending, now>>

(* attach reads the pid and the Ready of a forked process. *)
Attach(c) ==
    /\ task[c] = "attach"
    /\ Len(rsp[c]) = 2
    /\ rsp' = [rsp EXCEPT ![c] = <<>>]
    /\ conn' = [conn EXCEPT ![c] = "forked"]
    /\ task' = [task EXCEPT ![c] = "idle"]
    /\ UNCHANGED <<since, asked, answer, req, end, proc, serving, forkVars, spawns, items, ending,
                   now>>

(* The slot was closed before a pid came: the worker is spawned instead. *)
AttachEof(c) ==
    /\ task[c] = "attach" /\ rsp[c] = <<>>
    /\ slot[c] = "closed" \/ (slot[c] = "child" /\ proc[<<c, "forked">>] = "gone")
    /\ end' = [end EXCEPT ![c] = FALSE]
    /\ task' = [task EXCEPT ![c] = "connect"]
    /\ UNCHANGED <<conn, since, asked, answer, req, rsp, proc, serving, forkVars, spawns, items,
                   ending, now>>

(* The process died after its pid was sent: Ready does not come, or the pid
   can no longer be opened. *)
AttachFails(c) ==
    /\ task[c] = "attach" /\ rsp[c] # <<>> /\ proc[<<c, "forked">>] = "gone"
    /\ end' = [end EXCEPT ![c] = FALSE]
    /\ task' = [task EXCEPT ![c] = "failed"]
    /\ UNCHANGED <<conn, since, asked, answer, req, rsp, proc, serving, forkVars, spawns, items,
                   ending, now>>

AttachTimeout_Fault(c) ==
    /\ task[c] = "attach" /\ now - since[c] >= ItemTimeout
    /\ end' = [end EXCEPT ![c] = FALSE]
    /\ task' = [task EXCEPT ![c] = "connect"]
    /\ UNCHANGED <<conn, since, asked, answer, req, rsp, proc, serving, forkVars, spawns, items,
                   ending, now>>

(* attach_forked: the time is counted from the start of the task. *)
AttachTimeout(c) ==
    /\ task[c] = "attach" /\ now - since[c] >= ItemTimeout
    /\ end' = [end EXCEPT ![c] = FALSE]
    /\ task' = [task EXCEPT ![c] = "timed out"]
    /\ UNCHANGED <<conn, since, asked, answer, req, rsp, proc, serving, forkVars, spawns, items,
                   ending, now>>

(* read_ready: the handshake succeeds, ... *)
Hello(w) ==
    /\ task[w] = "hello" /\ rsp[w] # <<>>
    /\ rsp' = [rsp EXCEPT ![w] = Tail(@)]
    /\ task' = [task EXCEPT ![w] = "idle"]
    /\ UNCHANGED <<conn, since, asked, answer, req, end, proc, serving, forkVars, spawns, items,
                   ending, now>>

(* ... or the process ended, whose exit and stderr exit_error waits for, ... *)
HelloFails(w) ==
    /\ task[w] = "hello" /\ Eof(w) /\ ~StderrOpen(Of(w))
    /\ task' = [task EXCEPT ![w] = "failed"]
    /\ UNCHANGED <<conn, since, asked, answer, req, rsp, end, proc, serving, forkVars, spawns,
                   items, ending, now>>

(* ... or takes too long and is killed; its end is waited for once. *)
HelloTimeout(w) ==
    /\ task[w] = "hello" /\ now - since[w] >= ItemTimeout
    /\ Gone(Of(w))
    /\ \/ task' = [task EXCEPT ![w] = "exit_error"]
       \/ Eof(w) /\ task' = [task EXCEPT ![w] = "failed"]
    /\ UNCHANGED <<conn, since, asked, answer, req, rsp, end, serving, completed, forked, started,
                   spawns, items, ending, now>>

(* work: the request is written. *)
Work(w) ==
    /\ task[w] = "idle" /\ ~ending /\ items < MaxItems
    /\ items' = items + 1
    /\ asked' = [asked EXCEPT ![w] = items + 1]
    /\ req' = [req EXCEPT ![w] = Append(@, [type |-> "Work", item |-> items + 1])]
    /\ task' = [task EXCEPT ![w] = "event"]
    /\ since' = [since EXCEPT ![w] = now]
    /\ UNCHANGED <<conn, answer, rsp, end, proc, serving, forkVars, spawns, ending, now>>

ReadEvent(w) ==
    /\ task[w] = "event" /\ rsp[w] # <<>>
    /\ answer' = [answer EXCEPT ![w] = Head(rsp[w]).item]
    /\ rsp' = [rsp EXCEPT ![w] = Tail(@)]
    /\ task' = [task EXCEPT ![w] = "status"]
    /\ UNCHANGED <<conn, since, asked, req, end, proc, serving, forkVars, spawns, items, ending,
                   now>>

(* The status says whether the process goes on or exits at its memory limit;
   restart then waits for its end. *)
ReadStatus(w) ==
    /\ task[w] = "status" /\ rsp[w] # <<>>
    /\ rsp' = [rsp EXCEPT ![w] = Tail(@)]
    /\ task' = [task EXCEPT ![w] = IF Head(rsp[w]).type = "Restart" THEN "restart" ELSE "idle"]
    /\ UNCHANGED <<conn, since, asked, answer, req, end, proc, serving, forkVars, spawns, items,
                   ending, now>>

Restart(w) ==
    /\ task[w] = "restart" /\ ~StderrOpen(Of(w))
    /\ task' = [task EXCEPT ![w] = "connect"]
    /\ UNCHANGED <<conn, since, asked, answer, req, rsp, end, proc, serving, forkVars, spawns,
                   items, ending, now>>

(* The process ended before it had answered: the item fails and the worker
   reconnects. *)
WorkFails(w) ==
    /\ task[w] \in {"event", "status"} /\ Eof(w) /\ ~StderrOpen(Of(w))
    /\ task' = [task EXCEPT ![w] = "connect"]
    /\ UNCHANGED <<conn, since, asked, answer, req, rsp, end, proc, serving, forkVars, spawns,
                   items, ending, now>>

WorkTimeout_Fault(w) ==
    /\ task[w] \in {"event", "status"} /\ now - since[w] >= ItemTimeout
    /\ task' = [task EXCEPT ![w] = "idle"]
    /\ UNCHANGED <<conn, since, asked, answer, req, rsp, end, proc, serving, forkVars, spawns,
                   items, ending, now>>

(* work_with_timeout: abort kills the process, and waits for its end unless the
   exit_error it interrupts has begun to: the stderr is awaited once. *)
WorkTimeout(w) ==
    /\ task[w] \in {"event", "status"} /\ now - since[w] >= ItemTimeout
    /\ Gone(Of(w))
    /\ \/ task' = [task EXCEPT ![w] = "abort"]
       \/ Eof(w) /\ task' = [task EXCEPT ![w] = "connect"]
    /\ UNCHANGED <<conn, since, asked, answer, req, rsp, end, serving, completed, forked, started,
                   spawns, items, ending, now>>

(* A killed process has ended and closed its stderr: the item fails and the
   worker reconnects, or the connection has failed. *)
Reaped(w) ==
    /\ task[w] \in {"abort", "exit_error"} /\ ~StderrOpen(Of(w))
    /\ task' = [task EXCEPT ![w] = IF @ = "abort" THEN "connect" ELSE "failed"]
    /\ UNCHANGED <<conn, since, asked, answer, req, rsp, end, proc, serving, forkVars, spawns,
                   items, ending, now>>

(* A forked worker has not been ready yet. *)
FirstConnect(w) == w \in Children /\ asked[w] = 0 /\ task[w] \in {"attach", "connect", "hello", "exit_error"}

(* Stop: a worker that still waits for its first connection leaves at once, one
   that is connected sends Shutdown and waits for the end of its process. *)
Stop(w) ==
    /\ ending
    /\ \/ FirstConnect(w) /\ Leave(w) /\ UNCHANGED req
       \/ /\ task[w] = "idle"
          /\ task' = [task EXCEPT ![w] = "stop"]
          /\ req' = [req EXCEPT ![w] = Append(@, [type |-> "Shutdown", item |-> 0])]
          /\ UNCHANGED <<end, proc, slot>>
    /\ UNCHANGED <<conn, since, asked, answer, rsp, serving, completed, forked, started, spawns,
                   items, ending, now>>

Stopped(w) ==
    /\ task[w] = "stop" /\ ~StderrOpen(Of(w))
    /\ task' = [task EXCEPT ![w] = "stopped"]
    /\ UNCHANGED <<conn, since, asked, answer, req, rsp, end, proc, serving, forkVars, spawns,
                   items, ending, now>>

(* A task that failed makes the coordinator abort the others. *)
Abort(w) ==
    /\ task[w] \notin Ended /\ \E v \in Workers : task[v] \in {"failed", "timed out"}
    /\ Leave(w)
    /\ UNCHANGED <<conn, since, asked, answer, req, rsp, serving, completed, forked, started,
                   spawns, items, ending, now>>

---------------------------------------------------------------------------
(* A worker process: worker::run.                                           *)

(* What a process reads: the connection is its own while its task holds it. *)
Holds(p) == IF p[2] = "spawned" THEN conn[p[1]] = "spawned" ELSE end[p[1]]

Reply(w, messages) == rsp' = [rsp EXCEPT ![w] = @ \o messages]

(* Setup is read, the root evaluated and Ready written. *)
Boot(p) ==
    /\ proc[p] = "boot"
    /\ proc' = [proc EXCEPT ![p] = "ready"]
    /\ req' = [req EXCEPT ![p[1]] = Tail(@)]
    /\ Reply(p[1], <<[type |-> "Ready", item |-> 0]>>)
    /\ IF p = Parent THEN started' = now /\ completed' = 0 /\ forked' = 0
                     ELSE UNCHANGED <<started, completed, forked>>
    /\ UNCHANGED <<taskVars, end, serving, slot, spawns, items, ending, now>>

(* The next message: an item, or Shutdown; the end of the connection is an
   error that ends the process. *)
Receive(p) ==
    /\ proc[p] = "ready"
    /\ \/ /\ Holds(p) /\ req[p[1]] # <<>>
          /\ req' = [req EXCEPT ![p[1]] = Tail(@)]
          /\ IF Head(req[p[1]]).type = "Work"
             THEN /\ proc' = [proc EXCEPT ![p] = "busy"]
                  /\ serving' = [serving EXCEPT ![p] = Head(req[p[1]]).item]
                  /\ UNCHANGED slot
             ELSE Gone(p) /\ UNCHANGED serving
       \/ ~Holds(p) /\ Gone(p) /\ UNCHANGED <<req, serving>>
    /\ UNCHANGED <<taskVars, rsp, end, completed, forked, started, spawns, items, ending, now>>

Answer(p) ==
    /\ proc[p] = "busy" /\ Holds(p)
    /\ Reply(p[1], <<[type |-> "Event", item |-> serving[p]]>>)
    /\ proc' = [proc EXCEPT ![p] = "answered"]
    /\ UNCHANGED <<taskVars, req, end, serving, forkVars, spawns, items, ending, now>>

(* The memory limit is looked at after the event is out. *)
AnswerRestart(p) ==
    /\ proc[p] = "answered" /\ Holds(p)
    /\ Reply(p[1], <<[type |-> "Restart", item |-> 0]>>)
    /\ Gone(p)
    /\ UNCHANGED <<taskVars, req, end, serving, completed, forked, started, spawns, items, ending,
                   now>>

AnswerReady(p) ==
    /\ proc[p] = "answered" /\ Holds(p)
    /\ Reply(p[1], <<[type |-> "Ready", item |-> 0]>>)
    /\ proc' = [proc EXCEPT ![p] = IF p = Parent THEN "fork?" ELSE "ready"]
    /\ completed' = IF p = Parent THEN completed + 1 ELSE completed
    /\ UNCHANGED <<taskVars, req, end, serving, slot, forked, started, spawns, items, ending, now>>

HeldSlots == {c \in Children : slot[c] = "parent"}
FirstSlot == CHOOSE c \in HeldSlots : \A d \in HeldSlots : c <= d

(* Forker::is_due. *)
is_due ==
    \/ completed >= ITEMS_PER_FORK * (forked + 1)
    \/ now - started >= TIME_PER_FORK * (forked + 1)

Fork_Fault ==
    /\ proc[Parent] = "fork?" /\ HeldSlots # {} /\ is_due
    /\ slot' = [slot EXCEPT ![FirstSlot] = "child"]
    /\ forked' = forked + 1
    /\ \/ proc' = [proc EXCEPT ![<<FirstSlot, "forked">>] = "forking"]
       \/ proc' = [proc EXCEPT ![Parent] = "ready"]
    /\ UNCHANGED <<taskVars, req, rsp, end, serving, completed, started, spawns, items, ending,
                   now>>

(* fork_due, one round of its loop: a fork, one that fails and costs its slot,
   or a hazard that makes the parent drop the slots that are left. *)
Fork ==
    /\ proc[Parent] = "fork?" /\ HeldSlots # {} /\ is_due
    /\ \/ /\ slot' = [slot EXCEPT ![FirstSlot] = "child"]
          /\ forked' = forked + 1
          /\ proc' = [proc EXCEPT ![<<FirstSlot, "forked">>] = "forking"]
       \/ /\ slot' = [slot EXCEPT ![FirstSlot] = "closed"]
          /\ forked' = forked + 1
          /\ proc' = [proc EXCEPT ![Parent] = "ready"]
    /\ UNCHANGED <<taskVars, req, rsp, end, serving, completed, started, spawns, items, ending,
                   now>>

(* fork_hazard: memory, threads or an open database; the slots are dropped. *)
ForkHazard ==
    /\ proc[Parent] = "fork?" /\ HeldSlots # {} /\ is_due
    /\ slot' = [c \in Children |-> IF c \in HeldSlots THEN "closed" ELSE slot[c]]
    /\ proc' = [proc EXCEPT ![Parent] = "ready"]
    /\ UNCHANGED <<taskVars, req, rsp, end, serving, completed, forked, started, spawns, items,
                   ending, now>>

ForkNotDue ==
    /\ proc[Parent] = "fork?" /\ (HeldSlots = {} \/ ~is_due)
    /\ proc' = [proc EXCEPT ![Parent] = "ready"]
    /\ UNCHANGED <<taskVars, req, rsp, end, serving, forkVars, spawns, items, ending, now>>

(* The forked process replaces its daemon connections and stdio, and writes
   its pid; if nobody listens any more the write fails. *)
ForkedPid(p) ==
    /\ proc[p] = "forking"
    /\ IF Holds(p)
       THEN /\ proc' = [proc EXCEPT ![p] = "pid"]
            /\ Reply(p[1], <<[type |-> "pid", item |-> 0]>>)
            /\ UNCHANGED slot
       ELSE Gone(p) /\ UNCHANGED rsp
    /\ UNCHANGED <<taskVars, req, end, serving, completed, forked, started, spawns, items, ending,
                   now>>

ForkedReady(p) ==
    /\ proc[p] = "pid"
    /\ IF Holds(p)
       THEN /\ proc' = [proc EXCEPT ![p] = "ready"]
            /\ Reply(p[1], <<[type |-> "Ready", item |-> 0]>>)
            /\ UNCHANGED slot
       ELSE Gone(p) /\ UNCHANGED rsp
    /\ UNCHANGED <<taskVars, req, end, serving, completed, forked, started, spawns, items, ending,
                   now>>

(* A process crashes, is killed by the system or fails to write. *)
Die(p) ==
    /\ Alive(p) /\ Gone(p)
    /\ UNCHANGED <<taskVars, req, rsp, end, serving, completed, forked, started, spawns, items,
                   ending, now>>

---------------------------------------------------------------------------

(* The coordinator has nothing left to do. *)
Finish ==
    /\ ~ending /\ \A w \in Workers : task[w] \notin {"event", "status", "abort"}
    /\ ending' = TRUE
    /\ UNCHANGED <<taskVars, req, rsp, end, proc, serving, forkVars, spawns, items, now>>

(* Time passes while processes evaluate; the rest takes none. *)
Tick ==
    /\ now < MaxTime
    /\ \E p \in Processes : proc[p] \in {"boot", "busy"}
    /\ \A w \in Workers : task[w] # "connect"
    /\ now' = now + 1
    /\ UNCHANGED <<taskVars, req, rsp, end, proc, serving, forkVars, spawns, items, ending>>

TaskStep(w) ==
    \/ Spawn(w) \/ SpawnFails(w) \/ Hello(w) \/ HelloFails(w) \/ HelloTimeout(w)
    \/ Work(w) \/ ReadEvent(w) \/ ReadStatus(w) \/ Restart(w) \/ WorkFails(w) \/ WorkTimeout(w)
    \/ Reaped(w)
    \/ Stop(w) \/ Stopped(w) \/ Abort(w)

AttachStep(c) == Attach(c) \/ AttachEof(c) \/ AttachFails(c)

ProcessStep(p) ==
    \/ Boot(p) \/ Receive(p) \/ Answer(p) \/ AnswerRestart(p) \/ AnswerReady(p)
    \/ ForkedPid(p) \/ ForkedReady(p)
    \/ p = Parent /\ (Fork \/ ForkHazard \/ ForkNotDue)

Next ==
    \/ \E w \in Workers : TaskStep(w)
    \/ \E c \in Children : AttachStep(c) \/ AttachTimeout(c)
    \/ \E p \in Processes : ProcessStep(p) \/ Die(p)
    \/ Finish \/ Tick

Spec == Init /\ [][Next]_vars

(* Tasks and processes are scheduled; no timeout is needed, nor any crash. *)
Fairness ==
    /\ \A w \in Workers : WF_vars(TaskStep(w))
    /\ \A c \in Children : WF_vars(AttachStep(c))
    /\ \A p \in Processes : WF_vars(ProcessStep(p))

LiveSpec == Spec /\ Fairness

---------------------------------------------------------------------------
(* Properties.                                                              *)

Messages == [type : {"Setup", "Work", "Shutdown", "Ready", "Event", "Restart", "pid"},
             item : 0..MaxItems]

(* Every variable has its type; a connection never holds more than the two
   messages of one answer. *)
TypeOK ==
    /\ task \in [Workers -> Ended \union {"connect", "attach", "hello", "idle", "event", "status",
                                          "restart", "abort", "exit_error", "stop"}]
    /\ conn \in [Workers -> {"none", "spawned", "forked"}]
    /\ since \in [Workers -> 0..MaxTime] /\ started \in 0..MaxTime
    /\ asked \in [Workers -> 0..MaxItems] /\ answer \in [Workers -> 0..MaxItems]
    /\ \A w \in Workers : Len(req[w]) <= 2 /\ Len(rsp[w]) <= 2
    /\ \A w \in Workers : \A i \in 1..Len(req[w]) : req[w][i] \in Messages
    /\ end \in [Children -> BOOLEAN]
    /\ slot \in [Children -> {"parent", "child", "closed"}]
    /\ proc \in [Processes -> {"none", "boot", "ready", "busy", "answered", "fork?", "forking",
                               "pid", "gone"}]
    /\ completed \in 0..MaxItems /\ forked \in 0..K
    /\ spawns \in [Workers -> 0..MaxSpawns]
    /\ items \in 0..MaxItems /\ ending \in BOOLEAN /\ now \in 0..MaxTime

(* An event is taken for the item that was sent: no answer of an earlier item,
   of a process that timed out or of the one before a restart is left over on
   the connection (work, work_with_timeout). *)
AnswersMatch ==
    \A w \in Workers : task[w] = "status" => answer[w] = asked[w]

(* A worker that was spawned because its slot was closed has no forked twin,
   now or later: the fork can no longer happen (attach, connect). *)
NoTwin ==
    \A c \in Children : conn[c] = "spawned" =>
        /\ ~Alive(<<c, "forked">>)
        /\ slot[c] # "parent"

(* The n-th fork waits for n times five items or n times 200 ms: a short
   evaluation does not fork at all (Forker::is_due). *)
ForkPace ==
    forked > 0 => completed >= ITEMS_PER_FORK * forked \/ now - started >= TIME_PER_FORK * forked

(* No process survives the evaluation: whatever its task ended with, it is
   killed, told to stop or reads the end of its connection. *)
NoOrphans ==
    \A w \in Workers : \A k \in {"spawned", "forked"} :
        task[w] \in Ended ~> ~Alive(<<w, k>>)

(* A worker does not wait for a fork that cannot come: when the parent ends or
   gives up forking, it learns so from the closed slot, without the timeout. *)
SlotReleased ==
    \A c \in Children : task[c] = "attach" /\ (slot[c] = "closed" \/ ~Alive(Parent))
        /\ proc[Parent] # "none" ~> task[c] # "attach"

(* Stopping always ends: no task waits for the exit or the stderr of a process
   for ever. *)
StopEnds == ending ~> \A w \in Workers : task[w] \in Ended

(* Processes and slots: types, one process for a worker, and no fork before
   it is due. *)
PoolSound == TypeOK /\ NoTwin /\ ForkPace

(* Nobody waits for ever, for a fork that cannot come or for a process that
   does not end (attach_forked, stop). *)
PoolDrains == SlotReleased /\ StopEnds
=============================================================================
