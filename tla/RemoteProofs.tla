---------------------------- MODULE RemoteProofs ----------------------------
(***************************************************************************)
(* Proofs about RemoteWorker: the service never runs more evaluators than  *)
(* it has permits and none for a client it did not accept, and a client    *)
(* takes an event for the item it asked last, for any number of clients,   *)
(* connections, permits and items.                                         *)
(*                                                                         *)
(* The invariant has three parts: what the server's task of a connection   *)
(* says of its permit and its evaluator; which connections a client holds; *)
(* and, for a connection whose client still listens, which messages can be *)
(* on it, which the positions of the two ends determine.                   *)
(***************************************************************************)
EXTENDS RemoteWorker, FiniteSetTheorems, TLAPS

Serving == {"setup", "boot", "read", "work", "respawn", "failed"}

Message == [type : {"Setup", "Work", "Shutdown", "Ready", "Restart", "Event", "Error"},
            item : 0..MaxItems]

(* A permit and the open end of the server belong to the tasks that are not
   over, and an evaluator to those past the set-up. *)
TaskInv(k) ==
    /\ far[k] <=> task[k] \in Serving
    /\ k \in permits <=> task[k] \in Serving
    /\ task[k] \in {"none", "setup"} => eval[k] = "none"
    /\ task[k] \in {"boot", "respawn"} => eval[k] \in {"boot", "ready", "gone"}
    /\ task[k] = "read" => eval[k] \in {"ready", "gone"}
    /\ task[k] = "work" => eval[k] \in {"busy", "answered", "restart", "gone"}
    /\ task[k] \in {"failed", "closed"} => eval[k] = "gone"
    /\ task[k] \in {"boot", "read", "work", "respawn"} => owner[k] \notin Rejected
    /\ task[k] = "work" => up[k] # <<>>
    /\ k \notin Opened => task[k] = "none" /\ ~near[k] /\ up[k] = <<>> /\ down[k] = <<>>

(* The connections a client holds are its own; it listens on the one it sets
   up, and on the one it asks on. *)
ClientInv(c) ==
    /\ stream[c] # 0 => stream[c] \in Opened /\ owner[stream[c]] = c
    /\ fresh[c] # 0 => fresh[c] \in Opened /\ owner[fresh[c]] = c
    /\ client[c] = "hello" => fresh[c] # 0 /\ near[fresh[c]] /\ fresh[c] # stream[c]
    /\ client[c] \in {"connect", "idle", "event", "status"} => fresh[c] = 0
    /\ client[c] \in {"idle", "event", "status"} => stream[c] # 0 /\ near[stream[c]]
    /\ client[c] = "status" => answer[c] = asked[c]

(* What a connection carries before Ready is read, ... *)
Greeting(k) ==
    \/ task[k] \in {"none", "setup", "closed"} /\ up[k] = <<Msg("Setup", 0)>> /\ down[k] = <<>>
    \/ task[k] \in {"boot", "closed"} /\ up[k] = <<>> /\ down[k] = <<>>
    \/ task[k] = "closed" /\ up[k] = <<>> /\ down[k] = <<Msg("Error", 0)>>
    \/ task[k] = "read" /\ up[k] = <<>> /\ down[k] = <<Msg("Ready", 0)>>

(* ... between two items, ... *)
Quiet(k) == task[k] \in {"read", "respawn", "closed"} /\ up[k] = <<>> /\ down[k] = <<>>

(* ... after item i was asked, ... *)
Requested(k, i) ==
    \/ task[k] \in {"read", "work", "respawn", "closed"} /\ up[k] = <<Msg("Work", i)>> /\ down[k] = <<>>
    \/ task[k] \in {"failed", "closed"} /\ up[k] = <<Msg("Work", i)>> /\ down[k] = <<Msg("Error", 0)>>
    \/ /\ task[k] \in {"read", "respawn", "closed"} /\ up[k] = <<>>
       /\ \E s \in {"Ready", "Restart"} : down[k] = <<Msg("Event", i), Msg(s, 0)>>

(* ... and after its event was read. *)
Answered(k) ==
    /\ task[k] \in {"read", "respawn", "closed"} /\ up[k] = <<>>
    /\ \E s \in {"Ready", "Restart"} : down[k] = <<Msg(s, 0)>>

(* A client that listens on a connection is where the messages on it are. *)
Heard(k, c) ==
    \/ client[c] = "hello" /\ fresh[c] = k /\ Greeting(k)
    \/ /\ stream[c] = k
       /\ \/ client[c] = "idle" /\ Quiet(k)
          \/ client[c] = "event" /\ Requested(k, asked[c])
          \/ client[c] = "status" /\ Answered(k)
          \/ client[c] \in {"connect", "hello"} /\ ((\E i \in 0..MaxItems : Requested(k, i)) \/ Answered(k))

WireInv(k) ==
    /\ Len(up[k]) <= 1 /\ Len(down[k]) <= 2
    /\ near[k] => Heard(k, owner[k])

Typed ==
    /\ client \in [Clients -> {"connect", "hello", "idle", "event", "status", "stopped",
                               "rejected", "refused", "late"}]
    /\ stream \in [Clients -> 0..MaxConns] /\ fresh \in [Clients -> 0..MaxConns]
    /\ since \in [Clients -> 0..MaxTime] /\ now \in 0..MaxTime
    /\ asked \in [Clients -> 0..MaxItems] /\ answer \in [Clients -> 0..MaxItems]
    /\ owner \in Seq(Clients) /\ Len(owner) <= MaxConns
    /\ up \in [Conns -> Seq(Message)] /\ down \in [Conns -> Seq(Message)]
    /\ near \in [Conns -> BOOLEAN] /\ far \in [Conns -> BOOLEAN]
    /\ task \in [Conns -> {"none", "setup", "boot", "read", "work", "respawn", "failed", "closed"}]
    /\ eval \in [Conns -> {"none", "boot", "ready", "busy", "answered", "restart", "gone"}]
    /\ permits \subseteq Conns /\ items \in 0..MaxItems

PermitsBounded == Cardinality(permits) <= MAX_REMOTE_CONNECTIONS

RemoteInv ==
    /\ Typed
    /\ PermitsBounded
    /\ \A k \in Conns : TaskInv(k) /\ WireInv(k)
    /\ \A c \in Clients : ClientInv(c)

-----------------------------------------------------------------------------
(* Facts used throughout. *)

LEMMA OpenedAreConns ==
  ASSUME Typed
  PROVE  /\ Opened \subseteq Conns
         /\ \A k \in Opened : owner[k] \in Clients
         /\ Len(owner) \in Nat
  BY RemoteWorkerAssumption DEF Typed, Opened, Conns

LEMMA Messages ==
  /\ MaxConns \in Nat /\ MaxItems \in Nat /\ MaxTime \in Nat
  /\ \A i \in 0..MaxItems : /\ Msg("Work", i) \in Message
                            /\ Msg("Event", i) \in Message
  /\ {Msg("Setup", 0), Msg("Shutdown", 0), Msg("Ready", 0), Msg("Restart", 0), Msg("Error", 0)}
        \subseteq Message
<1>1. MaxConns \in Nat /\ MaxItems \in Nat /\ MaxTime \in Nat
  BY RemoteWorkerAssumption
<1>2. 0 \in 0..MaxItems
  BY <1>1
<1> QED
  BY <1>1, <1>2 DEF Message, Msg

(* A permit more or less. *)
LEMMA PermitsCounted ==
  ASSUME Typed
  PROVE  /\ IsFiniteSet(permits) /\ Cardinality(permits) \in Nat
         /\ \A k : Cardinality(permits \ {k}) <= Cardinality(permits)
         /\ \A k : Cardinality(permits \union {k}) <= Cardinality(permits) + 1
<1>1. IsFiniteSet(Conns)
  BY FS_Interval, RemoteWorkerAssumption DEF Conns
<1>2. IsFiniteSet(permits)
  BY <1>1, FS_Subset DEF Typed
<1>3. ASSUME NEW k PROVE Cardinality(permits \ {k}) <= Cardinality(permits)
  BY <1>2, FS_Subset
<1>4. ASSUME NEW k PROVE Cardinality(permits \union {k}) <= Cardinality(permits) + 1
  <2>1. Cardinality(permits \union {k}) =
          IF k \in permits THEN Cardinality(permits) ELSE Cardinality(permits) + 1
    BY <1>2, FS_AddElement, Zenon
  <2> QED
    BY <1>2, <2>1, FS_CardinalityType
<1> QED
  BY <1>2, <1>3, <1>4, FS_CardinalityType

(* A step of the server or of an evaluator touches one connection. *)
ServerFrame(k) ==
    /\ UNCHANGED <<clientVars, owner, near, items, now>>
    /\ \A j \in Conns \ {k} : /\ up'[j] = up[j] /\ down'[j] = down[j]
                              /\ far'[j] = far[j] /\ task'[j] = task[j] /\ eval'[j] = eval[j]
                              /\ j \in permits' <=> j \in permits

LEMMA ServerKeeps ==
  ASSUME RemoteInv, NEW k \in Opened, ServerFrame(k), Typed', PermitsBounded',
         TaskInv(k)', WireInv(k)'
  PROVE  RemoteInv'
<1>1. UNCHANGED <<client, stream, fresh, since, asked, answer, owner, near>> /\ Opened' = Opened
  BY DEF ServerFrame, clientVars, Opened
<1>2. ASSUME NEW j \in Conns PROVE TaskInv(j)' /\ WireInv(j)'
  <2>1. CASE j = k
    BY <2>1
  <2>2. CASE j # k
    <3>1. /\ up'[j] = up[j] /\ down'[j] = down[j] /\ far'[j] = far[j]
          /\ task'[j] = task[j] /\ eval'[j] = eval[j] /\ (j \in permits' <=> j \in permits)
      BY <2>2 DEF ServerFrame
    <3>2. TaskInv(j) /\ WireInv(j)
      BY DEF RemoteInv
    <3>3. TaskInv(j)'
      BY <1>1, <3>1, <3>2 DEF TaskInv
    <3>4. WireInv(j)'
      BY <1>1, <3>1, <3>2 DEF WireInv, Heard, Greeting, Quiet, Requested, Answered
    <3> QED
      BY <3>3, <3>4
  <2> QED
    BY <2>1, <2>2
<1>3. ASSUME NEW c \in Clients PROVE ClientInv(c)'
  BY <1>1 DEF RemoteInv, ClientInv
<1> QED
  BY <1>2, <1>3 DEF RemoteInv

(* A step of a client touches the connections it owns. *)
ClientFrame(c) ==
    /\ \A d \in Clients \ {c} : /\ client'[d] = client[d] /\ stream'[d] = stream[d]
                                /\ fresh'[d] = fresh[d] /\ asked'[d] = asked[d]
                                /\ answer'[d] = answer[d]
    /\ Opened \subseteq Opened' /\ \A j \in Opened : owner'[j] = owner[j]
    /\ \A j \in Opened' \ Opened : owner'[j] = c
    /\ \A j \in Conns : j \notin Opened' \/ owner'[j] # c =>
          /\ up'[j] = up[j] /\ down'[j] = down[j] /\ near'[j] = near[j]
          /\ far'[j] = far[j] /\ task'[j] = task[j] /\ eval'[j] = eval[j]
          /\ j \in permits' <=> j \in permits

LEMMA ClientKeeps ==
  ASSUME RemoteInv, NEW c \in Clients, ClientFrame(c), Typed', PermitsBounded',
         ClientInv(c)',
         \A k \in Opened' : owner'[k] = c => TaskInv(k)' /\ WireInv(k)'
  PROVE  RemoteInv'
<1>o. /\ Opened \subseteq Conns /\ Opened' \subseteq Conns
      /\ \A k \in Opened : owner[k] \in Clients
      /\ Opened \subseteq Opened' /\ \A j \in Opened : owner'[j] = owner[j]
      /\ \A j \in Opened' \ Opened : owner'[j] = c
  <2>1. Opened' \subseteq Conns
    BY RemoteWorkerAssumption DEF Typed, Opened, Conns
  <2> QED
    BY <2>1, OpenedAreConns DEF RemoteInv, ClientFrame
<1>1. ASSUME NEW j \in Conns, j \notin Opened' \/ owner'[j] # c
      PROVE  TaskInv(j)' /\ WireInv(j)'
  <2>1. /\ up'[j] = up[j] /\ down'[j] = down[j] /\ near'[j] = near[j]
        /\ far'[j] = far[j] /\ task'[j] = task[j] /\ eval'[j] = eval[j]
        /\ j \in permits' <=> j \in permits
    BY <1>1 DEF ClientFrame
  <2>2. TaskInv(j) /\ WireInv(j)
    BY DEF RemoteInv
  <2>3. CASE j \notin Opened'
    <3>1. j \notin Opened
      BY <1>o, <2>3
    <3>2. task[j] = "none" /\ ~near[j] /\ up[j] = <<>> /\ down[j] = <<>>
      BY <2>2, <3>1 DEF TaskInv
    <3> QED
      BY <2>1, <2>2, <3>2 DEF TaskInv, WireInv, Serving
  <2>4. CASE j \in Opened' /\ owner'[j] # c
    <3>1. j \in Opened /\ owner'[j] = owner[j] /\ owner[j] \in Clients \ {c}
      BY <1>o, <2>4
    <3>2. /\ client'[owner[j]] = client[owner[j]] /\ stream'[owner[j]] = stream[owner[j]]
          /\ fresh'[owner[j]] = fresh[owner[j]] /\ asked'[owner[j]] = asked[owner[j]]
      BY <3>1 DEF ClientFrame
    <3>3. TaskInv(j)'
      BY <2>1, <2>2, <2>4, <3>1 DEF TaskInv
    <3>4. WireInv(j)'
      BY <2>1, <2>2, <3>1, <3>2 DEF WireInv, Heard, Greeting, Quiet, Requested, Answered
    <3> QED
      BY <3>3, <3>4
  <2> QED
    BY <1>1, <2>3, <2>4
<1>2. \A j \in Conns : TaskInv(j)' /\ WireInv(j)'
  BY <1>1
<1>3. ASSUME NEW d \in Clients, d # c PROVE ClientInv(d)'
  <2>1. /\ client'[d] = client[d] /\ stream'[d] = stream[d]
        /\ fresh'[d] = fresh[d] /\ asked'[d] = asked[d] /\ answer'[d] = answer[d]
    BY <1>3 DEF ClientFrame
  <2>2. ClientInv(d)
    BY DEF RemoteInv
  <2>3. ASSUME NEW j \in Opened, owner[j] = d
        PROVE  j \in Opened' /\ owner'[j] = d /\ near'[j] = near[j]
    BY <1>o, <1>3, <2>3 DEF ClientFrame
  <2> QED
    BY <2>1, <2>2, <2>3 DEF ClientInv
<1> QED
  BY <1>2, <1>3 DEF RemoteInv

(* The end of a task gives its permit back, whatever it leaves on the wire. *)
LEMMA CloseKeeps ==
  ASSUME RemoteInv, NEW k \in Opened, Close(k),
         UNCHANGED <<clientVars, owner, near, items, now>>,
         up' \in [Conns -> Seq(Message)], down' \in [Conns -> Seq(Message)],
         \A j \in Conns \ {k} : up'[j] = up[j] /\ down'[j] = down[j],
         WireInv(k)'
  PROVE  RemoteInv'
<1>t. /\ k \in Conns /\ Typed /\ TaskInv(k) /\ Opened' = Opened
  BY OpenedAreConns DEF RemoteInv, Opened
<1>1. Typed'
  BY <1>t DEF Typed, Close, clientVars
<1>2. PermitsBounded'
  <2>1. permits' = permits \ {k}
    BY DEF Close
  <2>2. /\ Cardinality(permits) \in Nat /\ Cardinality(permits \ {k}) \in Nat
        /\ Cardinality(permits \ {k}) <= Cardinality(permits)
    BY <1>t, PermitsCounted, FS_Subset, FS_CardinalityType
  <2> QED
    BY <2>1, <2>2, RemoteWorkerAssumption DEF RemoteInv, PermitsBounded
<1>3. ServerFrame(k)
  BY <1>t DEF ServerFrame, Close, Typed
<1>4. TaskInv(k)'
  <2>1. task'[k] = "closed" /\ eval'[k] = "gone" /\ far'[k] = FALSE /\ k \notin permits'
    BY <1>t DEF Typed, Close
  <2> QED
    BY <1>t, <2>1 DEF TaskInv, Serving
<1> QED
  BY <1>1, <1>2, <1>3, <1>4, ServerKeeps

-----------------------------------------------------------------------------
(* The steps of the server. *)

LEMMA SetupKeeps ==
  ASSUME RemoteInv, NEW k \in Opened, Setup(k)
  PROVE  RemoteInv'
<1>t. k \in Conns /\ Typed /\ TaskInv(k) /\ WireInv(k)
  BY OpenedAreConns DEF RemoteInv
<1>m. /\ up \in [Conns -> Seq(Message)] /\ down \in [Conns -> Seq(Message)]
      /\ near \in [Conns -> BOOLEAN] /\ Msg("Error", 0) \in Message
  BY <1>t, Messages DEF Typed
<1>f. UNCHANGED <<clientVars, owner, near, items, now>> /\ task[k] = "setup" /\ Opened' = Opened
  BY DEF Setup, Opened
<1>h. near[k] => /\ client[owner[k]] = "hello" /\ fresh[owner[k]] = k
                 /\ up[k] = <<Msg("Setup", 0)>> /\ down[k] = <<>>
  BY <1>t, <1>f DEF WireInv, Heard, Greeting, Quiet, Requested, Answered
<1>u. ASSUME up[k] # <<>>, up' = Drop(up, k)
      PROVE  /\ up' \in [Conns -> Seq(Message)] /\ up'[k] = <<>>
             /\ \A j \in Conns \ {k} : up'[j] = up[j]
  <2>1. up[k] \in Seq(Message) /\ Len(up[k]) <= 1
    BY <1>t, <1>m DEF WireInv
  <2>2. Tail(up[k]) = <<>> /\ Tail(up[k]) \in Seq(Message)
    BY <1>u, <2>1
  <2> QED
    BY <1>t, <1>m, <1>u, <2>2 DEF Drop
<1>1. ASSUME up[k] # <<>>, owner[k] \notin Rejected,
             task' = [task EXCEPT ![k] = "boot"], eval' = [eval EXCEPT ![k] = "boot"],
             up' = Drop(up, k), UNCHANGED <<down, far, permits>>
      PROVE  RemoteInv'
  <2>1. Typed'
    BY <1>t, <1>f, <1>1, <1>u DEF Typed, clientVars
  <2>2. PermitsBounded'
    BY <1>1 DEF RemoteInv, PermitsBounded
  <2>3. ServerFrame(k)
    BY <1>t, <1>f, <1>1, <1>u DEF ServerFrame, Typed
  <2>k. task'[k] = "boot" /\ eval'[k] = "boot"
    BY <1>t, <1>1 DEF Typed
  <2>4. TaskInv(k)'
    BY <1>t, <1>f, <1>1, <2>k DEF TaskInv, Serving
  <2>5. WireInv(k)'
    BY <1>t, <1>f, <1>h, <1>1, <1>u, <2>k DEF WireInv, Heard, Greeting, clientVars
  <2> QED
    BY <2>1, <2>2, <2>3, <2>4, <2>5, ServerKeeps
<1>2. ASSUME up[k] # <<>>, up' = Drop(up, k), Close(k),
             ToClient(k, Msg("Error", 0)) \/ UNCHANGED down
      PROVE  RemoteInv'
  <2>k. task'[k] = "closed"
    BY <1>t, <1>2 DEF Close, Typed
  <2>1. CASE near[k] /\ down' = Send(down, k, Msg("Error", 0))
    <3>0. down[k] = <<>>
      BY <1>h, <2>1
    <3>1. /\ down' \in [Conns -> Seq(Message)] /\ down'[k] = <<Msg("Error", 0)>>
          /\ \A j \in Conns \ {k} : down'[j] = down[j]
      BY <1>t, <1>m, <2>1, <3>0 DEF Send
    <3>l. Len(<<Msg("Error", 0)>>) = 1 /\ up'[k] = <<>>
      BY <1>2, <1>u
    <3>g. Greeting(k)'
      BY <2>k, <3>1, <3>l DEF Greeting, Msg
    <3>h. Heard(k, owner[k])'
      BY <1>f, <1>h, <2>1, <3>g DEF Heard, clientVars
    <3>2. WireInv(k)'
      BY <3>1, <3>l, <3>h DEF WireInv
    <3> QED
      BY <1>f, <1>2, <1>u, <3>1, <3>2, CloseKeeps
  <2>2. CASE UNCHANGED down
    <3>1. WireInv(k)'
      BY <1>t, <1>f, <1>h, <1>2, <1>u, <2>2, <2>k DEF WireInv, Heard, Greeting, clientVars
    <3> QED
      BY <1>f, <1>m, <1>2, <1>u, <2>2, <3>1, CloseKeeps
  <2> QED
    BY <1>2, <1>m, <1>t, <2>1, <2>2 DEF ToClient
<1>3. ASSUME ~near[k], Close(k), UNCHANGED wire
      PROVE  RemoteInv'
  <2>1. WireInv(k)'
    BY <1>t, <1>f, <1>3 DEF WireInv, wire
  <2> QED
    BY <1>f, <1>m, <1>3, <2>1, CloseKeeps DEF wire
<1> QED
  BY <1>1, <1>2, <1>3 DEF Setup

LEMMA BootedKeeps ==
  ASSUME RemoteInv, NEW k \in Opened, Booted(k)
  PROVE  RemoteInv'
<1>t. k \in Conns /\ Typed /\ TaskInv(k) /\ WireInv(k)
  BY OpenedAreConns DEF RemoteInv
<1>m. /\ up \in [Conns -> Seq(Message)] /\ down \in [Conns -> Seq(Message)]
      /\ near \in [Conns -> BOOLEAN] /\ Msg("Ready", 0) \in Message
  BY <1>t, Messages DEF Typed
<1>f. /\ UNCHANGED <<clientVars, owner, up, near, items, now>> /\ Opened' = Opened
      /\ task[k] \in {"boot", "respawn"} /\ eval[k] = "ready"
  BY DEF Booted, Opened
<1>1. ASSUME task[k] = "respawn" \/ near[k], task' = [task EXCEPT ![k] = "read"],
             IF task[k] = "boot" THEN ToClient(k, Msg("Ready", 0)) ELSE UNCHANGED down,
             UNCHANGED <<far, eval, permits>>
      PROVE  RemoteInv'
  <2>k. task'[k] = "read" /\ \A j \in Conns \ {k} : task'[j] = task[j]
    BY <1>t, <1>1 DEF Typed
  <2>d. /\ down' \in [Conns -> Seq(Message)] /\ \A j \in Conns \ {k} : down'[j] = down[j]
        /\ task[k] = "boot" => down'[k] = Append(down[k], Msg("Ready", 0)) /\ near[k]
        /\ task[k] = "respawn" => down' = down
    <3>1. CASE task[k] = "boot"
      <4>1. near[k] /\ down' = [down EXCEPT ![k] = Append(@, Msg("Ready", 0))]
        BY <1>1, <3>1 DEF ToClient, Send
      <4>2. Append(down[k], Msg("Ready", 0)) \in Seq(Message)
        BY <1>t, <1>m
      <4> QED
        BY <1>t, <1>m, <3>1, <4>1, <4>2
    <3>2. CASE task[k] = "respawn"
      BY <1>m, <1>1, <3>2
    <3> QED
      BY <1>f, <3>1, <3>2
  <2>1. Typed'
    BY <1>t, <1>f, <1>1, <2>d DEF Typed, clientVars
  <2>2. PermitsBounded'
    BY <1>1 DEF RemoteInv, PermitsBounded
  <2>3. ServerFrame(k)
    BY <1>f, <1>1, <2>d, <2>k DEF ServerFrame
  <2>4. TaskInv(k)'
    BY <1>t, <1>f, <1>1, <2>k DEF TaskInv, Serving
  <2>5. ASSUME task[k] = "boot" PROVE WireInv(k)'
    <3>1. /\ client[owner[k]] = "hello" /\ fresh[owner[k]] = k
          /\ up[k] = <<>> /\ down[k] = <<>>
      BY <1>t, <2>5, <2>d DEF WireInv, Heard, Greeting, Quiet, Requested, Answered
    <3>2. down'[k] = <<Msg("Ready", 0)>> /\ Len(<<Msg("Ready", 0)>>) = 1 /\ up'[k] = <<>>
      BY <1>f, <2>5, <2>d, <3>1
    <3>3. Greeting(k)'
      BY <2>k, <3>2 DEF Greeting, Msg
    <3>4. Heard(k, owner[k])'
      BY <1>f, <3>1, <3>3 DEF Heard, clientVars
    <3> QED
      BY <3>2, <3>4 DEF WireInv
  <2>6. ASSUME task[k] = "respawn" PROVE WireInv(k)'
    <3>1. ASSUME near[k] PROVE Heard(k, owner[k])'
      <4>1. Heard(k, owner[k])
        BY <1>t, <3>1 DEF WireInv
      <4>2. /\ ~Greeting(k) /\ (Quiet(k) => Quiet(k)') /\ (Answered(k) => Answered(k)')
            /\ \A i : Requested(k, i) => Requested(k, i)'
        BY <1>f, <2>6, <2>d, <2>k DEF Greeting, Quiet, Requested, Answered
      <4> QED
        BY <1>f, <4>1, <4>2 DEF Heard, clientVars
    <3> QED
      BY <1>t, <1>f, <2>6, <2>d, <3>1 DEF WireInv
  <2>7. WireInv(k)'
    BY <1>f, <2>5, <2>6
  <2> QED
    BY <2>1, <2>2, <2>3, <2>4, <2>7, ServerKeeps
<1>2. ASSUME ~near[k], Close(k), UNCHANGED down
      PROVE  RemoteInv'
  <2>1. WireInv(k)'
    BY <1>t, <1>f, <1>2 DEF WireInv
  <2> QED
    BY <1>f, <1>m, <1>2, <2>1, CloseKeeps
<1> QED
  BY <1>1, <1>2 DEF Booted

(* A task that ends and leaves the wire as it is. *)
LEMMA EndKeeps ==
  ASSUME RemoteInv, NEW k \in Opened, Close(k),
         UNCHANGED <<clientVars, owner, wire, near, items, now>>,
         near[k] => task[k] \in {"setup", "boot", "respawn", "failed"}
  PROVE  RemoteInv'
<1>t. k \in Conns /\ Typed /\ TaskInv(k) /\ WireInv(k)
  BY OpenedAreConns DEF RemoteInv
<1>m. /\ up \in [Conns -> Seq(Message)] /\ down \in [Conns -> Seq(Message)]
      /\ up' = up /\ down' = down
  BY <1>t DEF Typed, wire
<1>k. task'[k] = "closed"
  BY <1>t DEF Close, Typed
<1>1. ASSUME near[k] PROVE Heard(k, owner[k])'
  <2>1. Heard(k, owner[k])
    BY <1>t, <1>1 DEF WireInv
  <2>2. /\ Greeting(k) => Greeting(k)'
        /\ (Quiet(k) => Quiet(k)') /\ (Answered(k) => Answered(k)')
        /\ \A i : Requested(k, i) => Requested(k, i)'
    BY <1>1, <1>k, <1>m DEF Greeting, Quiet, Requested, Answered
  <2> QED
    BY <2>1, <2>2 DEF Heard, clientVars
<1>2. WireInv(k)'
  BY <1>t, <1>m, <1>1 DEF WireInv
<1> QED
  BY <1>m, <1>2, CloseKeeps

LEMMA SetupTimesOutKeeps ==
  ASSUME RemoteInv, NEW k \in Opened, SetupTimesOut(k)
  PROVE  RemoteInv'
  BY EndKeeps DEF SetupTimesOut

LEMMA BootFailsKeeps ==
  ASSUME RemoteInv, NEW k \in Opened, BootFails(k)
  PROVE  RemoteInv'
  BY EndKeeps DEF BootFails

LEMMA FailKeeps ==
  ASSUME RemoteInv, NEW k \in Opened, Fail(k)
  PROVE  RemoteInv'
  BY EndKeeps DEF Fail

(* A client sends nothing while an item is in flight. *)
LEMMA InterruptKeeps ==
  ASSUME RemoteInv, NEW k \in Opened, Interrupt(k)
  PROVE  RemoteInv'
<1>t. k \in Conns /\ WireInv(k) /\ Typed
  BY OpenedAreConns DEF RemoteInv
<1>1. ~near[k]
  BY <1>t DEF Interrupt, WireInv, Typed
<1> QED
  BY <1>1, EndKeeps DEF Interrupt

(* A request that the server has not answered yet is all there is. *)
LEMMA InFlight ==
  ASSUME RemoteInv, NEW k \in Opened, near[k],
         task[k] = "work" \/ (task[k] = "read" /\ up[k] # <<>>)
  PROVE  /\ stream[owner[k]] = k /\ down[k] = <<>>
         /\ client[owner[k]] \in {"event", "connect", "hello"}
         /\ \E i \in 0..MaxItems : /\ up[k] = <<Msg("Work", i)>>
                                   /\ client[owner[k]] = "event" => i = asked[owner[k]]
<1>t. k \in Conns /\ owner[k] \in Clients /\ WireInv(k) /\ Typed
  BY OpenedAreConns DEF RemoteInv
<1>1. Heard(k, owner[k])
  BY <1>t DEF WireInv
<1>2. ~Greeting(k) /\ ~Quiet(k) /\ ~Answered(k)
  BY DEF Greeting, Quiet, Answered
<1>3. \A i : Requested(k, i) => up[k] = <<Msg("Work", i)>> /\ down[k] = <<>>
  BY DEF Requested
<1>4. asked[owner[k]] \in 0..MaxItems
  BY <1>t DEF Typed
<1> QED
  BY <1>1, <1>2, <1>3, <1>4 DEF Heard

LEMMA ReadKeeps ==
  ASSUME RemoteInv, NEW k \in Opened, Read(k)
  PROVE  RemoteInv'
<1>t. k \in Conns /\ Typed /\ TaskInv(k) /\ WireInv(k)
  BY OpenedAreConns DEF RemoteInv
<1>m. /\ up \in [Conns -> Seq(Message)] /\ down \in [Conns -> Seq(Message)]
      /\ near \in [Conns -> BOOLEAN]
  BY <1>t DEF Typed
<1>f. /\ UNCHANGED <<clientVars, owner, down, near, items, now>> /\ Opened' = Opened
      /\ task[k] = "read" /\ eval[k] \in {"ready", "gone"}
  BY <1>t DEF Read, Opened, TaskInv
<1>1. ASSUME up[k] # <<>>, task' = [task EXCEPT ![k] = "work"],
             eval' = [eval EXCEPT ![k] = IF @ = "ready" THEN "busy" ELSE @],
             UNCHANGED <<up, far, permits>>
      PROVE  RemoteInv'
  <2>k. /\ task'[k] = "work" /\ \A j \in Conns \ {k} : task'[j] = task[j] /\ eval'[j] = eval[j]
        /\ eval'[k] \in {"busy", "gone"}
    BY <1>t, <1>f, <1>1 DEF Typed
  <2>1. Typed'
    BY <1>t, <1>f, <1>1 DEF Typed, clientVars
  <2>2. PermitsBounded'
    BY <1>1 DEF RemoteInv, PermitsBounded
  <2>3. ServerFrame(k)
    BY <1>f, <1>1, <2>k DEF ServerFrame
  <2>4. TaskInv(k)'
    BY <1>t, <1>f, <1>1, <2>k DEF TaskInv, Serving
  <2>5. ASSUME near[k] PROVE Heard(k, owner[k])'
    <3>1. PICK i \in 0..MaxItems : /\ up[k] = <<Msg("Work", i)>>
                                   /\ client[owner[k]] = "event" => i = asked[owner[k]]
      BY <1>f, <1>1, <2>5, InFlight
    <3>2. /\ stream[owner[k]] = k /\ down[k] = <<>>
          /\ client[owner[k]] \in {"event", "connect", "hello"}
      BY <1>f, <1>1, <2>5, InFlight
    <3>3. Requested(k, i)'
      BY <1>f, <1>1, <2>k, <3>1, <3>2 DEF Requested
    <3> QED
      BY <1>f, <3>1, <3>2, <3>3 DEF Heard, clientVars
  <2>6. WireInv(k)'
    BY <1>t, <1>f, <1>1, <2>5 DEF WireInv
  <2> QED
    BY <2>1, <2>2, <2>3, <2>4, <2>6, ServerKeeps
<1>2. ASSUME up[k] # <<>>, Head(up[k]).type # "Work", up' = Drop(up, k), Close(k)
      PROVE  RemoteInv'
  <2>1. ASSUME near[k] PROVE FALSE
    <3>1. PICK i \in 0..MaxItems : up[k] = <<Msg("Work", i)>>
      BY <1>f, <1>2, <2>1, InFlight
    <3>2. Head(up[k]).type = "Work"
      BY <3>1 DEF Msg
    <3> QED
      BY <1>2, <3>2
  <2>2. up[k] \in Seq(Message) /\ Len(up[k]) <= 1
    BY <1>t, <1>m DEF WireInv
  <2>3. Tail(up[k]) = <<>> /\ Tail(up[k]) \in Seq(Message)
    BY <1>2, <2>2
  <2>4. /\ up' \in [Conns -> Seq(Message)] /\ up'[k] = <<>>
        /\ \A j \in Conns \ {k} : up'[j] = up[j]
    BY <1>t, <1>m, <1>2, <2>3 DEF Drop
  <2>5. WireInv(k)'
    BY <1>t, <1>f, <2>1, <2>4 DEF WireInv
  <2> QED
    BY <1>f, <1>m, <1>2, <2>4, <2>5, CloseKeeps
<1>3. ASSUME ~near[k], Close(k), UNCHANGED up
      PROVE  RemoteInv'
  BY <1>f, <1>3, EndKeeps DEF wire
<1> QED
  BY <1>1, <1>2, <1>3 DEF Read

LEMMA RespondKeeps ==
  ASSUME RemoteInv, NEW k \in Opened, Respond(k)
  PROVE  RemoteInv'
<1> DEFINE item == Head(up[k]).item
           status == IF eval[k] = "restart" THEN "Restart" ELSE "Ready"
<1>t. k \in Conns /\ Typed /\ TaskInv(k) /\ WireInv(k)
  BY OpenedAreConns DEF RemoteInv
<1>m. /\ up \in [Conns -> Seq(Message)] /\ down \in [Conns -> Seq(Message)]
      /\ near \in [Conns -> BOOLEAN]
  BY <1>t DEF Typed
<1>f. /\ UNCHANGED <<clientVars, owner, near, items, now>> /\ Opened' = Opened
      /\ task[k] = "work" /\ up[k] # <<>> /\ up' = Drop(up, k)
  BY <1>t DEF Respond, Opened, TaskInv
<1>u. /\ up' \in [Conns -> Seq(Message)] /\ up'[k] = <<>>
      /\ \A j \in Conns \ {k} : up'[j] = up[j]
  <2>1. up[k] \in Seq(Message) /\ Len(up[k]) <= 1
    BY <1>t, <1>m DEF WireInv
  <2>2. Tail(up[k]) = <<>> /\ Tail(up[k]) \in Seq(Message)
    BY <1>f, <2>1
  <2> QED
    BY <1>t, <1>m, <1>f, <2>2 DEF Drop
<1>1. ASSUME near[k],
             down' = [down EXCEPT ![k] = @ \o <<Msg("Event", item), Msg(status, 0)>>],
             task' = [task EXCEPT ![k] = IF status = "Restart" THEN "respawn" ELSE "read"],
             eval' = [eval EXCEPT ![k] = IF status = "Restart" THEN "boot" ELSE "ready"],
             UNCHANGED <<far, permits>>
      PROVE  RemoteInv'
  <2>1. PICK i \in 0..MaxItems : /\ up[k] = <<Msg("Work", i)>>
                                 /\ client[owner[k]] = "event" => i = asked[owner[k]]
    BY <1>f, <1>1, InFlight
  <2>2. /\ stream[owner[k]] = k /\ down[k] = <<>>
        /\ client[owner[k]] \in {"event", "connect", "hello"}
    BY <1>f, <1>1, InFlight
  <2>3. item = i
    BY <2>1 DEF Msg
  <2>4. PICK s \in {"Ready", "Restart"} : s = status
    OBVIOUS
  <2>5. Msg("Event", i) \in Message /\ Msg(s, 0) \in Message
    BY Messages
  <2> DEFINE told == <<Msg("Event", i), Msg(s, 0)>>
  <2>6. told \in Seq(Message) /\ Len(told) = 2 /\ <<>> \o told = told
    BY <2>5
  <2>k. /\ task'[k] \in {"read", "respawn"} /\ \A j \in Conns \ {k} : task'[j] = task[j]
        /\ task'[k] = "read" => eval'[k] = "ready"
        /\ task'[k] = "respawn" => eval'[k] = "boot"
        /\ \A j \in Conns \ {k} : eval'[j] = eval[j]
    BY <1>t, <1>1 DEF Typed
  <2>d. /\ down' \in [Conns -> Seq(Message)] /\ down'[k] = told
        /\ \A j \in Conns \ {k} : down'[j] = down[j]
    <3> HIDE DEF item, status
    <3>1. down' = [down EXCEPT ![k] = @ \o told]
      BY <1>1, <2>3, <2>4
    <3> HIDE DEF told
    <3> QED
      BY <1>t, <1>m, <2>2, <2>6, <3>1
  <2>7. Typed'
    <3>1. task' \in [Conns -> {"none", "setup", "boot", "read", "work", "respawn", "failed", "closed"}]
      BY <1>t, <1>1 DEF Typed
    <3>2. eval' \in [Conns -> {"none", "boot", "ready", "busy", "answered", "restart", "gone"}]
      BY <1>t, <1>1 DEF Typed
    <3> HIDE DEF item, status, told
    <3> QED
      BY <1>t, <1>f, <1>1, <1>u, <2>d, <3>1, <3>2 DEF Typed, clientVars
  <2>8. PermitsBounded'
    BY <1>1 DEF RemoteInv, PermitsBounded
  <2> HIDE DEF item, status
  <2>9. ServerFrame(k)
    BY <1>f, <1>1, <1>u, <2>d, <2>k DEF ServerFrame
  <2>10. TaskInv(k)'
    BY <1>t, <1>f, <1>1, <2>k DEF TaskInv, Serving
  <2>11. Requested(k, i)'
    BY <1>u, <2>d, <2>k DEF Requested
  <2>12. Heard(k, owner[k])'
    BY <1>f, <2>1, <2>2, <2>11 DEF Heard, clientVars
  <2>13. WireInv(k)'
    BY <1>u, <2>6, <2>d, <2>12 DEF WireInv
  <2> QED
    BY <2>7, <2>8, <2>9, <2>10, <2>13, ServerKeeps
<1>2. ASSUME ~near[k], Close(k), UNCHANGED down
      PROVE  RemoteInv'
  <2>1. WireInv(k)'
    BY <1>t, <1>f, <1>u, <1>2 DEF WireInv
  <2> QED
    BY <1>f, <1>m, <1>u, <1>2, <2>1, CloseKeeps
<1> QED
  BY <1>1, <1>2 DEF Respond

LEMMA RespondErrorKeeps ==
  ASSUME RemoteInv, NEW k \in Opened, RespondError(k)
  PROVE  RemoteInv'
<1>t. k \in Conns /\ Typed /\ TaskInv(k) /\ WireInv(k)
  BY OpenedAreConns DEF RemoteInv
<1>m. /\ down \in [Conns -> Seq(Message)] /\ near \in [Conns -> BOOLEAN]
      /\ Msg("Error", 0) \in Message
  BY <1>t, Messages DEF Typed
<1>f. /\ UNCHANGED <<clientVars, owner, up, near, far, eval, permits, items, now>>
      /\ Opened' = Opened /\ task[k] = "work" /\ eval[k] = "gone"
      /\ task' = [task EXCEPT ![k] = "failed"] /\ ToClient(k, Msg("Error", 0))
  BY DEF RespondError, Opened
<1>k. task'[k] = "failed" /\ \A j \in Conns \ {k} : task'[j] = task[j]
  BY <1>t, <1>f DEF Typed
<1>d. /\ down' \in [Conns -> Seq(Message)] /\ \A j \in Conns \ {k} : down'[j] = down[j]
      /\ near[k] => down'[k] = Append(down[k], Msg("Error", 0))
      /\ ~near[k] => down'[k] = down[k]
  <2>1. CASE near[k]
    <3>1. down' = [down EXCEPT ![k] = Append(@, Msg("Error", 0))]
      BY <1>f, <2>1 DEF ToClient, Send
    <3>2. Append(down[k], Msg("Error", 0)) \in Seq(Message)
      BY <1>t, <1>m
    <3> QED
      BY <1>t, <1>m, <2>1, <3>1, <3>2
  <2>2. CASE ~near[k]
    BY <1>m, <1>f, <2>2 DEF ToClient
  <2> QED
    BY <2>1, <2>2
<1>1. Typed'
  BY <1>t, <1>f, <1>d DEF Typed, clientVars
<1>2. PermitsBounded'
  BY <1>f DEF RemoteInv, PermitsBounded
<1>3. ServerFrame(k)
  BY <1>f, <1>d, <1>k DEF ServerFrame
<1>4. TaskInv(k)'
  BY <1>t, <1>f, <1>k DEF TaskInv, Serving
<1>5. ASSUME near[k] PROVE Heard(k, owner[k])' /\ Len(down'[k]) = 1
  <2>1. PICK i \in 0..MaxItems : /\ up[k] = <<Msg("Work", i)>>
                                 /\ client[owner[k]] = "event" => i = asked[owner[k]]
    BY <1>f, <1>5, InFlight
  <2>2. /\ stream[owner[k]] = k /\ down[k] = <<>>
        /\ client[owner[k]] \in {"event", "connect", "hello"}
    BY <1>f, <1>5, InFlight
  <2>a. Append(<<>>, Msg("Error", 0)) = <<Msg("Error", 0)>> /\ Len(<<Msg("Error", 0)>>) = 1
    OBVIOUS
  <2>3. down'[k] = <<Msg("Error", 0)>> /\ Len(down'[k]) = 1
    BY <1>d, <1>5, <2>2, <2>a
  <2>4. Requested(k, i)'
    BY <1>f, <1>k, <2>1, <2>3 DEF Requested
  <2> QED
    BY <1>f, <2>1, <2>2, <2>3, <2>4 DEF Heard, clientVars
<1>6. WireInv(k)'
  BY <1>t, <1>f, <1>d, <1>5 DEF WireInv
<1> QED
  BY <1>1, <1>2, <1>3, <1>4, <1>6, ServerKeeps

LEMMA EvaluatorKeeps ==
  ASSUME RemoteInv, NEW k \in Opened,
         EvaluatorBoots(k) \/ EvaluatorAnswers(k) \/ EvaluatorDies(k)
  PROVE  RemoteInv'
<1>t. k \in Conns /\ Typed /\ TaskInv(k) /\ WireInv(k)
  BY OpenedAreConns DEF RemoteInv
<1>f. /\ UNCHANGED <<clientVars, owner, wire, near, far, task, permits, items, now>>
      /\ Opened' = Opened
  BY DEF EvaluatorBoots, EvaluatorAnswers, EvaluatorDies, Opened
<1>e. PICK e \in {"ready", "answered", "restart", "gone"} :
         /\ eval' = [eval EXCEPT ![k] = e]
         /\ e = "ready" => eval[k] = "boot"
         /\ e \in {"answered", "restart"} => eval[k] = "busy"
         /\ e = "gone" => eval[k] \in {"boot", "ready", "busy"}
  BY DEF EvaluatorBoots, EvaluatorAnswers, EvaluatorDies
<1>k. eval'[k] = e /\ \A j \in Conns \ {k} : eval'[j] = eval[j]
  BY <1>t, <1>e DEF Typed
<1>1. Typed'
  BY <1>t, <1>f, <1>e DEF Typed, clientVars, wire
<1>2. PermitsBounded'
  BY <1>f DEF RemoteInv, PermitsBounded
<1>3. ServerFrame(k)
  BY <1>f, <1>k DEF ServerFrame, wire
<1>4. TaskInv(k)'
  <2>1. task[k] \in {"none", "setup", "boot", "read", "work", "respawn", "failed", "closed"}
    BY <1>t DEF Typed
  <2> QED
    BY <1>t, <1>f, <1>e, <1>k, <2>1 DEF TaskInv, Serving, wire
<1>5. WireInv(k)'
  BY <1>t, <1>f DEF WireInv, Heard, Greeting, Quiet, Requested, Answered, clientVars, wire
<1> QED
  BY <1>1, <1>2, <1>3, <1>4, <1>5, ServerKeeps

-----------------------------------------------------------------------------
(* The steps of a client. *)

(* A client that leaves closes every connection it listens on. *)
LEMMA LeaveKeeps ==
  ASSUME RemoteInv, NEW c \in Clients,
         NEW why \in {"stopped", "rejected", "refused", "late"}, Leave(c, why),
         UNCHANGED <<stream, fresh, since, asked, answer, owner, down, far, task, eval, permits,
                     items, now>>,
         up' \in [Conns -> Seq(Message)],
         \A j \in Conns : j \notin Opened \/ owner[j] # c => up'[j] = up[j],
         \A j \in Opened : owner[j] = c => /\ Len(up'[j]) <= 1
                                           /\ task[j] = "work" => up'[j] # <<>>
  PROVE  RemoteInv'
<1>t. Typed /\ ClientInv(c) /\ Opened' = Opened /\ Opened \subseteq Conns
  BY OpenedAreConns DEF RemoteInv, Opened
<1>l. /\ client' = [client EXCEPT ![c] = why]
      /\ near' = [k \in Conns |-> near[k] /\ k \notin {stream[c], fresh[c]}]
  BY DEF Leave
<1>c. client'[c] = why /\ \A d \in Clients \ {c} : client'[d] = client[d]
  BY <1>t, <1>l DEF Typed
<1>1. Typed'
  <2>1. client' \in [Clients -> {"connect", "hello", "idle", "event", "status", "stopped",
                                 "rejected", "refused", "late"}]
    BY <1>t, <1>l DEF Typed
  <2>2. near' \in [Conns -> BOOLEAN]
    BY <1>t, <1>l DEF Typed
  <2> QED
    BY <1>t, <2>1, <2>2 DEF Typed
<1>2. PermitsBounded'
  BY DEF RemoteInv, PermitsBounded
<1>3. ClientFrame(c)
  <2>1. ASSUME NEW j \in Conns, j \notin Opened \/ owner[j] # c PROVE near'[j] = near[j]
    <3>1. near[j] => j \notin {stream[c], fresh[c]}
      <4>1. j \notin Opened => ~near[j]
        BY DEF RemoteInv, TaskInv
      <4>2. j \in {stream[c], fresh[c]} => j \in Opened /\ owner[j] = c
        BY <1>t DEF ClientInv, Conns
      <4> QED
        BY <2>1, <4>1, <4>2
    <3>2. near[j] \in BOOLEAN
      BY <1>t DEF Typed
    <3> QED
      BY <1>l, <3>1, <3>2
  <2> QED
    BY <1>t, <1>c, <2>1 DEF ClientFrame
<1>4. ClientInv(c)'
  BY <1>t, <1>c DEF ClientInv
<1>5. ASSUME NEW k \in Opened, owner[k] = c PROVE TaskInv(k)' /\ WireInv(k)'
  <2>1. k \in Conns /\ TaskInv(k) /\ WireInv(k)
    BY <1>t DEF RemoteInv
  <2>2. near'[k] = FALSE
    <3>1. near[k] => k \in {stream[c], fresh[c]}
      BY <1>5, <2>1 DEF WireInv, Heard
    <3> QED
      BY <1>l, <2>1, <3>1
  <2>3. TaskInv(k)'
    BY <1>5, <1>t, <2>1 DEF TaskInv
  <2>4. WireInv(k)'
    BY <1>5, <2>1, <2>2 DEF WireInv
  <2> QED
    BY <2>3, <2>4
<1>6. \A k \in Opened' : owner'[k] = c => TaskInv(k)' /\ WireInv(k)'
  BY <1>t, <1>5
<1> QED
  BY <1>1, <1>2, <1>3, <1>4, <1>6, ClientKeeps

LEMMA GivesUpKeeps ==
  ASSUME RemoteInv, NEW c \in Clients,
         ConnectFails(c) \/ ConnectTimeout(c) \/ Vanish(c) \/ Stop(c)
  PROVE  RemoteInv'
<1>t. Typed /\ ClientInv(c) /\ Opened \subseteq Conns /\ up \in [Conns -> Seq(Message)]
  BY OpenedAreConns DEF RemoteInv, Typed
<1>w. \A j \in Opened : Len(up[j]) <= 1 /\ (task[j] = "work" => up[j] # <<>>)
  BY <1>t DEF RemoteInv, WireInv, TaskInv
<1>f. UNCHANGED <<stream, fresh, since, asked, answer, owner, down, far, task, eval, permits,
                  items, now>>
  BY DEF ConnectFails, ConnectTimeout, Vanish, Stop, wire
<1>1. CASE ConnectFails(c) \/ ConnectTimeout(c) \/ Vanish(c)
  <2>1. up' = up
    BY <1>1 DEF ConnectFails, ConnectTimeout, Vanish, wire
  <2>2. PICK why \in {"stopped", "rejected", "refused", "late"} : Leave(c, why)
    BY <1>1 DEF ConnectFails, ConnectTimeout, Vanish
  <2> QED
    BY <1>t, <1>w, <1>f, <2>1, <2>2, LeaveKeeps
<1>2. CASE Stop(c)
  <2>1. /\ Leave(c, "stopped") /\ client[c] = "idle"
        /\ up' = [up EXCEPT ![stream[c]] = Append(@, Msg("Shutdown", 0))]
    BY <1>2 DEF Stop, Send
  <2>2. /\ stream[c] \in Opened /\ owner[stream[c]] = c /\ near[stream[c]]
    BY <1>t, <2>1 DEF ClientInv
  <2>3. Heard(stream[c], c)
    BY <1>t, <2>2 DEF RemoteInv, WireInv
  <2>4. up[stream[c]] = <<>>
    BY <2>1, <2>3 DEF Heard, Quiet
  <2>5. /\ Append(<<>>, Msg("Shutdown", 0)) \in Seq(Message)
        /\ Len(Append(<<>>, Msg("Shutdown", 0))) = 1
    BY Messages
  <2>6. /\ up' \in [Conns -> Seq(Message)]
        /\ up'[stream[c]] = Append(<<>>, Msg("Shutdown", 0))
        /\ \A j \in Conns \ {stream[c]} : up'[j] = up[j]
    BY <1>t, <2>1, <2>2, <2>4, <2>5
  <2>7. ASSUME NEW j \in Opened PROVE Len(up'[j]) <= 1 /\ (task[j] = "work" => up'[j] # <<>>)
    <3>1. CASE j = stream[c]
      <4>1. Len(up'[j]) = 1
        BY <2>5, <2>6, <3>1
      <4>2. up'[j] # <<>>
        BY <4>1
      <4> QED
        BY <4>1, <4>2
    <3>2. CASE j # stream[c]
      BY <1>t, <1>w, <2>6, <3>2
    <3> QED
      BY <3>1, <3>2
  <2>8. \A j \in Conns : j \notin Opened \/ owner[j] # c => up'[j] = up[j]
    BY <2>2, <2>6
  <2> QED
    BY <1>f, <2>1, <2>6, <2>7, <2>8, LeaveKeeps
<1> QED
  BY <1>1, <1>2

(* A connection starts with a permit or is refused, and with the set-up. *)
LEMMA ConnectKeeps ==
  ASSUME RemoteInv, NEW c \in Clients, Connect(c)
  PROVE  RemoteInv'
<1>p. PICK k \in Conns : k = Len(owner) + 1
  BY DEF Connect
<1>t. Typed /\ ClientInv(c) /\ Opened \subseteq Conns /\ Len(owner) \in Nat
  BY OpenedAreConns DEF RemoteInv
<1>f. /\ client[c] = "connect" /\ k \in Conns /\ owner' = Append(owner, c)
      /\ near' = [near EXCEPT ![k] = TRUE]
      /\ up' = [up EXCEPT ![k] = Append(@, Msg("Setup", 0))]
      /\ fresh' = [fresh EXCEPT ![c] = k] /\ since' = [since EXCEPT ![c] = now]
      /\ client' = [client EXCEPT ![c] = "hello"]
      /\ UNCHANGED <<stream, asked, answer, down, eval, items, now>>
      /\ accept(k)
  BY <1>p DEF Connect, Send
<1>o. /\ Opened' = Opened \union {k} /\ k \notin Opened
      /\ owner' \in Seq(Clients) /\ Len(owner') = k /\ k <= MaxConns
      /\ owner'[k] = c /\ \A j \in Opened : owner'[j] = owner[j]
  <2>1. owner \in Seq(Clients) /\ Len(owner) <= MaxConns /\ MaxConns \in Nat
    BY <1>t, Messages DEF Typed
  <2>2. /\ Append(owner, c) \in Seq(Clients) /\ Len(Append(owner, c)) = Len(owner) + 1
        /\ Append(owner, c)[Len(owner) + 1] = c
        /\ \A j \in 1..Len(owner) : Append(owner, c)[j] = owner[j]
    BY <2>1
  <2>3. 1..(Len(owner) + 1) = (1..Len(owner)) \union {Len(owner) + 1}
    BY <1>t
  <2>4. Len(owner) + 1 \notin 1..Len(owner) /\ k <= MaxConns
    BY <1>t, <2>1 DEF Conns
  <2> QED
    BY <1>p, <1>f, <2>2, <2>3, <2>4 DEF Opened
<1>n. k \in Conns /\ k # 0
  BY <1>t, <1>p
<1>a. /\ task' \in [Conns -> {"none", "setup", "boot", "read", "work", "respawn", "failed", "closed"}]
      /\ far' \in [Conns -> BOOLEAN] /\ permits' \subseteq Conns
      /\ \A j \in Conns \ {k} : /\ task'[j] = task[j] /\ far'[j] = far[j]
                                /\ j \in permits' <=> j \in permits
      /\ Cardinality(permits') <= MAX_REMOTE_CONNECTIONS
      /\ \/ task'[k] = "setup" /\ far'[k] = TRUE /\ k \in permits'
         \/ task'[k] = task[k] /\ far'[k] = far[k] /\ (k \in permits' <=> k \in permits)
  <2>p. /\ task \in [Conns -> {"none", "setup", "boot", "read", "work", "respawn", "failed", "closed"}]
        /\ far \in [Conns -> BOOLEAN] /\ permits \subseteq Conns
        /\ Cardinality(permits) <= MAX_REMOTE_CONNECTIONS
    BY <1>t DEF Typed, RemoteInv, PermitsBounded
  <2>1. CASE Cardinality(permits) < MAX_REMOTE_CONNECTIONS
    <3>1. /\ permits' = permits \union {k} /\ task' = [task EXCEPT ![k] = "setup"]
          /\ far' = [far EXCEPT ![k] = TRUE]
      BY <1>f, <2>1 DEF accept
    <3>2. Cardinality(permits') <= MAX_REMOTE_CONNECTIONS
      <4>1. /\ Cardinality(permits) \in Nat /\ Cardinality(permits \union {k}) \in Nat
            /\ Cardinality(permits \union {k}) <= Cardinality(permits) + 1
        BY <1>t, PermitsCounted, FS_AddElement, FS_CardinalityType
      <4>2. MAX_REMOTE_CONNECTIONS \in Nat
        BY RemoteWorkerAssumption
      <4>3. Cardinality(permits') = Cardinality(permits \union {k})
        BY <3>1
      <4> HIDE <3>1
      <4> QED
        BY <2>1, <4>1, <4>2, <4>3
    <3> QED
      BY <1>n, <2>p, <3>1, <3>2
  <2>2. CASE ~(Cardinality(permits) < MAX_REMOTE_CONNECTIONS)
    BY <1>f, <2>p, <2>2 DEF accept
  <2> QED
    BY <2>1, <2>2
<1>k. TaskInv(k) /\ WireInv(k) /\ task[k] = "none" /\ ~near[k] /\ up[k] = <<>> /\ down[k] = <<>>
  BY <1>o, <1>n DEF RemoteInv, TaskInv
<1>u. /\ up' \in [Conns -> Seq(Message)] /\ up'[k] = <<Msg("Setup", 0)>>
      /\ Len(up'[k]) = 1
      /\ \A j \in Conns \ {k} : up'[j] = up[j]
  <2>1. /\ Append(<<>>, Msg("Setup", 0)) = <<Msg("Setup", 0)>>
        /\ <<Msg("Setup", 0)>> \in Seq(Message) /\ Len(<<Msg("Setup", 0)>>) = 1
    BY Messages
  <2>2. up \in [Conns -> Seq(Message)]
    BY <1>t DEF Typed
  <2> QED
    BY <1>f, <1>n, <1>k, <2>1, <2>2
<1>c. /\ client'[c] = "hello" /\ fresh'[c] = k
      /\ \A d \in Clients \ {c} : client'[d] = client[d] /\ fresh'[d] = fresh[d]
      /\ near'[k] = TRUE /\ \A j \in Conns \ {k} : near'[j] = near[j]
  BY <1>t, <1>f, <1>n DEF Typed
<1>1. Typed'
  <2>1. /\ client' \in [Clients -> {"connect", "hello", "idle", "event", "status", "stopped",
                                    "rejected", "refused", "late"}]
        /\ since' \in [Clients -> 0..MaxTime] /\ near' \in [Conns -> BOOLEAN]
    BY <1>t, <1>f DEF Typed
  <2>2. fresh' \in [Clients -> 0..MaxConns]
    BY <1>t, <1>f, <1>n DEF Typed, Conns
  <2> QED
    BY <1>t, <1>f, <1>o, <1>a, <1>u, <2>1, <2>2 DEF Typed
<1>2. PermitsBounded'
  BY <1>a DEF PermitsBounded
<1>3. ClientFrame(c)
  BY <1>f, <1>o, <1>a, <1>u, <1>c, ZenonT(60) DEF ClientFrame
<1>4. ClientInv(c)'
  <2>1. stream'[c] = stream[c] /\ (stream[c] # 0 => stream[c] \in Opened /\ owner[stream[c]] = c)
    BY <1>t, <1>f DEF ClientInv
  <2> QED
    BY <1>o, <1>n, <1>c, <2>1 DEF ClientInv
<1>5. ASSUME NEW j \in Opened, owner[j] = c PROVE TaskInv(j)' /\ WireInv(j)'
  <2>1. j \in Conns \ {k} /\ TaskInv(j) /\ WireInv(j)
    BY <1>t, <1>o, <1>5 DEF RemoteInv
  <2>2. /\ up'[j] = up[j] /\ down'[j] = down[j] /\ far'[j] = far[j] /\ near'[j] = near[j]
        /\ task'[j] = task[j] /\ eval'[j] = eval[j] /\ (j \in permits' <=> j \in permits)
        /\ owner'[j] = owner[j] /\ j \in Opened'
    BY <1>f, <1>o, <1>a, <1>u, <1>c, <2>1, <1>5, ZenonT(60)
  <2>3. TaskInv(j)'
    BY <2>1, <2>2 DEF TaskInv
  <2>4. ASSUME near[j] PROVE Heard(j, c)'
    <3>1. Heard(j, c)
      BY <1>5, <2>1, <2>4 DEF WireInv
    <3>2. /\ stream[c] = j
          /\ (\E i \in 0..MaxItems : Requested(j, i)) \/ Answered(j)
      BY <1>f, <3>1 DEF Heard
    <3>3. /\ \A i : Requested(j, i) => Requested(j, i)'
          /\ Answered(j) => Answered(j)'
      BY <2>2 DEF Requested, Answered
    <3> QED
      BY <1>f, <1>c, <3>2, <3>3 DEF Heard
  <2>5. WireInv(j)'
    BY <1>5, <2>1, <2>2, <2>4 DEF WireInv
  <2> QED
    BY <2>3, <2>5
<1>6. TaskInv(k)'
  <2>1. eval'[k] = "none" /\ near'[k] /\ k \in Opened' /\ task'[k] \in {"none", "setup"}
    BY <1>f, <1>o, <1>a, <1>c, <1>k DEF TaskInv
  <2> QED
    BY <1>a, <1>k, <2>1 DEF TaskInv, Serving
<1>7. WireInv(k)'
  <2>1. Greeting(k)'
    BY <1>f, <1>a, <1>k, <1>u DEF Greeting
  <2>2. Heard(k, c)'
    BY <1>c, <2>1 DEF Heard
  <2> QED
    BY <1>f, <1>k, <1>o, <1>u, <2>2 DEF WireInv
<1>8. \A j \in Opened' : owner'[j] = c => TaskInv(j)' /\ WireInv(j)'
  BY <1>o, <1>5, <1>6, <1>7
<1> QED
  BY <1>1, <1>2, <1>3, <1>4, <1>8, ClientKeeps

(* A client that talks on one connection and listens on no other. *)
LEMMA TalkKeeps ==
  ASSUME RemoteInv, NEW c \in Clients, NEW k \in Opened, owner[k] = c,
         UNCHANGED <<owner, far, task, eval, permits>>, Typed',
         \A d \in Clients \ {c} : /\ client'[d] = client[d] /\ stream'[d] = stream[d]
                                  /\ fresh'[d] = fresh[d] /\ asked'[d] = asked[d]
                                  /\ answer'[d] = answer[d],
         \A j \in Conns \ {k} : up'[j] = up[j] /\ down'[j] = down[j],
         \A j \in Conns : j \notin Opened \/ owner[j] # c => near'[j] = near[j],
         \A j \in Opened : owner[j] = c /\ j # k => ~near'[j],
         task[k] = "work" => up'[k] # <<>>,
         WireInv(k)', ClientInv(c)'
  PROVE  RemoteInv'
<1>t. Opened' = Opened /\ Opened \subseteq Conns
  BY OpenedAreConns DEF RemoteInv, Opened
<1>1. PermitsBounded'
  BY DEF RemoteInv, PermitsBounded
<1>2. ClientFrame(c)
  BY <1>t DEF ClientFrame
<1>3. ASSUME NEW j \in Opened, owner[j] = c PROVE TaskInv(j)' /\ WireInv(j)'
  <2>1. j \in Conns /\ TaskInv(j) /\ WireInv(j)
    BY <1>t DEF RemoteInv
  <2>2. TaskInv(j)'
    BY <1>t, <2>1 DEF TaskInv
  <2>3. ASSUME j # k PROVE WireInv(j)'
    BY <1>3, <2>1, <2>3 DEF WireInv
  <2> QED
    BY <2>2, <2>3
<1>4. \A j \in Opened' : owner'[j] = c => TaskInv(j)' /\ WireInv(j)'
  BY <1>t, <1>3
<1> QED
  BY <1>1, <1>2, <1>4, ClientKeeps

LEMMA ReadyKeeps ==
  ASSUME RemoteInv, NEW c \in Clients, Ready(c)
  PROVE  RemoteInv'
<1>t. Typed /\ ClientInv(c) /\ Opened \subseteq Conns /\ Opened' = Opened
  BY OpenedAreConns DEF RemoteInv, Ready, Opened
<1>p. PICK k \in Opened : k = fresh[c] /\ owner[k] = c /\ near[k] /\ k # stream[c]
  BY <1>t DEF Ready, ClientInv
<1>f. /\ client[c] = "hello" /\ down[k] # <<>> /\ Head(down[k]).type = "Ready"
      /\ down' = [down EXCEPT ![k] = Tail(@)]
      /\ stream' = [stream EXCEPT ![c] = k] /\ fresh' = [fresh EXCEPT ![c] = 0]
      /\ near' = [j \in Conns |-> near[j] /\ j # stream[c]]
      /\ client' = [client EXCEPT ![c] = "idle"]
      /\ UNCHANGED <<since, asked, answer, owner, up, far, task, eval, permits, items, now>>
  BY <1>p DEF Ready, Drop
<1>k. k \in Conns /\ TaskInv(k) /\ WireInv(k)
  BY <1>t DEF RemoteInv
<1>h. task[k] = "read" /\ up[k] = <<>> /\ down[k] = <<Msg("Ready", 0)>>
  <2>1. Heard(k, c)
    BY <1>k, <1>p DEF WireInv
  <2>2. Greeting(k)
    BY <1>p, <1>f, <2>1 DEF Heard
  <2>3. down[k] # <<Msg("Error", 0)>>
    BY <1>f DEF Msg
  <2> QED
    BY <1>f, <2>2, <2>3 DEF Greeting
<1>d. down' \in [Conns -> Seq(Message)] /\ down'[k] = <<>> /\ \A j \in Conns \ {k} : down'[j] = down[j]
  <2>1. Tail(<<Msg("Ready", 0)>>) = <<>> /\ <<>> \in Seq(Message)
    OBVIOUS
  <2>2. down \in [Conns -> Seq(Message)]
    BY <1>t DEF Typed
  <2> QED
    BY <1>f, <1>h, <1>k, <2>1, <2>2
<1>c. /\ client'[c] = "idle" /\ stream'[c] = k /\ fresh'[c] = 0
      /\ \A e \in Clients \ {c} : /\ client'[e] = client[e] /\ stream'[e] = stream[e]
                                  /\ fresh'[e] = fresh[e]
  BY <1>t, <1>f DEF Typed
<1>n. /\ near' \in [Conns -> BOOLEAN] /\ near'[k]
      /\ \A j \in Conns : j # stream[c] => near'[j] = near[j]
      /\ \A j \in Conns : j = stream[c] => ~near'[j]
  <2>1. near \in [Conns -> BOOLEAN]
    BY <1>t DEF Typed
  <2> QED
    BY <1>f, <1>k, <1>p, <2>1
<1>1. Typed'
  <2>1. /\ client' \in [Clients -> {"connect", "hello", "idle", "event", "status", "stopped",
                                    "rejected", "refused", "late"}]
    BY <1>t, <1>f DEF Typed
  <2>2. stream' \in [Clients -> 0..MaxConns] /\ fresh' \in [Clients -> 0..MaxConns]
    <3>1. k \in 0..MaxConns /\ 0 \in 0..MaxConns
      BY <1>k, Messages DEF Conns
    <3>2. stream \in [Clients -> 0..MaxConns] /\ fresh \in [Clients -> 0..MaxConns]
      BY <1>t DEF Typed
    <3> QED
      BY <1>f, <3>1, <3>2
  <2> QED
    BY <1>t, <1>f, <1>d, <1>n, <2>1, <2>2 DEF Typed
<1>2. ASSUME NEW j \in Opened, owner[j] = c, j # k PROVE ~near'[j]
  <2>1. near[j] => Heard(j, c)
    BY <1>t, <1>2 DEF RemoteInv, WireInv
  <2>2. near[j] => j = stream[c]
    BY <1>2, <1>p, <2>1 DEF Heard
  <2> QED
    BY <1>n, <1>t, <2>2
<1>3. \A j \in Conns : j \notin Opened \/ owner[j] # c => near'[j] = near[j]
  BY <1>n, <1>t DEF ClientInv, Conns
<1>4. ClientInv(c)'
  BY <1>t, <1>p, <1>f, <1>c, <1>n, <1>k DEF ClientInv, Conns
<1>5. WireInv(k)'
  <2>1. Quiet(k)'
    BY <1>f, <1>h, <1>d DEF Quiet
  <2>2. Heard(k, c)'
    BY <1>c, <2>1 DEF Heard
  <2> QED
    BY <1>f, <1>h, <1>d, <1>p, <2>2 DEF WireInv
<1> QED
  BY <1>p, <1>f, <1>h, <1>c, <1>d, <1>1, <1>2, <1>3, <1>4, <1>5, TalkKeeps, ZenonT(60)

(* A client that has asked listens on its connection alone. *)
LEMMA AsksOnOne ==
  ASSUME RemoteInv, NEW c \in Clients, client[c] \in {"idle", "event", "status"}
  PROVE  /\ stream[c] \in Opened /\ stream[c] \in Conns /\ stream[c] # 0
         /\ owner[stream[c]] = c /\ near[stream[c]] /\ Heard(stream[c], c)
         /\ \A j \in Opened : owner[j] = c /\ j # stream[c] => ~near[j]
         /\ fresh[c] = 0
<1>t. ClientInv(c) /\ Opened \subseteq Conns
  BY OpenedAreConns DEF RemoteInv
<1>1. /\ stream[c] \in Opened /\ stream[c] # 0 /\ owner[stream[c]] = c /\ near[stream[c]]
      /\ fresh[c] = 0
  BY <1>t DEF ClientInv
<1>2. ASSUME NEW j \in Opened, owner[j] = c, near[j] PROVE Heard(j, c) /\ j = stream[c]
  <2>1. Heard(j, c)
    BY <1>t, <1>2 DEF RemoteInv, WireInv
  <2> QED
    BY <2>1 DEF Heard
<1> QED
  BY <1>t, <1>1, <1>2

LEMMA WorkKeeps ==
  ASSUME RemoteInv, NEW c \in Clients, Work(c)
  PROVE  RemoteInv'
<1>t. Typed /\ ClientInv(c) /\ Opened \subseteq Conns /\ Opened' = Opened
  BY OpenedAreConns DEF RemoteInv, Work, Opened
<1>p. PICK k \in Opened : k = stream[c] /\ k \in Conns /\ k # 0 /\ owner[k] = c /\ near[k] /\ Heard(k, c)
  BY AsksOnOne DEF Work
<1>a. (\A j \in Opened : owner[j] = c /\ j # k => ~near[j]) /\ fresh[c] = 0
  BY <1>p, AsksOnOne DEF Work
<1>q. PICK i \in 0..MaxItems : i = items + 1
  <2>1. items \in 0..MaxItems /\ items < MaxItems /\ MaxItems \in Nat
    BY <1>t, Messages DEF Typed, Work
  <2> QED
    BY <2>1
<1>f. /\ client[c] = "idle" /\ items' = i
      /\ asked' = [asked EXCEPT ![c] = i]
      /\ up' = [up EXCEPT ![k] = Append(@, Msg("Work", i))]
      /\ since' = [since EXCEPT ![c] = now]
      /\ client' = [client EXCEPT ![c] = "event"]
      /\ UNCHANGED <<stream, fresh, answer, owner, down, near, far, task, eval, permits, now>>
  BY <1>p, <1>q DEF Work, Send
<1>h. task[k] \in {"read", "respawn", "closed"} /\ up[k] = <<>> /\ down[k] = <<>>
  BY <1>p, <1>f DEF Heard, Quiet
<1>u. /\ up' \in [Conns -> Seq(Message)] /\ up'[k] = <<Msg("Work", i)>> /\ Len(up'[k]) = 1
      /\ \A j \in Conns \ {k} : up'[j] = up[j]
  <2>1. /\ Append(<<>>, Msg("Work", i)) = <<Msg("Work", i)>>
        /\ <<Msg("Work", i)>> \in Seq(Message) /\ Len(<<Msg("Work", i)>>) = 1
    BY Messages
  <2>2. up \in [Conns -> Seq(Message)]
    BY <1>t DEF Typed
  <2> QED
    BY <1>f, <1>h, <1>p, <2>1, <2>2
<1>c. /\ client'[c] = "event" /\ asked'[c] = i
      /\ \A d \in Clients \ {c} : client'[d] = client[d] /\ asked'[d] = asked[d]
  BY <1>t, <1>f DEF Typed
<1>1. Typed'
  BY <1>t, <1>f, <1>u DEF Typed
<1>2. ClientInv(c)'
  BY <1>t, <1>p, <1>a, <1>f, <1>c DEF ClientInv
<1>3. WireInv(k)'
  <2>1. Requested(k, i)'
    BY <1>f, <1>h, <1>u DEF Requested
  <2>2. Heard(k, c)'
    BY <1>c, <1>f, <1>p, <2>1 DEF Heard
  <2> QED
    BY <1>f, <1>h, <1>u, <1>p, <2>2 DEF WireInv
<1> QED
  BY <1>p, <1>a, <1>f, <1>h, <1>c, <1>u, <1>1, <1>2, <1>3, TalkKeeps

LEMMA ReadEventKeeps ==
  ASSUME RemoteInv, NEW c \in Clients, ReadEvent(c)
  PROVE  RemoteInv'
<1>t. Typed /\ ClientInv(c) /\ Opened \subseteq Conns /\ Opened' = Opened
  BY OpenedAreConns DEF RemoteInv, ReadEvent, Opened
<1>p. PICK k \in Opened : k = stream[c] /\ k \in Conns /\ k # 0 /\ owner[k] = c /\ near[k] /\ Heard(k, c)
  BY AsksOnOne DEF ReadEvent
<1>a. (\A j \in Opened : owner[j] = c /\ j # k => ~near[j]) /\ fresh[c] = 0
  BY <1>p, AsksOnOne DEF ReadEvent
<1>f. /\ client[c] = "event" /\ down[k] # <<>> /\ Head(down[k]).type = "Event"
      /\ answer' = [answer EXCEPT ![c] = Head(down[k]).item]
      /\ down' = [down EXCEPT ![k] = Tail(@)]
      /\ client' = [client EXCEPT ![c] = "status"]
      /\ UNCHANGED <<stream, fresh, since, asked, owner, up, near, far, task, eval, permits, items, now>>
  BY <1>p DEF ReadEvent, Drop
<1>h. /\ task[k] \in {"read", "respawn", "closed"} /\ up[k] = <<>>
      /\ \E s \in {"Ready", "Restart"} : down[k] = <<Msg("Event", asked[c]), Msg(s, 0)>>
  <2>1. Requested(k, asked[c])
    BY <1>p, <1>f DEF Heard
  <2>2. down[k] # <<Msg("Error", 0)>>
    BY <1>f DEF Msg
  <2> QED
    BY <1>f, <2>1, <2>2 DEF Requested
<1>s. PICK s \in {"Ready", "Restart"} : down[k] = <<Msg("Event", asked[c]), Msg(s, 0)>>
  BY <1>h
<1>d. /\ down' \in [Conns -> Seq(Message)] /\ down'[k] = <<Msg(s, 0)>> /\ Len(down'[k]) = 1
      /\ \A j \in Conns \ {k} : down'[j] = down[j]
  <2>1. /\ Tail(<<Msg("Event", asked[c]), Msg(s, 0)>>) = <<Msg(s, 0)>>
        /\ <<Msg(s, 0)>> \in Seq(Message) /\ Len(<<Msg(s, 0)>>) = 1
    BY Messages
  <2>2. down \in [Conns -> Seq(Message)]
    BY <1>t DEF Typed
  <2> QED
    BY <1>f, <1>s, <1>p, <2>1, <2>2
<1>i. Head(down[k]).item = asked[c] /\ asked[c] \in 0..MaxItems
  BY <1>s, <1>t DEF Msg, Typed
<1>c. /\ client'[c] = "status" /\ answer'[c] = asked[c]
      /\ \A e \in Clients \ {c} : client'[e] = client[e] /\ answer'[e] = answer[e]
  BY <1>t, <1>f, <1>i DEF Typed
<1>1. Typed'
  <2>1. /\ client' \in [Clients -> {"connect", "hello", "idle", "event", "status", "stopped",
                                    "rejected", "refused", "late"}]
        /\ since' \in [Clients -> 0..MaxTime] /\ answer' \in [Clients -> 0..MaxItems]
    BY <1>t, <1>f, <1>i DEF Typed
  <2> QED
    BY <1>t, <1>f, <1>d, <2>1 DEF Typed
<1>2. ClientInv(c)'
  BY <1>t, <1>p, <1>a, <1>f, <1>c DEF ClientInv
<1>3. WireInv(k)'
  <2>1. Answered(k)'
    BY <1>f, <1>h, <1>d DEF Answered
  <2>2. Heard(k, c)'
    BY <1>c, <1>f, <1>p, <2>1 DEF Heard
  <2> QED
    BY <1>f, <1>h, <1>d, <1>p, <2>2 DEF WireInv
<1> QED
  BY <1>p, <1>a, <1>f, <1>h, <1>c, <1>d, <1>1, <1>2, <1>3, TalkKeeps

LEMMA ReadStatusKeeps ==
  ASSUME RemoteInv, NEW c \in Clients, ReadStatus(c)
  PROVE  RemoteInv'
<1>t. Typed /\ ClientInv(c) /\ Opened \subseteq Conns /\ Opened' = Opened
  BY OpenedAreConns DEF RemoteInv, ReadStatus, Opened
<1>p. PICK k \in Opened : k = stream[c] /\ k \in Conns /\ k # 0 /\ owner[k] = c /\ near[k] /\ Heard(k, c)
  BY AsksOnOne DEF ReadStatus
<1>a. (\A j \in Opened : owner[j] = c /\ j # k => ~near[j]) /\ fresh[c] = 0
  BY <1>p, AsksOnOne DEF ReadStatus
<1>f. /\ client[c] = "status" /\ down' = [down EXCEPT ![k] = Tail(@)]
      /\ client' = [client EXCEPT ![c] = "idle"]
      /\ UNCHANGED <<stream, fresh, since, asked, answer, owner, up, near, far, task, eval, permits,
                     items, now>>
  BY <1>p DEF ReadStatus, Drop
<1>h. /\ task[k] \in {"read", "respawn", "closed"} /\ up[k] = <<>>
      /\ \E s \in {"Ready", "Restart"} : down[k] = <<Msg(s, 0)>>
  BY <1>p, <1>f DEF Heard, Answered
<1>d. /\ down' \in [Conns -> Seq(Message)] /\ down'[k] = <<>>
      /\ \A j \in Conns \ {k} : down'[j] = down[j]
  <2>1. (\A m : Tail(<<m>>) = <<>>) /\ <<>> \in Seq(Message)
    OBVIOUS
  <2>2. down \in [Conns -> Seq(Message)] /\ Tail(down[k]) = <<>>
    BY <1>t, <1>h, <2>1 DEF Typed
  <2> QED
    BY <1>f, <1>p, <2>1, <2>2
<1>c. client'[c] = "idle" /\ \A e \in Clients \ {c} : client'[e] = client[e]
  BY <1>t, <1>f DEF Typed
<1>1. Typed'
  BY <1>t, <1>f, <1>d DEF Typed
<1>2. ClientInv(c)'
  BY <1>t, <1>p, <1>a, <1>f, <1>c DEF ClientInv
<1>3. WireInv(k)'
  <2>1. Quiet(k)'
    BY <1>f, <1>h, <1>d DEF Quiet
  <2>2. Heard(k, c)'
    BY <1>c, <1>f, <1>p, <2>1 DEF Heard
  <2> QED
    BY <1>f, <1>h, <1>d, <1>p, <2>2 DEF WireInv
<1> QED
  BY <1>p, <1>a, <1>f, <1>h, <1>c, <1>d, <1>1, <1>2, <1>3, TalkKeeps

(* The item fails: what was asked may still be answered, on a connection the
   client does not ask on any more. *)
LEMMA WorkFailsKeeps ==
  ASSUME RemoteInv, NEW c \in Clients, WorkFails(c) \/ Abort(c)
  PROVE  RemoteInv'
<1>t. Typed /\ ClientInv(c) /\ Opened \subseteq Conns /\ Opened' = Opened
  BY OpenedAreConns DEF RemoteInv, WorkFails, Abort, Opened
<1>p. PICK k \in Opened : k = stream[c] /\ k \in Conns /\ k # 0 /\ owner[k] = c /\ near[k] /\ Heard(k, c)
  BY AsksOnOne DEF WorkFails, Abort
<1>a. (\A j \in Opened : owner[j] = c /\ j # k => ~near[j]) /\ fresh[c] = 0
  BY <1>p, AsksOnOne DEF WorkFails, Abort
<1>f. /\ client[c] \in {"event", "status"}
      /\ near' = near \/ near' = [near EXCEPT ![k] = FALSE]
      /\ client' = [client EXCEPT ![c] = "connect"]
      /\ UNCHANGED <<stream, fresh, since, asked, answer, owner, up, down, far, task, eval, permits,
                     items, now>>
  BY <1>p DEF WorkFails, Abort, wire
<1>k. TaskInv(k) /\ WireInv(k)
  BY <1>p DEF RemoteInv
<1>h. Requested(k, asked[c]) \/ Answered(k)
  BY <1>p, <1>f DEF Heard
<1>n. near' \in [Conns -> BOOLEAN] /\ \A j \in Conns \ {k} : near'[j] = near[j]
  BY <1>t, <1>f, <1>p DEF Typed
<1>c. client'[c] = "connect" /\ \A e \in Clients \ {c} : client'[e] = client[e]
  BY <1>t, <1>f DEF Typed
<1>1. Typed'
  BY <1>t, <1>f, <1>n DEF Typed
<1>2. ClientInv(c)'
  BY <1>t, <1>p, <1>a, <1>f, <1>c DEF ClientInv
<1>3. WireInv(k)'
  <2>1. asked[c] \in 0..MaxItems
    BY <1>t DEF Typed
  <2>2. Requested(k, asked[c])' \/ Answered(k)'
    BY <1>f, <1>h DEF Requested, Answered
  <2>3. Heard(k, c)'
    BY <1>c, <1>f, <1>p, <2>1, <2>2 DEF Heard
  <2> QED
    BY <1>f, <1>k, <1>p, <2>3 DEF WireInv
<1>4. \A j \in Conns : j \notin Opened \/ owner[j] # c => near'[j] = near[j]
  BY <1>n, <1>p
<1>5. \A j \in Opened : owner[j] = c /\ j # k => ~near'[j]
  BY <1>a, <1>n, <1>t
<1>6. task[k] = "work" => up'[k] # <<>>
  BY <1>f, <1>k DEF TaskInv
<1> QED
  BY <1>p, <1>f, <1>c, <1>1, <1>2, <1>3, <1>4, <1>5, <1>6, TalkKeeps

-----------------------------------------------------------------------------
(* The theorems. *)

LEMMA InitHolds ==
  ASSUME Init PROVE RemoteInv
<1>1. Typed
  <2>1. <<>> \in Seq(Message) /\ <<>> \in Seq(Clients) /\ Len(<<>>) = 0
    OBVIOUS
  <2>2. 0 \in 0..MaxItems /\ 0 \in 0..MaxConns /\ 0 \in 0..MaxTime /\ 0 <= MaxConns
    BY Messages
  <2> QED
    BY <2>1, <2>2 DEF Init, Typed
<1>2. PermitsBounded
  <2>1. Cardinality(permits) = 0
    BY FS_EmptySet DEF Init
  <2> QED
    BY <2>1, RemoteWorkerAssumption DEF PermitsBounded
<1>3. Opened = {}
  BY DEF Init, Opened
<1>4. ASSUME NEW k \in Conns PROVE TaskInv(k) /\ WireInv(k)
  BY <1>3 DEF Init, TaskInv, WireInv, Serving
<1>5. ASSUME NEW c \in Clients PROVE ClientInv(c)
  BY DEF Init, ClientInv
<1> QED
  BY <1>1, <1>2, <1>4, <1>5 DEF RemoteInv

LEMMA FrozenKeeps ==
  ASSUME RemoteInv, Tick \/ UNCHANGED vars
  PROVE  RemoteInv'
<1>1. /\ UNCHANGED <<clientVars, owner, wire, near, far, task, eval, permits, items>>
      /\ Opened' = Opened
  BY DEF Tick, vars, Opened
<1>2. Typed'
  <2>1. now' \in 0..MaxTime
    <3>1. now \in 0..MaxTime /\ MaxTime \in Nat
      BY Messages DEF RemoteInv, Typed
    <3> QED
      BY <3>1 DEF Tick, vars
  <2> QED
    BY <1>1, <2>1 DEF RemoteInv, Typed, clientVars, wire
<1>3. PermitsBounded'
  BY <1>1 DEF RemoteInv, PermitsBounded
<1>4. ASSUME NEW k \in Conns PROVE TaskInv(k)' /\ WireInv(k)'
  <2>1. TaskInv(k) /\ WireInv(k)
    BY DEF RemoteInv
  <2>2. TaskInv(k)'
    BY <1>1, <2>1 DEF TaskInv, wire
  <2>3. WireInv(k)'
    BY <1>1, <2>1 DEF WireInv, Heard, Greeting, Quiet, Requested, Answered, clientVars, wire
  <2> QED
    BY <2>2, <2>3
<1>5. ASSUME NEW c \in Clients PROVE ClientInv(c)'
  BY <1>1 DEF RemoteInv, ClientInv, clientVars
<1> QED
  BY <1>2, <1>3, <1>4, <1>5 DEF RemoteInv

LEMMA InvariantHolds == Spec => []RemoteInv
<1>1. Init => RemoteInv
  BY InitHolds
<1>2. RemoteInv /\ [Next]_vars => RemoteInv'
  <2> SUFFICES ASSUME RemoteInv, [Next]_vars PROVE RemoteInv'
    OBVIOUS
  <2>1. ASSUME NEW c \in Clients, ClientStep(c) \/ Vanish(c) PROVE RemoteInv'
    BY <2>1, ConnectKeeps, ReadyKeeps, GivesUpKeeps, WorkKeeps, ReadEventKeeps,
       ReadStatusKeeps, WorkFailsKeeps DEF ClientStep
  <2>2. ASSUME NEW k \in Opened, ServerStep(k) PROVE RemoteInv'
    BY <2>2, SetupKeeps, SetupTimesOutKeeps, BootedKeeps, BootFailsKeeps, ReadKeeps, RespondKeeps,
       RespondErrorKeeps, FailKeeps, InterruptKeeps DEF ServerStep
  <2>3. ASSUME NEW k \in Opened,
               EvaluatorBoots(k) \/ EvaluatorAnswers(k) \/ EvaluatorDies(k)
        PROVE  RemoteInv'
    BY <2>3, EvaluatorKeeps
  <2>4. CASE Tick \/ UNCHANGED vars
    BY <2>4, FrozenKeeps
  <2> QED
    BY <2>1, <2>2, <2>3, <2>4 DEF Next
<1> QED
  BY <1>1, <1>2, PTL DEF Spec

(* The service (serve, serve_connection) runs at most as many evaluators as it
   has permits, whatever its clients do and however they time out, leave and
   reconnect, and none for a client whose set-up it did not accept; and a
   connection never carries more than one request or one answer. *)
THEOREM ServiceIsSound == Spec => []ServiceSound
<1>1. RemoteInv => ServiceSound
  <2> SUFFICES ASSUME RemoteInv PROVE ServiceSound
    OBVIOUS
  <2>1. TypeOK
    <3>1. \A k \in Conns : Len(up[k]) <= 2 /\ Len(down[k]) <= 2
      <4>1. ASSUME NEW k \in Conns PROVE Len(up[k]) <= 2 /\ Len(down[k]) <= 2
        <5>1. Len(up[k]) \in Nat /\ Len(up[k]) <= 1 /\ Len(down[k]) <= 2
          BY DEF RemoteInv, WireInv, Typed
        <5> QED
          BY <5>1
      <4> QED
        BY <4>1
    <3> QED
      BY <3>1 DEF RemoteInv, Typed, TypeOK
  <2>2. ASSUME NEW k \in Running
        PROVE  k \in permits /\ task[k] \in {"boot", "read", "work", "respawn"}
    <3>1. k \in Conns /\ eval[k] \in {"boot", "ready", "busy", "answered", "restart"}
      BY DEF Running
    <3>2. TaskInv(k)
      BY <3>1 DEF RemoteInv
    <3>3. task[k] \in {"none", "setup", "boot", "read", "work", "respawn", "failed", "closed"}
      BY <3>1 DEF RemoteInv, Typed
    <3> QED
      BY <3>1, <3>2, <3>3 DEF TaskInv, Serving
  <2>3. EvaluatorsBounded
    <3>1. Running \subseteq permits
      BY <2>2
    <3>2. IsFiniteSet(permits) /\ Cardinality(permits) \in Nat
      BY PermitsCounted DEF RemoteInv
    <3>3. Cardinality(Running) <= Cardinality(permits) /\ Cardinality(Running) \in Nat
      BY <3>1, <3>2, FS_Subset, FS_CardinalityType
    <3> QED
      BY <3>2, <3>3, RemoteWorkerAssumption DEF EvaluatorsBounded, RemoteInv, PermitsBounded
  <2>4. OnlyAccepted
    BY <2>2 DEF OnlyAccepted, RemoteInv, TaskInv, Running
  <2> QED
    BY <2>1, <2>3, <2>4 DEF ServiceSound
<1> QED
  BY <1>1, InvariantHolds, PTL

(* The event a client reads is the answer to the item it sent last: an answer
   that comes after its item timed out stays on a connection that the client
   (RemoteWorker::work, reconnect) asks nothing on any more. *)
THEOREM AnswersAreMatched == Spec => []AnswersMatch
<1>1. RemoteInv => AnswersMatch
  BY DEF RemoteInv, ClientInv, AnswersMatch
<1> QED
  BY <1>1, InvariantHolds, PTL
==============================================================================
