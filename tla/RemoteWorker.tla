---------------------------- MODULE RemoteWorker ----------------------------
(***************************************************************************)
(* Remote workers: the TCP service and its client, crates/evix/src/        *)
(* remote_worker.rs, with the order of the messages in remote_proto.rs.    *)
(*                                                                         *)
(* A client is one remote worker of a master.  Each of its connections has *)
(* a server task of its own, a permit, and an evaluator that LocalPool     *)
(* describes in detail: here it boots, evaluates, dies, or exits at its    *)
(* memory limit.  A client that reconnects drops the old connection only   *)
(* when the new one is ready.                                              *)
(*                                                                         *)
(* A definition Name_Fault is the definition Name with one plausible       *)
(* mistake; it is used by no behaviour.                                    *)
(***************************************************************************)
EXTENDS Integers, Sequences, FiniteSets

CONSTANTS
    Clients,
    Rejected,       \* clients whose token, store dir or options do not match
    MaxConns,       \* bound: connections opened
    MAX_REMOTE_CONNECTIONS,
    SetupTimeout,   \* in ticks: REMOTE_SETUP_TIMEOUT
    ItemTimeout,    \* in ticks
    MaxItems,       \* bound: items sent
    MaxTime         \* bound: ticks

ASSUME RemoteWorkerAssumption ==
    /\ Rejected \subseteq Clients
    /\ {MaxConns, MaxItems, MaxTime} \subseteq Nat
    /\ {MAX_REMOTE_CONNECTIONS, SetupTimeout, ItemTimeout} \subseteq Nat \ {0}

Conns == 1..MaxConns

VARIABLES
    client,    \* where each client is
    stream,    \* its connection, 0 when it has none
    fresh,     \* the connection it is setting up
    since,     \* when its current timeout started
    asked,     \* the item it sent last
    answer,    \* the item of the event it read last
    owner,     \* the client of each connection opened so far
    up, down,  \* messages to and from the server
    near, far, \* the client's and the server's end of a connection is open
    task,      \* where the server's task of a connection is
    eval,      \* its evaluator
    permits,   \* connections that hold a permit
    items, now

clientVars == <<client, stream, fresh, since, asked, answer>>
wire == <<up, down>>
vars == <<clientVars, owner, wire, near, far, task, eval, permits, items, now>>

Opened == 1..Len(owner)

Init ==
    /\ client = [c \in Clients |-> "connect"]
    /\ stream = [c \in Clients |-> 0] /\ fresh = [c \in Clients |-> 0]
    /\ since = [c \in Clients |-> 0]
    /\ asked = [c \in Clients |-> 0] /\ answer = [c \in Clients |-> 0]
    /\ owner = <<>>
    /\ up = [k \in Conns |-> <<>>] /\ down = [k \in Conns |-> <<>>]
    /\ near = [k \in Conns |-> FALSE] /\ far = [k \in Conns |-> FALSE]
    /\ task = [k \in Conns |-> "none"]
    /\ eval = [k \in Conns |-> "none"]
    /\ permits = {} /\ items = 0 /\ now = 0

Msg(type, item) == [type |-> type, item |-> item]
Send(q, k, m) == [q EXCEPT ![k] = Append(@, m)]
Drop(q, k) == [q EXCEPT ![k] = Tail(@)]

(* A write succeeds while the other end is open. *)
ToClient(k, m) == down' = IF near[k] THEN Send(down, k, m) ELSE down

---------------------------------------------------------------------------
(* The client: RemoteWorker.                                                *)

accept_Fault(k) ==
    IF Cardinality(permits) < MAX_REMOTE_CONNECTIONS
    THEN /\ permits' = permits
         /\ task' = [task EXCEPT ![k] = "setup"]
         /\ far' = [far EXCEPT ![k] = TRUE]
    ELSE UNCHANGED <<permits, task, far>>

(* serve accepts a connection; without a permit it is dropped at once. *)
accept(k) ==
    IF Cardinality(permits) < MAX_REMOTE_CONNECTIONS
    THEN /\ permits' = permits \union {k}
         /\ task' = [task EXCEPT ![k] = "setup"]
         /\ far' = [far EXCEPT ![k] = TRUE]
    ELSE UNCHANGED <<permits, task, far>>

(* connect_with_store_dir, up to the Setup message. *)
Connect(c) ==
    LET k == Len(owner) + 1 IN
    /\ client[c] = "connect" /\ k \in Conns
    /\ owner' = Append(owner, c)
    /\ near' = [near EXCEPT ![k] = TRUE]
    /\ accept(k)
    /\ up' = Send(up, k, Msg("Setup", 0))
    /\ fresh' = [fresh EXCEPT ![c] = k]
    /\ since' = [since EXCEPT ![c] = now]
    /\ client' = [client EXCEPT ![c] = "hello"]
    /\ UNCHANGED <<stream, asked, answer, down, eval, items, now>>

(* The client leaves: both of its connections are closed with it. *)
Leave(c, why) ==
    /\ client' = [client EXCEPT ![c] = why]
    /\ near' = [k \in Conns |-> near[k] /\ k \notin {stream[c], fresh[c]}]

(* expect_ready: the new connection replaces the old one. *)
Ready(c) ==
    LET k == fresh[c] IN
    /\ client[c] = "hello" /\ down[k] # <<>> /\ Head(down[k]).type = "Ready"
    /\ down' = Drop(down, k)
    /\ stream' = [stream EXCEPT ![c] = k] /\ fresh' = [fresh EXCEPT ![c] = 0]
    /\ near' = [j \in Conns |-> near[j] /\ j # stream[c]]
    /\ client' = [client EXCEPT ![c] = "idle"]
    /\ UNCHANGED <<since, asked, answer, owner, up, far, task, eval, permits, items, now>>

(* The server refused, answered with an error or went away: the worker's task
   ends with the error, and the evaluation with it. *)
ConnectFails(c) ==
    LET k == fresh[c] IN
    /\ client[c] = "hello"
    /\ \/ down[k] # <<>> /\ Head(down[k]).type = "Error" /\ Leave(c, "rejected")
       \/ down[k] = <<>> /\ ~far[k] /\ task[k] = "none" /\ Leave(c, "refused")
       \/ down[k] = <<>> /\ ~far[k] /\ task[k] # "none" /\ Leave(c, "rejected")
    /\ UNCHANGED <<stream, fresh, since, asked, answer, owner, wire, far, task, eval, permits,
                   items, now>>

ConnectTimeout(c) ==
    /\ client[c] = "hello" /\ now - since[c] >= SetupTimeout
    /\ Leave(c, "late")
    /\ UNCHANGED <<stream, fresh, since, asked, answer, owner, wire, far, task, eval, permits,
                   items, now>>

(* work: a request is written. *)
Work(c) ==
    /\ client[c] = "idle" /\ items < MaxItems
    /\ items' = items + 1
    /\ asked' = [asked EXCEPT ![c] = items + 1]
    /\ up' = Send(up, stream[c], Msg("Work", items + 1))
    /\ since' = [since EXCEPT ![c] = now]
    /\ client' = [client EXCEPT ![c] = "event"]
    /\ UNCHANGED <<stream, fresh, answer, owner, down, near, far, task, eval, permits, now>>

(* One timer of work_with_timeout spans event and status. *)
ReadEvent(c) ==
    LET k == stream[c] IN
    /\ client[c] = "event" /\ down[k] # <<>> /\ Head(down[k]).type = "Event"
    /\ answer' = [answer EXCEPT ![c] = Head(down[k]).item]
    /\ down' = Drop(down, k)
    /\ client' = [client EXCEPT ![c] = "status"]
    /\ UNCHANGED <<stream, fresh, since, asked, owner, up, near, far, task, eval, permits, items, now>>

(* Restart is a matter of the server, like Ready. *)
ReadStatus(c) ==
    LET k == stream[c] IN
    /\ client[c] = "status" /\ down[k] # <<>> /\ Head(down[k]).type \in {"Ready", "Restart"}
    /\ down' = Drop(down, k)
    /\ client' = [client EXCEPT ![c] = "idle"]
    /\ UNCHANGED <<stream, fresh, since, asked, answer, owner, up, near, far, task, eval, permits,
                   items, now>>

WorkFails_Fault(c) ==
    /\ client[c] \in {"event", "status"}
    /\ now - since[c] >= ItemTimeout
    /\ client' = [client EXCEPT ![c] = "idle"]
    /\ UNCHANGED <<stream, fresh, since, asked, answer, owner, wire, near, far, task, eval,
                   permits, items, now>>

(* An error message, the end of the connection or a late answer fails the
   item; the worker reconnects and still has the old connection. *)
WorkFails(c) ==
    LET k == stream[c] IN
    /\ client[c] \in {"event", "status"}
    /\ \/ down[k] # <<>> /\ Head(down[k]).type = "Error"
       \/ down[k] = <<>> /\ ~far[k]
       \/ now - since[c] >= ItemTimeout
    /\ client' = [client EXCEPT ![c] = "connect"]
    /\ UNCHANGED <<stream, fresh, since, asked, answer, owner, wire, near, far, task, eval,
                   permits, items, now>>

(* work_with_timeout gives up first and abort drops the connection. *)
Abort(c) ==
    /\ client[c] \in {"event", "status"} /\ now - since[c] >= ItemTimeout
    /\ near' = [near EXCEPT ![stream[c]] = FALSE]
    /\ client' = [client EXCEPT ![c] = "connect"]
    /\ UNCHANGED <<stream, fresh, since, asked, answer, owner, wire, far, task, eval, permits,
                   items, now>>

(* The evaluation is over, ... *)
Stop(c) ==
    /\ client[c] = "idle"
    /\ up' = Send(up, stream[c], Msg("Shutdown", 0))
    /\ Leave(c, "stopped")
    /\ UNCHANGED <<stream, fresh, since, asked, answer, owner, down, far, task, eval, permits,
                   items, now>>

(* ... or the master is cancelled or killed, wherever it is. *)
Vanish(c) ==
    /\ client[c] \in {"connect", "hello", "idle", "event", "status"}
    /\ Leave(c, "stopped")
    /\ UNCHANGED <<stream, fresh, since, asked, answer, owner, wire, far, task, eval, permits,
                   items, now>>

---------------------------------------------------------------------------
(* The server: serve_connection.                                            *)

(* The task ends: the evaluator is stopped or killed, the connection closed
   and the permit returned. *)
Close(k) ==
    /\ far' = [far EXCEPT ![k] = FALSE]
    /\ eval' = [eval EXCEPT ![k] = "gone"]
    /\ permits' = permits \ {k}
    /\ task' = [task EXCEPT ![k] = "closed"]

(* The first message, whose token, store dir and options must match: only a
   wrong token is answered. *)
Setup(k) ==
    /\ task[k] = "setup"
    /\ \/ /\ up[k] # <<>> /\ owner[k] \notin Rejected
          /\ task' = [task EXCEPT ![k] = "boot"]
          /\ eval' = [eval EXCEPT ![k] = "boot"]
          /\ up' = Drop(up, k)
          /\ UNCHANGED <<down, far, permits>>
       \/ /\ up[k] # <<>> /\ owner[k] \in Rejected
          /\ up' = Drop(up, k)
          /\ (ToClient(k, Msg("Error", 0)) \/ UNCHANGED down)
          /\ Close(k)
       \/ up[k] = <<>> /\ ~near[k] /\ Close(k) /\ UNCHANGED wire
    /\ UNCHANGED <<clientVars, owner, near, items, now>>

(* A set-up message that takes longer than that to arrive is not waited for;
   the client counts from the same moment. *)
SetupTimesOut(k) ==
    /\ task[k] = "setup" /\ now - since[owner[k]] >= SetupTimeout
    /\ Close(k)
    /\ UNCHANGED <<clientVars, owner, wire, near, items, now>>

(* spawn_local returns: the evaluator has evaluated the root. *)
Booted(k) ==
    /\ task[k] \in {"boot", "respawn"} /\ eval[k] = "ready"
    /\ \/ /\ task[k] = "respawn" \/ near[k]
          /\ task' = [task EXCEPT ![k] = "read"]
          /\ IF task[k] = "boot" THEN ToClient(k, Msg("Ready", 0)) ELSE UNCHANGED down
          /\ UNCHANGED <<far, eval, permits>>
       \/ task[k] = "boot" /\ ~near[k] /\ Close(k) /\ UNCHANGED down
    /\ UNCHANGED <<clientVars, owner, up, near, items, now>>

(* spawn_local fails, by itself or at its timeout. *)
BootFails(k) ==
    /\ task[k] \in {"boot", "respawn"} /\ eval[k] # "ready"
    /\ Close(k)
    /\ UNCHANGED <<clientVars, owner, wire, near, items, now>>

(* The next message of the client; waiting for it has no limit.  Work stays at
   the head of up while it is in flight. *)
Read(k) ==
    /\ task[k] = "read"
    /\ \/ /\ up[k] # <<>> /\ Head(up[k]).type = "Work"
          /\ task' = [task EXCEPT ![k] = "work"]
          /\ eval' = [eval EXCEPT ![k] = IF @ = "ready" THEN "busy" ELSE @]
          /\ UNCHANGED <<up, far, permits>>
       \/ /\ up[k] # <<>> /\ Head(up[k]).type # "Work"
          /\ up' = Drop(up, k)
          /\ Close(k)
       \/ up[k] = <<>> /\ ~near[k] /\ Close(k) /\ UNCHANGED up
    /\ UNCHANGED <<clientVars, owner, down, near, items, now>>

(* select!: the evaluator has answered.  Event and status are written; at its
   memory limit the evaluator is started anew. *)
Respond(k) ==
    LET item == Head(up[k]).item
        status == IF eval[k] = "restart" THEN "Restart" ELSE "Ready"
    IN
    /\ task[k] = "work" /\ eval[k] \in {"answered", "restart"}
    /\ up' = Drop(up, k)
    /\ \/ /\ near[k]
          /\ down' = [down EXCEPT ![k] = @ \o <<Msg("Event", item), Msg(status, 0)>>]
          /\ task' = [task EXCEPT ![k] = IF status = "Restart" THEN "respawn" ELSE "read"]
          /\ eval' = [eval EXCEPT ![k] = IF status = "Restart" THEN "boot" ELSE "ready"]
          /\ UNCHANGED <<far, permits>>
       \/ ~near[k] /\ Close(k) /\ UNCHANGED down
    /\ UNCHANGED <<clientVars, owner, near, items, now>>

(* select!: the evaluator has died; the client is told, ... *)
RespondError(k) ==
    /\ task[k] = "work" /\ eval[k] = "gone"
    /\ ToClient(k, Msg("Error", 0))
    /\ task' = [task EXCEPT ![k] = "failed"]
    /\ UNCHANGED <<clientVars, owner, up, near, far, eval, permits, items, now>>

(* ... and then the task ends. *)
Fail(k) ==
    /\ task[k] = "failed"
    /\ Close(k)
    /\ UNCHANGED <<clientVars, owner, wire, near, items, now>>

Interrupt_Fault(k) ==
    /\ task[k] = "work" /\ Len(up[k]) > 1
    /\ Close(k)
    /\ UNCHANGED <<clientVars, owner, wire, near, items, now>>

(* select!: a message or the end of the connection comes first; the evaluator
   is killed. *)
Interrupt(k) ==
    /\ task[k] = "work" /\ (Len(up[k]) > 1 \/ ~near[k])
    /\ Close(k)
    /\ UNCHANGED <<clientVars, owner, wire, near, items, now>>

---------------------------------------------------------------------------
(* The evaluator process.                                                   *)

EvaluatorBoots(k) ==
    /\ eval[k] = "boot"
    /\ eval' = [eval EXCEPT ![k] = "ready"]
    /\ UNCHANGED <<clientVars, owner, wire, near, far, task, permits, items, now>>

EvaluatorAnswers(k) ==
    /\ eval[k] = "busy"
    /\ \E result \in {"answered", "restart", "gone"} : eval' = [eval EXCEPT ![k] = result]
    /\ UNCHANGED <<clientVars, owner, wire, near, far, task, permits, items, now>>

EvaluatorDies(k) ==
    /\ eval[k] \in {"boot", "ready"}
    /\ eval' = [eval EXCEPT ![k] = "gone"]
    /\ UNCHANGED <<clientVars, owner, wire, near, far, task, permits, items, now>>

Tick ==
    /\ now < MaxTime
    /\ now' = now + 1
    /\ UNCHANGED <<clientVars, owner, wire, near, far, task, eval, permits, items>>

---------------------------------------------------------------------------

ClientStep(c) ==
    \/ Connect(c) \/ Ready(c) \/ ConnectFails(c) \/ ConnectTimeout(c)
    \/ Work(c) \/ ReadEvent(c) \/ ReadStatus(c) \/ WorkFails(c) \/ Abort(c) \/ Stop(c)

ServerStep(k) ==
    \/ Setup(k) \/ SetupTimesOut(k) \/ Booted(k) \/ BootFails(k) \/ Read(k)
    \/ Respond(k) \/ RespondError(k) \/ Fail(k) \/ Interrupt(k)

Next ==
    \/ \E c \in Clients : ClientStep(c) \/ Vanish(c)
    \/ \E k \in Opened : ServerStep(k) \/ EvaluatorBoots(k) \/ EvaluatorAnswers(k) \/ EvaluatorDies(k)
    \/ Tick

Spec == Init /\ [][Next]_vars

(* The server's tasks are scheduled and spawn_local returns by its timeout.
   Nothing is asked of the evaluation of an item or of the clients. *)
Fairness == \A k \in Conns : WF_vars(k \in Opened /\ ServerStep(k))

LiveSpec == Spec /\ Fairness

---------------------------------------------------------------------------
(* Properties.                                                              *)

Running == {k \in Conns : eval[k] \in {"boot", "ready", "busy", "answered", "restart"}}

(* Every variable has its type, and a connection carries at most the messages
   of one answer. *)
TypeOK ==
    /\ client \in [Clients -> {"connect", "hello", "idle", "event", "status", "stopped",
                               "rejected", "refused", "late"}]
    /\ stream \in [Clients -> 0..MaxConns] /\ fresh \in [Clients -> 0..MaxConns]
    /\ since \in [Clients -> 0..MaxTime] /\ now \in 0..MaxTime
    /\ asked \in [Clients -> 0..MaxItems] /\ answer \in [Clients -> 0..MaxItems]
    /\ owner \in Seq(Clients)
    /\ \A k \in Conns : Len(up[k]) <= 2 /\ Len(down[k]) <= 2
    /\ near \in [Conns -> BOOLEAN] /\ far \in [Conns -> BOOLEAN]
    /\ task \in [Conns -> {"none", "setup", "boot", "read", "work", "respawn", "failed", "closed"}]
    /\ eval \in [Conns -> {"none", "boot", "ready", "busy", "answered", "restart", "gone"}]
    /\ permits \subseteq Conns /\ items \in 0..MaxItems

(* However clients come, go, time out and reconnect, the service never runs
   more evaluators than it has permits (serve, serve_connection). *)
EvaluatorsBounded == Cardinality(Running) <= MAX_REMOTE_CONNECTIONS

(* No client of another store, or without the token, has an evaluator. *)
OnlyAccepted == \A k \in Running : owner[k] \notin Rejected

(* An event is taken for the item that was sent last: the answer to an item
   that timed out stays on the connection it was asked on. *)
AnswersMatch == \A c \in Clients : client[c] = "status" => answer[c] = asked[c]

(* A client that goes away frees what it held: its evaluator is killed in the
   middle of an item and its permit returned, whatever the evaluation does. *)
ClientGoneFrees ==
    \A k \in Conns : task[k] # "none" /\ ~near[k] ~> k \notin permits /\ k \notin Running

(* The service: types, no more evaluators than permits, and none for a client
   that was not accepted (serve, serve_connection, check of the set-up). *)
ServiceSound == TypeOK /\ EvaluatorsBounded /\ OnlyAccepted
=============================================================================
