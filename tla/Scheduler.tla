------------------------------ MODULE Scheduler ------------------------------
(***************************************************************************)
(* One evaluation run: the coordinator of crates/evix/src/async_master.rs  *)
(* and its worker tasks.                                                   *)
(*                                                                         *)
(* The coordinator owns a FIFO of attribute paths, sends one path at a     *)
(* time to each idle worker over that worker's work channel (capacity 1),  *)
(* and receives everything the workers say over one result channel         *)
(* (capacity: the number of workers).  An attribute set pushes its         *)
(* children to the FIFO.  A worker task connects to its evaluator, takes   *)
(* work, reconnects after a failure and restarts after a memory limit.     *)
(* When the coordinator leaves its loop it drops the result receiver and   *)
(* either aborts the tasks (cancelled) or stops and joins them in order.   *)
(*                                                                         *)
(* Every await of the code is the boundary of an action, so tasks          *)
(* interleave there and nowhere else.  A definition Name_Fault is the      *)
(* definition Name with one plausible mistake: it is used by no behaviour  *)
(* and shows which property would catch the mistake.                       *)
(***************************************************************************)
EXTENDS Integers, Sequences, FiniteSets, Functions

CONSTANTS
    LocalWorkers,   \* config.workers
    RemoteWorkers,  \* sum of remote.workers over config.remotes
    RemoteSystems,  \* remote.systems of each remote worker; {} accepts all
    Systems,        \* system strings
    Paths,          \* attribute paths of the evaluated expression
    Root,           \* the empty path
    Children,       \* child paths, in attribute order, of each path
    SystemOf,       \* the system of the derivation at each path
    Replies         \* the events an evaluator may answer with for each path

(***************************************************************************)
(* worker_specs: at least one local worker unless there are only remote    *)
(* ones; local workers first.  All local workers but the first are forked  *)
(* off the first one and are not ready when the run starts.                *)
(***************************************************************************)
NLocal ==
    IF LocalWorkers = 0 /\ RemoteWorkers > 0
    THEN 0
    ELSE IF LocalWorkers = 0 THEN 1 ELSE LocalWorkers

N == NLocal + RemoteWorkers
Workers == 1..N
Remote == (NLocal + 1)..N
Forked == 2..NLocal

worker_accepts_system(w, system) ==
    w \in Remote =>
        LET systems == RemoteSystems[w - NLocal]
        IN  systems = {} \/ system \in systems

Events == {"attrset", "derivation", "error", "fatal"}

(* Children are the parent's path extended by distinct attribute names, so *)
(* no path is the child of two parents and the root is nobody's child.     *)
ASSUME ConstantsAssumption ==
    /\ LocalWorkers \in Nat
    /\ RemoteWorkers \in Nat
    /\ RemoteSystems \in [1..RemoteWorkers -> SUBSET Systems]
    /\ Root \in Paths
    /\ Children \in [Paths -> Seq(Paths)]
    /\ SystemOf \in [Paths -> Systems]
    /\ Replies \in [Paths -> SUBSET Events]

ASSUME TreeAssumption ==
    /\ \A p \in Paths : \A i \in DOMAIN Children[p] : Children[p][i] # Root
    /\ \A p, q \in Paths : \A i \in DOMAIN Children[p] : \A j \in DOMAIN Children[q] :
          Children[p][i] = Children[q][j] => p = q /\ i = j

NoPath == "no path"
ASSUME NoPathAssumption == NoPath \notin Paths

VARIABLES
    todo,     \* Scheduler.todo
    active,   \* Scheduler.active
    error,    \* Scheduler.error: "none", "fatal" or "unowned"
    idle,     \* the coordinator's queue of idle workers
    cpc,      \* where the coordinator is
    cursor,   \* loop counter of the loop the coordinator is in
    result,   \* what coordinate() returned, "none" before
    outcome,  \* what run() returned, "none" before
    results,  \* the result channel
    work,     \* the work channel of each worker
    wpc,      \* where each worker task is
    item,     \* the path each worker task holds, or NoPath
    reply,    \* the event each worker holds: an event, "failed" or "none"
    status,   \* WorkerStatus that came with the reply
    client,   \* each worker's evaluator connection: "none", "up" or "down"
    cancel,   \* the session's cancellation flag
    emitted   \* the events given to the event sink, per path

coordinatorVars == <<todo, active, error, idle, cpc, cursor, result, outcome, emitted>>
workerVars == <<wpc, item, reply, status, client>>
vars == <<todo, active, error, idle, cpc, cursor, result, outcome, results,
          work, wpc, item, reply, status, client, cancel, emitted>>

Commands == [type : {"Work"}, item : Paths] \union [type : {"Stop"}]

Messages ==
    [type : {"Ready"}, worker : Workers]
    \union [type : {"Result"}, worker : Workers, item : Paths,
            event : Events \union {"failed"}]
    \union [type : {"Cancelled", "Exited"}]

Errors == {"fatal", "unowned", "sink", "worker", "send", "stalled", "allExited"}

Running == {"top", "dispatch", "recv", "emit"}
Teardown == {"stop", "join", "abort"}
EndedOk == {"exitedOk", "aborted"}
Ended == EndedOk \union {"exitedErr"}
WorkerPcs == Ended \union
    {"connect", "sendReady", "recv", "sendCancelled", "working", "sendResult", "sent",
     "reconnect", "restart", "failing", "stopping"}

CoordinatorTypes ==
    /\ todo \in Seq(Paths)
    /\ active \in Int
    /\ error \in {"none", "fatal", "unowned"}
    /\ idle \in Seq(Workers)
    /\ cpc \in Running \union Teardown \union {"returned"}
    /\ cursor \in Nat
    /\ cpc \in Teardown => cursor \in Workers
    /\ cpc = "dispatch" => cursor <= Len(idle)
    /\ result \in {"none", "completed", "cancelled"} \union Errors
    /\ outcome \in {"none", "completed", "cancelled"} \union Errors
    /\ emitted \in [Paths -> Seq(Events)]

ChannelTypes ==
    /\ results \in Seq(Messages)
    /\ Len(results) <= N
    /\ work \in [Workers -> Seq(Commands)]
    /\ \A w \in Workers : Len(work[w]) <= 1

WorkerTypes ==
    /\ wpc \in [Workers -> WorkerPcs]
    /\ item \in [Workers -> Paths \union {NoPath}]
    /\ \A w \in Workers : wpc[w] \in {"working", "sendResult"} => item[w] \in Paths
    /\ reply \in [Workers -> Events \union {"failed", "none"}]
    /\ \A w \in Workers : wpc[w] = "sendResult" => reply[w] # "none"
    /\ status \in [Workers -> {"Ready", "Restart"}]
    /\ client \in [Workers -> {"none", "up", "down"}]

(* Every variable has its type, both channels respect their capacity, and  *)
(* a worker that evaluates or answers has the path and the answer it needs.*)
TypeOK ==
    /\ CoordinatorTypes
    /\ ChannelTypes
    /\ WorkerTypes
    /\ cancel \in BOOLEAN

(* The result receiver lives while coordinate() runs; the work senders     *)
(* until run() returns; a work receiver until its serve_worker returns.    *)
ResultRxOpen == cpc \in Running
WorkTxOpen == cpc # "returned"
WorkRxOpen(w) == wpc[w] \notin Ended \union {"failing"}

InitialIdle_AllWorkers == [i \in Workers |-> i]

(* Every worker that is not forked, in order. *)
InitialIdle ==
    IF NLocal = 0
    THEN [i \in Workers |-> i]
    ELSE [i \in 1..(RemoteWorkers + 1) |-> IF i = 1 THEN 1 ELSE NLocal + i - 1]

Init ==
    /\ todo = <<Root>>
    /\ active = 0
    /\ error = "none"
    /\ idle = InitialIdle
    /\ cpc = "top"
    /\ cursor = 0
    /\ result = "none"
    /\ outcome = "none"
    /\ results = <<>>
    /\ work = [w \in Workers |-> <<>>]
    /\ wpc = [w \in Workers |-> "connect"]
    /\ item = [w \in Workers |-> NoPath]
    /\ reply = [w \in Workers |-> "none"]
    /\ status = [w \in Workers |-> "Ready"]
    /\ client = [w \in Workers |-> "none"]
    /\ cancel = FALSE
    /\ emitted = [p \in Paths |-> <<>>]

------------------------------------------------------------------------------
(* The coordinator. *)

(* coordinate() returns r: run() drops the result receiver and turns to    *)
(* abort_workers or shutdown_workers.                                      *)
Leave(r) ==
    /\ result' = r
    /\ cpc' = IF r = "cancelled" THEN "abort" ELSE "stop"
    /\ cursor' = 1
    /\ results' = <<>>
    /\ UNCHANGED outcome

(* Top of the loop: the only place where the coordinator looks at cancel. *)
ObserveCancel ==
    /\ cpc = "top"
    /\ cancel
    /\ Leave("cancelled")
    /\ UNCHANGED <<todo, active, error, idle, work, cancel, emitted, workerVars>>

BeginDispatch_OffByOne ==
    /\ cpc = "top"
    /\ ~cancel
    /\ cpc' = "dispatch"
    /\ cursor' = Len(idle) + 1
    /\ UNCHANGED <<todo, active, error, idle, result, outcome, results, work, cancel,
                   emitted, workerVars>>

BeginDispatch ==
    /\ cpc = "top"
    /\ ~cancel
    /\ cpc' = "dispatch"
    /\ cursor' = Len(idle)
    /\ UNCHANGED <<todo, active, error, idle, result, outcome, results, work, cancel,
                   emitted, workerVars>>

next_for ==
    IF error # "none" THEN "Fatal"
    ELSE IF todo # <<>> THEN "Dispatch"
    ELSE IF active = 0 THEN "Done"
    ELSE "Wait"

DispatchWork_Uncounted ==
    /\ cpc = "dispatch"
    /\ cursor > 0
    /\ next_for = "Dispatch"
    /\ todo' = Tail(todo)
    /\ UNCHANGED active
    /\ idle' = Tail(idle)
    /\ LET w == Head(idle) IN
          IF WorkRxOpen(w)
          THEN /\ work[w] = <<>>
               /\ work' = [work EXCEPT ![w] = <<[type |-> "Work", item |-> Head(todo)]>>]
               /\ cursor' = cursor - 1
               /\ UNCHANGED <<cpc, result, outcome, results>>
          ELSE /\ Leave("send")
               /\ UNCHANGED work
    /\ UNCHANGED <<error, cancel, emitted, workerVars>>

(* dispatch_available, one idle worker per step.  Sending blocks while the *)
(* work channel is full and fails once its receiver is dropped.            *)
DispatchWork ==
    /\ cpc = "dispatch"
    /\ cursor > 0
    /\ next_for = "Dispatch"
    /\ todo' = Tail(todo)
    /\ active' = active + 1
    /\ idle' = Tail(idle)
    /\ LET w == Head(idle) IN
          IF WorkRxOpen(w)
          THEN /\ work[w] = <<>>
               /\ work' = [work EXCEPT ![w] = <<[type |-> "Work", item |-> Head(todo)]>>]
               /\ cursor' = cursor - 1
               /\ UNCHANGED <<cpc, result, outcome, results>>
          ELSE /\ Leave("send")
               /\ UNCHANGED work
    /\ UNCHANGED <<error, cancel, emitted, workerVars>>

DispatchWait ==
    /\ cpc = "dispatch"
    /\ cursor > 0
    /\ next_for = "Wait"
    /\ idle' = Append(Tail(idle), Head(idle))
    /\ cursor' = cursor - 1
    /\ UNCHANGED <<todo, active, error, cpc, result, outcome, results, work, cancel,
                   emitted, workerVars>>

DispatchEnd ==
    /\ cpc = "dispatch"
    /\ cursor > 0
    /\ next_for \in {"Done", "Fatal"}
    /\ idle' = Tail(idle)
    /\ Leave(IF next_for = "Done" THEN "completed" ELSE error)
    /\ UNCHANGED <<todo, active, error, work, cancel, emitted, workerVars>>

is_done == todo = <<>> /\ active = 0
has_active_work == active > 0

(* dispatch_available went through the idle workers: stop or wait. *)
AfterDispatch ==
    /\ cpc = "dispatch"
    /\ cursor = 0
    /\ IF is_done THEN Leave("completed")
       ELSE IF ~has_active_work /\ Len(idle) = N THEN Leave("stalled")
       ELSE /\ cpc' = "recv"
            /\ UNCHANGED <<cursor, result, outcome, results>>
    /\ UNCHANGED <<todo, active, error, idle, work, cancel, emitted, workerVars>>

(* The next message, or "None" when every sender is gone. *)
Received ==
    IF results # <<>> THEN Head(results).type
    ELSE IF \A w \in Workers : wpc[w] \in Ended THEN "None"
    ELSE "Pending"

ReceiveReady ==
    /\ cpc = "recv"
    /\ Received = "Ready"
    /\ idle' = Append(idle, Head(results).worker)
    /\ results' = Tail(results)
    /\ cpc' = "top"
    /\ UNCHANGED <<todo, active, error, cursor, result, outcome, work, cancel, emitted,
                   workerVars>>

ReceiveEnd ==
    /\ cpc = "recv"
    /\ Received \in {"Cancelled", "Exited", "None"}
    /\ Leave(CASE Received = "Cancelled" -> "cancelled"
               [] Received = "Exited" -> "worker"
               [] Received = "None" -> "allExited")
    /\ UNCHANGED <<todo, active, error, idle, work, cancel, emitted, workerVars>>

(* A derivation a remote worker reports must be for a system that some     *)
(* worker of the run accepts; a local worker's derivation always counts.   *)
event_disposition(w, p) ==
    IF w \in Remote /\ ~\E v \in Workers : worker_accepts_system(v, SystemOf[p])
    THEN "Unowned"
    ELSE "Emit"

(* worker_failure_event: a failed evaluation is reported as a non-fatal    *)
(* error of its attribute.                                                 *)
EventOf(message) == IF message.event = "failed" THEN "error" ELSE message.event

(* The error that completing p with this event leaves in the scheduler. *)
FatalError(w, p, event) ==
    IF event = "fatal" THEN "fatal"
    ELSE IF event = "derivation" /\ event_disposition(w, p) = "Unowned" THEN "unowned"
    ELSE "none"

Expand_RetriesErrors(p, event) ==
    CASE event = "attrset" -> Children[p]
      [] event = "error" -> <<p>>
      [] OTHER -> <<>>

(* An attribute set queues its children. *)
Expand(p, event) == IF event = "attrset" THEN Children[p] ELSE <<>>

(* A result: the worker is idle again, Scheduler::complete, on_event is    *)
(* called (the accumulator records the event at the call).  An unowned     *)
(* derivation is not emitted and ends the loop here.                       *)
ReceiveResult ==
    /\ cpc = "recv"
    /\ Received = "Result"
    /\ LET m == Head(results)
           event == EventOf(m)
           fatal == FatalError(m.worker, m.item, event)
       IN  /\ idle' = Append(idle, m.worker)
           /\ active' = active - 1
           /\ todo' = todo \o Expand(m.item, event)
           /\ error' = IF fatal = "none" THEN error ELSE fatal
           /\ IF fatal = "unowned"
              THEN /\ Leave("unowned")
                   /\ UNCHANGED emitted
              ELSE /\ emitted' = [emitted EXCEPT ![m.item] = Append(@, event)]
                   /\ results' = Tail(results)
                   /\ cpc' = "emit"
                   /\ UNCHANGED <<cursor, result, outcome>>
    /\ UNCHANGED <<work, cancel, workerVars>>

(* The awaited event sink accepts the event, or returns an error. *)
SinkAccepts ==
    /\ cpc = "emit"
    /\ IF error # "none" THEN Leave(error)
       ELSE /\ cpc' = "top"
            /\ UNCHANGED <<cursor, result, outcome, results>>
    /\ UNCHANGED <<todo, active, error, idle, work, cancel, emitted, workerVars>>

SinkFails ==
    /\ cpc = "emit"
    /\ Leave("sink")
    /\ UNCHANGED <<todo, active, error, idle, work, cancel, emitted, workerVars>>

------------------------------------------------------------------------------
(* Teardown. *)

Return(r) ==
    /\ outcome' = r
    /\ cpc' = "returned"
    /\ UNCHANGED cursor

NextWorker(after) ==
    IF cursor < N
    THEN cursor' = cursor + 1 /\ UNCHANGED <<cpc, outcome>>
    ELSE after

(* shutdown_workers: Stop to every worker in order, an error ignored; a    *)
(* full work channel blocks until its worker takes what is in it.          *)
StopWorker ==
    /\ cpc = "stop"
    /\ WorkRxOpen(cursor) => work[cursor] = <<>>
    /\ work' = IF WorkRxOpen(cursor)
               THEN [work EXCEPT ![cursor] = <<[type |-> "Stop"]>>]
               ELSE work
    /\ NextWorker(cpc' = "join" /\ cursor' = 1 /\ UNCHANGED outcome)
    /\ UNCHANGED <<todo, active, error, idle, result, results, cancel, emitted, workerVars>>

JoinWorker_NoWait ==
    /\ cpc = "join"
    /\ IF wpc[cursor] = "exitedErr" THEN Return("worker") ELSE NextWorker(Return(result))
    /\ UNCHANGED <<todo, active, error, idle, result, results, work, cancel, emitted,
                   workerVars>>

JoinWorker_SwallowsError ==
    /\ cpc = "join"
    /\ wpc[cursor] \in Ended
    /\ IF wpc[cursor] = "exitedErr" THEN Return("worker") ELSE NextWorker(Return("completed"))
    /\ UNCHANGED <<todo, active, error, idle, result, results, work, cancel, emitted,
                   workerVars>>

(* then join them in order; the first task that failed ends the run. *)
JoinWorker ==
    /\ cpc = "join"
    /\ wpc[cursor] \in Ended
    /\ IF wpc[cursor] = "exitedErr" THEN Return("worker") ELSE NextWorker(Return(result))
    /\ UNCHANGED <<todo, active, error, idle, result, results, work, cancel, emitted,
                   workerVars>>

(* abort_workers: abort one task and await it.  A task that has already    *)
(* ended keeps its result, and an error returns at once.                   *)
AbortWorker ==
    /\ cpc = "abort"
    /\ wpc' = IF wpc[cursor] \in Ended THEN wpc ELSE [wpc EXCEPT ![cursor] = "aborted"]
    /\ IF wpc[cursor] = "exitedErr" THEN Return("worker") ELSE NextWorker(Return(result))
    /\ UNCHANGED <<todo, active, error, idle, result, results, work, cancel, emitted,
                   item, reply, status, client>>

------------------------------------------------------------------------------
(* The worker tasks. *)

Goto(w, pc) == wpc' = [wpc EXCEPT ![w] = pc]

(* result_tx.send(m).await: fails at once when the receiver is gone and    *)
(* blocks while the channel is full.                                       *)
SendResultTx(m) ==
    IF ResultRxOpen
    THEN Len(results) < N /\ results' = Append(results, m)
    ELSE UNCHANGED results

(* A forked worker's select polls its work channel before the connection. *)
Interrupted(w) == w \in Forked /\ (work[w] # <<>> \/ ~WorkTxOpen)

Connect(w) ==
    /\ wpc[w] = "connect"
    /\ ~Interrupted(w)
    /\ \/ /\ Goto(w, IF w \in Forked THEN "sendReady" ELSE "recv")
          /\ client' = [client EXCEPT ![w] = "up"]
       \/ /\ Goto(w, "failing")
          /\ UNCHANGED client
    /\ UNCHANGED <<coordinatorVars, results, work, item, reply, status, cancel>>

ConnectInterrupted(w) ==
    /\ wpc[w] = "connect"
    /\ Interrupted(w)
    /\ Goto(w, IF work[w] # <<>> /\ Head(work[w]).type = "Work"
               THEN "failing" ELSE "exitedOk")
    /\ work' = [work EXCEPT ![w] = <<>>]
    /\ UNCHANGED <<coordinatorVars, results, item, reply, status, client, cancel>>

SendReady(w) ==
    /\ wpc[w] = "sendReady"
    /\ SendResultTx([type |-> "Ready", worker |-> w])
    /\ Goto(w, IF ResultRxOpen THEN "recv" ELSE "exitedOk")
    /\ UNCHANGED <<coordinatorVars, work, item, reply, status, client, cancel>>

(* The worker loop receives a command, then looks at cancel. *)
TakeCommand(w) ==
    /\ wpc[w] = "recv"
    /\ work[w] # <<>>
    /\ work' = [work EXCEPT ![w] = <<>>]
    /\ LET command == Head(work[w]) IN
          /\ Goto(w, IF cancel THEN "sendCancelled"
                     ELSE IF command.type = "Work" THEN "working"
                     ELSE "stopping")
          /\ item' = IF command.type = "Work"
                     THEN [item EXCEPT ![w] = command.item]
                     ELSE item
    /\ UNCHANGED <<coordinatorVars, results, reply, status, client, cancel>>

WorkTxDropped_Early(w) ==
    /\ wpc[w] = "recv"
    /\ work[w] = <<>>
    /\ Goto(w, "stopping")
    /\ UNCHANGED <<coordinatorVars, results, work, item, reply, status, client, cancel>>

WorkTxDropped(w) ==
    /\ wpc[w] = "recv"
    /\ work[w] = <<>>
    /\ ~WorkTxOpen
    /\ Goto(w, "stopping")
    /\ UNCHANGED <<coordinatorVars, results, work, item, reply, status, client, cancel>>

SendCancelled(w) ==
    /\ wpc[w] = "sendCancelled"
    /\ SendResultTx([type |-> "Cancelled"])
    /\ Goto(w, "stopping")
    /\ UNCHANGED <<coordinatorVars, work, item, reply, status, client, cancel>>

(* work_with_timeout answers.  A local evaluator that reports Restart has  *)
(* exited; a failed or timed out one is dead or unusable.                  *)
Evaluate(w) ==
    /\ wpc[w] = "working"
    /\ \E event \in Replies[item[w]],
          s \in IF w \in Remote THEN {"Ready"} ELSE {"Ready", "Restart"} :
          /\ reply' = [reply EXCEPT ![w] = event]
          /\ status' = [status EXCEPT ![w] = s]
          /\ client' = [client EXCEPT ![w] = IF s = "Restart" THEN "down" ELSE "up"]
    /\ Goto(w, "sendResult")
    /\ UNCHANGED <<coordinatorVars, results, work, item, cancel>>

EvaluateFails(w) ==
    /\ wpc[w] = "working"
    /\ reply' = [reply EXCEPT ![w] = "failed"]
    /\ status' = [status EXCEPT ![w] = "Ready"]
    /\ client' = [client EXCEPT ![w] = "down"]
    /\ Goto(w, "sendResult")
    /\ UNCHANGED <<coordinatorVars, results, work, item, cancel>>

(* A panic while the item is evaluated is caught by worker_task. *)
WorkerPanics(w) ==
    /\ wpc[w] = "working"
    /\ Goto(w, "failing")
    /\ UNCHANGED <<coordinatorVars, results, work, item, reply, status, client, cancel>>

SendResult(w) ==
    /\ wpc[w] = "sendResult"
    /\ SendResultTx([type |-> "Result", worker |-> w, item |-> item[w], event |-> reply[w]])
    /\ Goto(w, IF ResultRxOpen THEN "sent" ELSE "stopping")
    /\ item' = [item EXCEPT ![w] = NoPath]
    /\ UNCHANGED <<coordinatorVars, work, reply, status, client, cancel>>

AfterSend_NoReconnect(w) ==
    /\ wpc[w] = "sent"
    /\ Goto(w, IF status[w] = "Restart" THEN "restart" ELSE "recv")
    /\ reply' = [reply EXCEPT ![w] = "none"]
    /\ status' = [status EXCEPT ![w] = "Ready"]
    /\ UNCHANGED <<coordinatorVars, results, work, item, client, cancel>>

(* After the send, the worker looks at cancel once more. *)
AfterSend(w) ==
    /\ wpc[w] = "sent"
    /\ Goto(w, IF reply[w] = "failed" /\ ~cancel THEN "reconnect"
               ELSE IF status[w] = "Restart" THEN "restart"
               ELSE "recv")
    /\ reply' = [reply EXCEPT ![w] = "none"]
    /\ status' = [status EXCEPT ![w] = "Ready"]
    /\ UNCHANGED <<coordinatorVars, results, work, item, client, cancel>>

Reconnect_Forever(w) ==
    /\ wpc[w] \in {"reconnect", "restart"}
    /\ \/ /\ Goto(w, "recv")
          /\ client' = [client EXCEPT ![w] = "up"]
       \/ /\ Goto(w, IF wpc[w] = "reconnect" THEN "restart" ELSE "reconnect")
          /\ UNCHANGED client
    /\ UNCHANGED <<coordinatorVars, results, work, item, reply, status, cancel>>

Reconnect(w) ==
    /\ wpc[w] \in {"reconnect", "restart"}
    /\ \/ /\ Goto(w, "recv")
          /\ client' = [client EXCEPT ![w] = "up"]
       \/ /\ Goto(w, "failing")
          /\ UNCHANGED client
    /\ UNCHANGED <<coordinatorVars, results, work, item, reply, status, cancel>>

(* serve_worker returned an error: its receiver is dropped, worker_task    *)
(* reports the exit and ends with the error.                               *)
SendExited(w) ==
    /\ wpc[w] = "failing"
    /\ SendResultTx([type |-> "Exited"])
    /\ Goto(w, "exitedErr")
    /\ UNCHANGED <<coordinatorVars, work, item, reply, status, client, cancel>>

StopClient(w) ==
    /\ wpc[w] = "stopping"
    /\ Goto(w, "exitedOk")
    /\ UNCHANGED <<coordinatorVars, results, work, item, reply, status, client, cancel>>

------------------------------------------------------------------------------
(* Session::cancel, or the session being dropped. *)
RequestCancel ==
    /\ ~cancel
    /\ outcome = "none"
    /\ cancel' = TRUE
    /\ UNCHANGED <<coordinatorVars, results, work, workerVars>>

Coordinator ==
    \/ ObserveCancel
    \/ BeginDispatch
    \/ DispatchWork
    \/ DispatchWait
    \/ DispatchEnd
    \/ AfterDispatch
    \/ ReceiveReady
    \/ ReceiveEnd
    \/ ReceiveResult
    \/ SinkAccepts
    \/ SinkFails
    \/ StopWorker
    \/ JoinWorker
    \/ AbortWorker

Worker(w) ==
    \/ Connect(w)
    \/ ConnectInterrupted(w)
    \/ SendReady(w)
    \/ TakeCommand(w)
    \/ WorkTxDropped(w)
    \/ SendCancelled(w)
    \/ Evaluate(w)
    \/ EvaluateFails(w)
    \/ WorkerPanics(w)
    \/ SendResult(w)
    \/ AfterSend(w)
    \/ Reconnect(w)
    \/ SendExited(w)
    \/ StopClient(w)

(* The run is over and every task has ended. *)
Finished ==
    /\ outcome # "none"
    /\ \A w \in Workers : wpc[w] \in Ended
    /\ UNCHANGED vars

Next ==
    \/ Coordinator
    \/ \E w \in Workers : Worker(w)
    \/ RequestCancel
    \/ Finished

Spec == Init /\ [][Next]_vars

(* Tasks are scheduled fairly.  Connecting and evaluating end because the  *)
(* code bounds both by the item timeout; the sink is drained by its reader.*)
FairSpec ==
    /\ Spec
    /\ WF_vars(Coordinator)
    /\ \A w \in Workers : WF_vars(Worker(w))

------------------------------------------------------------------------------
(* What the run guarantees. *)

(* Paths on their way between the queue and the sink: in a work channel,   *)
(* with a worker, or in the result channel.                                *)
InWork(p) == {w \in Workers : \E i \in DOMAIN work[w] :
                 work[w][i].type = "Work" /\ work[w][i].item = p}
WithWorker(p) == {w \in Workers : item[w] = p}
InResults(p) == {i \in DOMAIN results : results[i].type = "Result" /\ results[i].item = p}
InTodo(p) == {i \in DOMAIN todo : todo[i] = p}

InFlight(p) == Cardinality(InWork(p)) + Cardinality(WithWorker(p)) + Cardinality(InResults(p))

(* What the events seen so far say there is to evaluate. *)
Discovered ==
    {Root} \union UNION {Range(Children[p]) :
                            p \in {q \in Paths : "attrset" \in Range(emitted[q])}}

(* While coordinate() runs, no path is duplicated or lost between the      *)
(* queue, the channels, the workers and the sink (a path given to a task   *)
(* that dies or sees the cancellation stays with it), nothing undiscovered *)
(* is evaluated, and Scheduler.active counts exactly the paths in flight.  *)
WorkConserved ==
    cpc \in Running =>
        /\ \A p \in Paths :
              Cardinality(InTodo(p)) + InFlight(p) + Len(emitted[p])
                = IF p \in Discovered THEN 1 ELSE 0
        /\ active = Cardinality({p \in Paths : InFlight(p) # 0})

(* No attribute is reported twice, whatever fails, restarts or is          *)
(* cancelled while the run goes on or is torn down.                        *)
ReportedOnce == \A p \in Paths : Len(emitted[p]) <= 1

(* coordinate() answers Completed only when every attribute that the       *)
(* reported attribute sets contain has been reported too.                  *)
CompletedIsExhaustive ==
    result = "completed" => \A p \in Discovered : emitted[p] # <<>>

(* Where a worker can be, as the coordinator needs to know it. *)
Queued(w) == \E i \in DOMAIN idle : idle[i] = w
Reports(i, w) == results[i].type \in {"Ready", "Result"} /\ results[i].worker = w
Reporting(w) == \E i \in DOMAIN results : Reports(i, w)
Commanded(w) == work[w] # <<>>
Evaluating(w) == wpc[w] \in {"working", "sendResult"}
Starting(w) == wpc[w] = "sendReady" \/ (wpc[w] = "connect" /\ w \in Forked)

(* While coordinate() runs, a worker in the idle queue is there once, has  *)
(* no command waiting, is not evaluating, has no message on its way that   *)
(* would queue it again, and is not a forked worker that has yet to start. *)
(* Dispatch therefore never blocks on a full work channel and never sends  *)
(* work to a worker before it started.                                     *)
IdleWorkersWait ==
    cpc \in Running =>
        /\ \A i, j \in DOMAIN idle : idle[i] = idle[j] => i = j
        /\ \A w \in Workers :
              /\ \A i, j \in DOMAIN results : Reports(i, w) /\ Reports(j, w) => i = j
              /\ Queued(w) => ~Reporting(w)
              /\ Queued(w) \/ Reporting(w) => ~Commanded(w)
              /\ Queued(w) \/ Reporting(w) \/ Commanded(w) =>
                    ~Evaluating(w) /\ ~Starting(w)

(* The run never fails for its own bookkeeping: "stalled" and "all worker  *)
(* tasks exited" do not happen, a refused or broken-off worker is one that *)
(* really failed, a run that ends with an evaluator's fatal error got one, *)
(* and a run is cancelled only when cancellation was requested.            *)
FailureHasCause ==
    /\ result \notin {"stalled", "allExited"}
    /\ (result \in {"send", "worker"} \/ outcome = "worker") =>
          \E w \in Workers : wpc[w] \in {"failing", "exitedErr", "aborted"}
    /\ result = "fatal" => error = "fatal"
    /\ result = "completed" => error = "none"
    /\ result = "cancelled" => cancel

(* Without a worker that accepts its system, no derivation is reported;    *)
(* a run that met one ends with that error, and no other run does.         *)
UnownedNeverReported ==
    /\ \A p \in Paths :
          (~\E w \in Workers : worker_accepts_system(w, SystemOf[p]))
             => "derivation" \notin Range(emitted[p])
    /\ error = "unowned" <=> result = "unowned"

(* A worker never evaluates with an evaluator that failed, timed out or    *)
(* exited for a restart; skipping the reconnection after cancellation is   *)
(* safe because the flag is never cleared.                                 *)
EvaluatesWithLiveClient ==
    \A w \in Workers : wpc[w] = "working" => client[w] = "up"

(* A run that reports success or cancellation has no task left behind. *)
NoTaskLeftBehind ==
    outcome \in {"completed", "cancelled"} =>
        \A w \in Workers : wpc[w] \in EndedOk

(* The run returns: whatever fails, nobody waits for ever. *)
Returns == <>(outcome # "none")

(* Every worker task ends, the ones an early return detached included. *)
TasksEnd == \A w \in Workers : <>(wpc[w] \in Ended)

(* The run is a traversal of the attribute tree. *)
Abstract == INSTANCE Traversal WITH
    frontier <- Discovered \ {p \in Paths : emitted[p] # <<>>},
    visited <- {p \in Paths : emitted[p] # <<>>},
    requested <- cancel,
    status <- CASE outcome = "none" -> "running"
                [] outcome \in {"completed", "cancelled"} -> outcome
                [] OTHER -> "failed"

(* Whatever the number of workers and the order of their answers, the      *)
(* coordinator and its tasks implement the traversal.                      *)
ImplementsTraversal == Abstract!Spec

(* tests.rs, abort_workers_cancels_in_flight_worker_tasks: once            *)
(* abort_workers has returned, no task is evaluating any more.             *)
AbortCancelsInFlight ==
    result = "cancelled" /\ outcome # "none" => \A w \in Workers : wpc[w] # "working"

(* What the sink gets is right: each attribute once at most, all of them   *)
(* when the run completes, and none for a system that nobody accepts       *)
(* (coordinate, Scheduler::complete, event_disposition).                   *)
ReportsSound == ReportedOnce /\ CompletedIsExhaustive /\ UnownedNeverReported

(* run always returns, and every task it spawned ends, also one that was   *)
(* not aborted: no worker reconnects, sends or waits for ever.             *)
RunEnds == Returns /\ TasksEnd
==============================================================================
