------------------------------ MODULE Session ------------------------------
(***************************************************************************)
(* One evaluation session and the tasks that share its warm state:         *)
(* crates/evix/src/{session,watch,run}.rs.                                 *)
(*                                                                         *)
(* stream() and watch() each spawn a task, diff_once() runs in its caller; *)
(* they meet in the warm state (a lock held for one read or one write),    *)
(* the phase of the initial evaluation, the cancel flag and one Notify.    *)
(* An evaluation of the whole input is one step that ends it: Scheduler    *)
(* has its inside.  A graph is the version of the inputs it was evaluated  *)
(* from, and a diff the pair of graphs it was computed from.               *)
(*                                                                         *)
(* A definition Name_Fault is the definition Name with one plausible       *)
(* mistake; it is used by no behaviour.                                    *)
(***************************************************************************)
EXTENDS Integers, Sequences, FiniteSets

CONSTANTS
    Streams,      \* calls of stream() or stream_bounded()
    Watches,      \* calls of watch() or watch_bounded()
    Diffs,        \* calls of diff_once()
    MaxVersion,   \* bound: the inputs are edited MaxVersion - 1 times
    Capacity,     \* items the result channel of a task holds
    NoRuntime     \* stream() and watch() may be called outside a runtime

Tasks == Streams \union Watches \union Diffs
Versions == 1..MaxVersion

ASSUME SessionAssumption ==
    /\ MaxVersion \in Nat \ {0}
    /\ Capacity \in Nat \ {0}
    /\ NoRuntime \in BOOLEAN
    /\ Streams \intersect Watches = {} /\ Diffs \intersect (Streams \union Watches) = {}

VARIABLES
    inputs,    \* the current version of the evaluated files
    cancel,    \* Session.cancel
    warm,      \* Session.state: [graph, completed, error]
    initial,   \* Session.initial
    waiters,   \* Notified futures registered with Session.completed
    pc,        \* where each task is
    base,      \* the graph a re-evaluation is to be compared with
    began,     \* the version of the inputs when a task's evaluation started
    error,     \* the error an initial evaluation ended with
    item,      \* what a watch task is about to send
    fs,        \* filesystem notifications a watch task has not read
    out,       \* the result channel of each task
    open,      \* the receiver of that channel exists
    last,      \* the last item a task put into its channel
    replaced   \* the graph each task last overwrote in the warm state

vars == <<inputs, cancel, warm, initial, waiters, pc, base, began, error, item, fs, out, open,
          last, replaced>>
channelVars == <<out, open, last>>

Empty == 0       \* WarmState::default().graph
Partial == -1    \* the graph of an evaluation that was cut short

Item(kind, from, to) == [kind |-> kind, from |-> from, to |-> to]
Event == Item("event", Empty, Empty)
Err == Item("err", Empty, Empty)
Nothing == Item("none", Empty, Empty)
Diff(from, to) == Item("diff", from, to)

(* A task is running the initial evaluation, or has not finished its
   bookkeeping. *)
InitialStates == {"eval", "emit", "completed", "record", "finish"}

(* The watch loop has its filesystem watcher installed. *)
LoopStates == {"loop", "recv", "debounce", "snapshot", "reeval", "deliver"}

Init ==
    /\ inputs = 1
    /\ cancel = FALSE
    /\ warm = [graph |-> Empty, completed |-> FALSE, error |-> "none"]
    /\ initial = "Idle"
    /\ waiters = {}
    /\ pc = [t \in Tasks |-> "idle"]
    /\ base = [t \in Tasks |-> Empty]
    /\ began = [t \in Tasks |-> 1]
    /\ error = [t \in Tasks |-> "none"]
    /\ item = [t \in Tasks |-> Nothing]
    /\ fs = [t \in Watches |-> <<>>]
    /\ out = [t \in Tasks |-> <<>>]
    /\ open = [t \in Tasks |-> TRUE]
    /\ last = [t \in Tasks |-> Nothing]
    /\ replaced = [t \in Tasks |-> Empty]

Goto(t, l) == pc' = [pc EXCEPT ![t] = l]

(* Notify::notify_waiters wakes every future that exists. *)
notify_waiters == waiters' = {}

(* A send waits while the receiver exists and the channel is full. *)
MaySend(t) == open[t] => Len(out[t]) < Capacity

(* The item is queued, or lost with a receiver that is gone. *)
Put(t, i) ==
    /\ MaySend(t)
    /\ out' = IF open[t] THEN [out EXCEPT ![t] = Append(@, i)] ELSE out
    /\ last' = IF open[t] THEN [last EXCEPT ![t] = i] ELSE last
    /\ open' = open

(* The local variables of an evaluation go out of scope with it. *)
Drop(t) == base' = [base EXCEPT ![t] = Empty] /\ began' = [began EXCEPT ![t] = 1]

(* A finished evaluation replaces graph, errors, completed and error. *)
StoreGraph(t, graph) ==
    /\ warm' = [graph |-> graph, completed |-> TRUE, error |-> "none"]
    /\ replaced' = [replaced EXCEPT ![t] = warm.graph]

---------------------------------------------------------------------------
(* Calls.                                                                   *)

(* start_initial_evaluation and the task it allows, or the error of a stream
   that is already consumed. *)
CallStream(t) ==
    /\ pc[t] = "idle"
    /\ \/ /\ initial = "Idle"
          /\ initial' = "Running"
          /\ Goto(t, "eval")
          /\ began' = [began EXCEPT ![t] = inputs]
          /\ UNCHANGED channelVars
       \/ /\ initial # "Idle"
          /\ Put(t, Err)
          /\ Goto(t, "done")
          /\ UNCHANGED <<initial, began>>
    /\ UNCHANGED <<inputs, cancel, warm, waiters, base, error, item, fs, replaced>>

(* A watch evaluates first when nobody has, and otherwise waits. *)
CallWatch(t) ==
    /\ pc[t] = "idle"
    /\ initial' = IF initial = "Idle" THEN "Running" ELSE initial
    /\ Goto(t, IF initial = "Idle" THEN "eval" ELSE "wait")
    /\ began' = IF initial = "Idle" THEN [began EXCEPT ![t] = inputs] ELSE began
    /\ UNCHANGED <<inputs, cancel, warm, waiters, base, error, item, fs, replaced, channelVars>>

CallDiff_Fault(t) ==
    /\ pc[t] = "idle"
    /\ base' = [base EXCEPT ![t] = warm.graph]
    /\ began' = [began EXCEPT ![t] = inputs]
    /\ Goto(t, "reeval")
    /\ UNCHANGED <<inputs, cancel, warm, initial, waiters, error, item, fs, replaced, channelVars>>

(* diff_once refuses before the initial evaluation has completed, and
   otherwise keeps a clone of the graph to compare with. *)
CallDiff(t) ==
    /\ pc[t] = "idle"
    /\ IF warm.completed
       THEN /\ base' = [base EXCEPT ![t] = warm.graph]
            /\ began' = [began EXCEPT ![t] = inputs]
            /\ Goto(t, "reeval")
       ELSE /\ Goto(t, "done")
            /\ UNCHANGED <<base, began>>
    /\ UNCHANGED <<inputs, cancel, warm, initial, waiters, error, item, fs, replaced, channelVars>>

(* Outside a runtime the task is never spawned: the failure is stored unless
   the lock is busy at that moment, and the initial evaluation is declared
   finished whoever runs it. *)
SpawnFails(t) ==
    /\ NoRuntime
    /\ pc[t] = "idle"
    /\ t \in Watches \/ (t \in Streams /\ initial = "Idle")
    /\ \/ warm' = [warm EXCEPT !.error = "no runtime"]
       \/ warm' = warm
    /\ initial' = "Finished"
    /\ notify_waiters
    /\ Put(t, Err)
    /\ Goto(t, "unspawned")
    /\ UNCHANGED <<inputs, cancel, base, began, error, item, fs, replaced>>

(* Session::cancel, also called when the session is dropped. *)
Cancel ==
    /\ ~cancel
    /\ cancel' = TRUE
    /\ notify_waiters
    /\ UNCHANGED <<inputs, warm, initial, pc, base, began, error, item, fs, replaced,
                   channelVars>>

---------------------------------------------------------------------------
(* The initial evaluation of a stream or watch task.                        *)

(* The evaluation produces an event: a stream passes it on. *)
EmitEvent(t) ==
    /\ pc[t] = "eval" /\ t \in Streams
    /\ Goto(t, "emit")
    /\ UNCHANGED <<inputs, cancel, warm, initial, waiters, base, began, error, item, fs, replaced,
                   channelVars>>

(* on_event waits for room; a receiver that is gone fails the evaluation. *)
SendEvent(t) ==
    /\ pc[t] = "emit"
    /\ Put(t, Event)
    /\ IF open[t]
       THEN /\ Goto(t, "eval")
            /\ UNCHANGED <<warm, waiters, error>>
       ELSE /\ warm' = [warm EXCEPT !.error = "failed"]
            /\ notify_waiters
            /\ error' = [error EXCEPT ![t] = "failed"]
            /\ Goto(t, "record")
    /\ UNCHANGED <<inputs, cancel, initial, base, began, item, fs, replaced>>

EvalCompletes_Fault(t) ==
    /\ pc[t] = "eval"
    /\ \E v \in began[t]..inputs : StoreGraph(t, v)
    /\ Goto(t, "completed")
    /\ Drop(t)
    /\ UNCHANGED <<inputs, cancel, initial, waiters, error, item, fs, channelVars>>

(* The whole graph becomes the warm one, and those who wait are told. *)
EvalCompletes(t) ==
    /\ pc[t] = "eval"
    /\ \E v \in began[t]..inputs : StoreGraph(t, v)
    /\ notify_waiters
    /\ Goto(t, "completed")
    /\ Drop(t)
    /\ UNCHANGED <<inputs, cancel, initial, error, item, fs, channelVars>>

(* The graph of a cancelled evaluation is partial and is dropped. *)
EvalCancelled(t) ==
    /\ pc[t] = "eval" /\ cancel
    /\ notify_waiters
    /\ error' = [error EXCEPT ![t] = "cancelled"]
    /\ Goto(t, "record")
    /\ Drop(t)
    /\ UNCHANGED <<inputs, cancel, warm, initial, item, fs, replaced, channelVars>>

EvalFails(t) ==
    /\ pc[t] = "eval"
    /\ warm' = [warm EXCEPT !.error = "failed"]
    /\ notify_waiters
    /\ error' = [error EXCEPT ![t] = "failed"]
    /\ Goto(t, "record")
    /\ Drop(t)
    /\ UNCHANGED <<inputs, cancel, initial, item, fs, replaced, channelVars>>

(* record_initial_error, up to its last line. *)
RecordError(t) ==
    /\ pc[t] = "record"
    /\ warm' = [warm EXCEPT !.error = error[t]]
    /\ notify_waiters
    /\ Goto(t, "finish")
    /\ UNCHANGED <<inputs, cancel, initial, base, began, error, item, fs, replaced, channelVars>>

FinishFailed_Fault(t) ==
    /\ pc[t] = "finish"
    /\ initial' = "Finished"
    /\ Goto(t, IF t \in Streams /\ error[t] = "cancelled" THEN "done" ELSE "report")
    /\ UNCHANGED <<inputs, cancel, warm, waiters, base, began, error, item, fs, replaced,
                   channelVars>>

(* finish_initial_evaluation after a failure; the error item comes next. *)
FinishFailed(t) ==
    /\ pc[t] = "finish"
    /\ initial' = "Finished"
    /\ Goto(t, "report")
    /\ UNCHANGED <<inputs, cancel, warm, waiters, base, began, error, item, fs, replaced,
                   channelVars>>

(* finish_initial_evaluation after success: a stream is over, a watch goes on
   to its loop. *)
FinishCompleted(t) ==
    /\ pc[t] = "completed"
    /\ initial' = "Finished"
    /\ Goto(t, IF t \in Streams THEN "done" ELSE "wait")
    /\ UNCHANGED <<inputs, cancel, warm, waiters, base, began, error, item, fs, replaced,
                   channelVars>>

(* The error that ends the task's stream. *)
ReportError(t) ==
    /\ pc[t] = "report"
    /\ Put(t, Err)
    /\ Goto(t, "done")
    /\ UNCHANGED <<inputs, cancel, warm, initial, waiters, base, began, error, item, fs, replaced>>

---------------------------------------------------------------------------
(* wait_for_initial_evaluation.                                             *)

WaitCheck(t) ==
    /\ pc[t] = "wait"
    /\ Goto(t, IF cancel THEN "report" ELSE "register")
    /\ UNCHANGED <<inputs, cancel, warm, initial, waiters, base, began, error, item, fs, replaced,
                   channelVars>>

WaitRegister(t) ==
    /\ pc[t] = "register"
    /\ waiters' = waiters \union {t}
    /\ Goto(t, "read")
    /\ UNCHANGED <<inputs, cancel, warm, initial, base, began, error, item, fs, replaced,
                   channelVars>>

(* The state is read with the future registered, so that a notification after
   the read is not missed; returning drops the future. *)
WaitRead(t) ==
    /\ pc[t] = "read"
    /\ \/ /\ warm.completed
          /\ Goto(t, "setup")
          /\ waiters' = waiters \ {t}
       \/ /\ ~warm.completed /\ warm.error # "none"
          /\ Goto(t, "report")
          /\ waiters' = waiters \ {t}
       \/ /\ ~warm.completed /\ warm.error = "none"
          /\ Goto(t, "sleep")
          /\ waiters' = waiters
    /\ UNCHANGED <<inputs, cancel, warm, initial, base, began, error, item, fs, replaced,
                   channelVars>>

Wake(t) ==
    /\ pc[t] = "sleep" /\ t \notin waiters
    /\ Goto(t, "wait")
    /\ UNCHANGED <<inputs, cancel, warm, initial, waiters, base, began, error, item, fs, replaced,
                   channelVars>>

---------------------------------------------------------------------------
(* watch_loop_with_sender.                                                  *)

(* The watched paths are worked out and the watcher installed, or the task
   reports why that cannot be done. *)
Setup(t) ==
    /\ pc[t] = "setup"
    /\ \/ Goto(t, "loop")
       \/ Goto(t, "report")
    /\ UNCHANGED <<inputs, cancel, warm, initial, waiters, base, began, error, item, fs, replaced,
                   channelVars>>

LoopCheck_Fault(t) ==
    /\ pc[t] = "loop"
    /\ Goto(t, "recv")
    /\ UNCHANGED <<inputs, cancel, warm, initial, waiters, base, began, error, item, fs, replaced,
                   channelVars>>

(* The loop looks at the cancel flag between two waits of 200 ms. *)
LoopCheck(t) ==
    /\ pc[t] = "loop"
    /\ Goto(t, IF cancel THEN "done" ELSE "recv")
    /\ UNCHANGED <<inputs, cancel, warm, initial, waiters, base, began, error, item, fs, replaced,
                   channelVars>>

RecvTimeout(t) ==
    /\ pc[t] = "recv" /\ fs[t] = <<>>
    /\ Goto(t, "loop")
    /\ UNCHANGED <<inputs, cancel, warm, initial, waiters, base, began, error, item, fs, replaced,
                   channelVars>>

(* A notification: a change is debounced, an error of the watcher is sent on. *)
LoopEvent(t) ==
    /\ pc[t] = "recv" /\ fs[t] # <<>>
    /\ fs' = [fs EXCEPT ![t] = Tail(@)]
    /\ IF Head(fs[t]) = "change"
       THEN Goto(t, "debounce") /\ UNCHANGED item
       ELSE Goto(t, "deliver") /\ item' = [item EXCEPT ![t] = Err]
    /\ UNCHANGED <<inputs, cancel, warm, initial, waiters, base, began, error, replaced,
                   channelVars>>

(* debounce_watch_events drops what arrived within 100 ms. *)
Debounce(t) ==
    /\ pc[t] = "debounce"
    /\ fs' = [fs EXCEPT ![t] = <<>>]
    /\ Goto(t, "snapshot")
    /\ UNCHANGED <<inputs, cancel, warm, initial, waiters, base, began, error, item, replaced,
                   channelVars>>

Snapshot_Fault(t) ==
    /\ pc[t] = "snapshot"
    /\ base' = [base EXCEPT ![t] = IF last[t].kind = "diff" THEN last[t].from ELSE warm.graph]
    /\ began' = [began EXCEPT ![t] = inputs]
    /\ Goto(t, "reeval")
    /\ UNCHANGED <<inputs, cancel, warm, initial, waiters, error, item, fs, replaced, channelVars>>

(* The graph to compare with is cloned and the evaluation starts. *)
Snapshot(t) ==
    /\ pc[t] = "snapshot"
    /\ base' = [base EXCEPT ![t] = warm.graph]
    /\ began' = [began EXCEPT ![t] = inputs]
    /\ Goto(t, "reeval")
    /\ UNCHANGED <<inputs, cancel, warm, initial, waiters, error, item, fs, replaced, channelVars>>

(* The notifications of the edits made during the evaluation are dropped too. *)
ReevalCompletes_Fault(t) ==
    /\ pc[t] = "reeval"
    /\ \E v \in began[t]..inputs :
         /\ StoreGraph(t, v)
         /\ item' = [item EXCEPT ![t] = Diff(base[t], v)]
    /\ fs' = IF t \in Watches THEN [fs EXCEPT ![t] = <<>>] ELSE fs
    /\ Goto(t, IF t \in Watches THEN "deliver" ELSE "done")
    /\ Drop(t)
    /\ UNCHANGED <<inputs, cancel, initial, waiters, error, channelVars>>

(* diff_once and apply_watch_evaluation_result: the new graph replaces the
   warm one, whatever that is by now, and the diff is against the clone. *)
ReevalCompletes(t) ==
    /\ pc[t] = "reeval"
    /\ \E v \in began[t]..inputs :
         /\ StoreGraph(t, v)
         /\ item' = [item EXCEPT ![t] = Diff(base[t], v)]
    /\ Goto(t, IF t \in Watches THEN "deliver" ELSE "done")
    /\ Drop(t)
    /\ UNCHANGED <<inputs, cancel, initial, waiters, error, fs, channelVars>>

(* A cancelled re-evaluation stops the watch, or fails diff_once. *)
ReevalCancelled(t) ==
    /\ pc[t] = "reeval" /\ cancel
    /\ Goto(t, "done")
    /\ Drop(t)
    /\ UNCHANGED <<inputs, cancel, warm, initial, waiters, error, item, fs, replaced,
                   channelVars>>

(* A failed re-evaluation leaves the warm state alone; a watch sends the error
   and goes on. *)
ReevalFails(t) ==
    /\ pc[t] = "reeval"
    /\ item' = [item EXCEPT ![t] = Err]
    /\ Goto(t, IF t \in Watches THEN "deliver" ELSE "done")
    /\ Drop(t)
    /\ UNCHANGED <<inputs, cancel, warm, initial, waiters, error, fs, replaced,
                   channelVars>>

(* WatchSender::send waits for room; the watch ends when nobody listens. *)
Deliver(t) ==
    /\ pc[t] = "deliver"
    /\ Put(t, item[t])
    /\ Goto(t, IF open[t] THEN "loop" ELSE "done")
    /\ item' = [item EXCEPT ![t] = Nothing]
    /\ UNCHANGED <<inputs, cancel, warm, initial, waiters, base, began, error, fs, replaced>>

---------------------------------------------------------------------------
(* The environment: the files, the watcher and the receivers.               *)

(* An edit notifies the watchers that are installed. *)
Edit ==
    /\ inputs < MaxVersion
    /\ inputs' = inputs + 1
    /\ fs' = [t \in Watches |-> IF pc[t] \in LoopStates THEN Append(fs[t], "change") ELSE fs[t]]
    /\ UNCHANGED <<cancel, warm, initial, waiters, pc, base, began, error, item, replaced,
                   channelVars>>

(* The watcher fails, or notifies without a change of what is evaluated: one
   edit gives several notifications, and a file may just be touched.  One that
   comes earlier is read at the next "recv" or dropped by the debounce, so it
   is enough to let it come at "recv". *)
WatcherNotifies(t) ==
    /\ t \in Watches /\ pc[t] = "recv" /\ fs[t] = <<>>
    /\ \E what \in {"error", "change"} : fs' = [fs EXCEPT ![t] = <<what>>]
    /\ UNCHANGED <<inputs, cancel, warm, initial, waiters, pc, base, began, error, item, replaced,
                   channelVars>>

Consume(t) ==
    /\ open[t] /\ out[t] # <<>>
    /\ out' = [out EXCEPT ![t] = Tail(@)]
    /\ UNCHANGED <<inputs, cancel, warm, initial, waiters, pc, base, began, error, item, fs,
                   replaced, open, last>>

DropReceiver(t) ==
    /\ open[t] /\ pc[t] # "idle" /\ t \notin Diffs
    /\ open' = [open EXCEPT ![t] = FALSE]
    /\ out' = [out EXCEPT ![t] = <<>>]
    /\ UNCHANGED <<inputs, cancel, warm, initial, waiters, pc, base, began, error, item, fs,
                   replaced, last>>

---------------------------------------------------------------------------

(* The steps a spawned task takes by itself. *)
TaskStep(t) ==
    \/ EmitEvent(t) \/ SendEvent(t)
    \/ EvalCompletes(t) \/ EvalCancelled(t) \/ EvalFails(t)
    \/ RecordError(t) \/ FinishFailed(t) \/ FinishCompleted(t) \/ ReportError(t)
    \/ WaitCheck(t) \/ WaitRegister(t) \/ WaitRead(t) \/ Wake(t)
    \/ Setup(t) \/ LoopCheck(t) \/ RecvTimeout(t) \/ LoopEvent(t) \/ Debounce(t) \/ Snapshot(t)
    \/ ReevalCompletes(t) \/ ReevalCancelled(t) \/ ReevalFails(t) \/ Deliver(t)

Next ==
    \/ \E t \in Streams : CallStream(t)
    \/ \E t \in Watches : CallWatch(t)
    \/ \E t \in Diffs : CallDiff(t)
    \/ \E t \in Tasks : SpawnFails(t) \/ TaskStep(t) \/ Consume(t) \/ DropReceiver(t)
    \/ \E t \in Watches : WatcherNotifies(t)
    \/ Cancel \/ Edit

Spec == Init /\ [][Next]_vars

(* An evaluation ends: Scheduler shows that for a cancelled one and for one
   whose workers answer. *)
EvaluationEnds(t) ==
    EvalCompletes(t) \/ EvalCancelled(t) \/ EvalFails(t)
    \/ ReevalCompletes(t) \/ ReevalCancelled(t) \/ ReevalFails(t)

(* The runtime polls every task, evaluations end, and a receiver that exists
   keeps being read.  Nothing is asked of the callers of diff_once. *)
Fairness ==
    \A t \in Streams \union Watches :
        WF_vars(TaskStep(t)) /\ SF_vars(EvaluationEnds(t)) /\ WF_vars(Consume(t))

LiveSpec == Spec /\ Fairness

---------------------------------------------------------------------------
(* Properties.                                                              *)

Graphs == {Empty, Partial} \union Versions
Items == [kind : {"none", "event", "err", "diff"}, from : Graphs, to : Graphs]

Pcs == InitialStates \union LoopStates \union
       {"idle", "report", "wait", "register", "read", "sleep", "setup", "done", "unspawned"}

(* Every variable has its type. *)
TypeOK ==
    /\ inputs \in Versions
    /\ cancel \in BOOLEAN
    /\ warm \in [graph : Graphs, completed : BOOLEAN,
                 error : {"none", "failed", "cancelled", "no runtime"}]
    /\ initial \in {"Idle", "Running", "Finished"}
    /\ waiters \subseteq Watches
    /\ pc \in [Tasks -> Pcs]
    /\ base \in [Tasks -> Graphs] /\ replaced \in [Tasks -> Graphs]
    /\ began \in [Tasks -> Versions]
    /\ error \in [Tasks -> {"none", "failed", "cancelled"}]
    /\ item \in [Tasks -> Items] /\ last \in [Tasks -> Items]
    /\ DOMAIN fs = Watches
    /\ \A t \in Tasks : Len(out[t]) <= Capacity

(* What query_snapshot answers. *)
QueryAnswer ==
    IF warm.completed THEN "graph" ELSE IF warm.error # "none" THEN "failed" ELSE "incomplete"

(* A query is only ever answered from the graph of a whole evaluation: neither
   a cancelled initial evaluation nor a diff_once that came too early leaves a
   truncated or empty graph marked completed (evaluate_initial, diff_once). *)
WholeGraphs ==
    /\ QueryAnswer = "graph" => warm.graph \in Versions
    /\ \A t \in Tasks : item[t].kind = "diff" => item[t].from \in Versions

(* No call was made from outside a runtime. *)
CalledInRuntime == \A t \in Tasks : pc[t] # "unspawned"

(* Once the initial evaluation is declared finished without having completed,
   its failure is stored, so that a watch that waits for it and later calls of
   stream, query and diff_once learn of it (record_initial_error).  A call
   from outside a runtime stores its failure only if it gets the lock. *)
FinishedIsExplained ==
    initial = "Finished" /\ CalledInRuntime => QueryAnswer # "incomplete"

(* A stream that ends without an error item is the stream of an evaluation that
   completed: the consumers take the end of the stream for success. *)
StreamEndHonest ==
    \A t \in Streams : pc[t] \in {"done", "unspawned"} /\ open[t] /\ last[t].kind # "err" => warm.completed

(* Only one initial evaluation ever runs, and a waiting watch is one of the
   tasks that did not start it. *)
InitialOnce ==
    /\ Cardinality({t \in Tasks : pc[t] \in InitialStates}) <= 1
    /\ initial = "Idle" => \A t \in Streams \union Watches : pc[t] = "idle"

(* No other task has replaced a completed graph. *)
OnlyWriter(t) == \A u \in Tasks \ {t} : replaced[u] = Empty

(* While no diff_once and no other watch has written the warm graph too, the
   diffs the receiver of a watch gets chain: each starts from the graph the one
   before it ended with. *)
DeliveredChain ==
    \A t \in Watches : OnlyWriter(t) =>
        (pc[t] = "reeval" /\ last[t].kind = "diff" => base[t] = last[t].to)

(* A diff is made against the graph it replaces (session.rs: "diffs it against
   the previous warm graph"). *)
DiffAgainstWarm ==
    \A t \in Tasks : item[t].kind = "diff" => replaced[t] = item[t].from

(* No wakeup is lost: a watch that sleeps until the initial evaluation is over
   wakes up when it is, even if that happened while it was about to sleep. *)
WaitersWake ==
    \A t \in Watches : pc[t] = "sleep" /\ QueryAnswer # "incomplete" ~> pc[t] # "sleep"

(* Every task of a cancelled session ends.  (A watch can miss the cancellation
   and then wait for an evaluation that a call from outside a runtime has
   declared finished.) *)
CancelReleases ==
    \A t \in Streams \union Watches :
        cancel /\ pc[t] # "idle" ~> pc[t] = "done" \/ ~CalledInRuntime

(* An edit that the watcher notified, whatever the loop was doing then, is not
   forgotten: the warm graph gets as new as the edit, unless the evaluation that
   follows the notification fails, which the receiver is then told, or the watch
   ends.  In particular the debouncing drops no notification of an edit that the
   evaluation after it does not read. *)
WatchCatchesUp ==
    \A t \in Watches : \A v \in Versions :
        /\ inputs = v
        /\ pc[t] \in LoopStates
        /\ \E i \in DOMAIN fs[t] : fs[t][i] = "change"
        ~> \/ warm.graph >= v
           \/ pc[t] = "deliver" /\ item[t].kind = "err" /\ fs[t] = <<>>
           \/ pc[t] = "done"

(* The warm state: types, one initial evaluation at most, and answers only from
   the graph of a whole evaluation (start_initial_evaluation, evaluate_initial,
   diff_once). *)
SessionSound == TypeOK /\ InitialOnce /\ WholeGraphs

(* An initial evaluation that does not complete is told to whoever asks later
   and to the reader of its stream (record_initial_error, stream). *)
FailureIsTold == FinishedIsExplained /\ StreamEndHonest
============================================================================
