--------------------------- MODULE SchedulerProofs ---------------------------
(***************************************************************************)
(* Theorems about the Scheduler for every number of workers and every      *)
(* attribute tree: types, the idle queue, evaluators and teardown; then    *)
(* conservation of work, and what follows from it: what is reported, why a *)
(* run fails, and that it implements Traversal.                            *)
(***************************************************************************)
EXTENDS Scheduler, FiniteSetTheorems, TLAPS

(* There is always a worker, and the forked ones are local ones. *)
LEMMA WorkersExist == NLocal \in Nat /\ N \in Nat /\ N >= 1
BY ConstantsAssumption DEF NLocal, N

(* The workers that start idle are workers. *)
LEMMA InitialIdleType == InitialIdle \in Seq(Workers)
<1>1. CASE NLocal = 0
  BY <1>1, WorkersExist DEF InitialIdle, Workers
<1>2. CASE NLocal # 0
  <2>1. \A i \in 1..(RemoteWorkers + 1) :
           (IF i = 1 THEN 1 ELSE NLocal + i - 1) \in Workers
    BY <1>2, WorkersExist, ConstantsAssumption DEF Workers, N
  <2>2. InitialIdle \in [1..(RemoteWorkers + 1) -> Workers]
    BY <1>2, <2>1 DEF InitialIdle
  <2> QED BY <2>2, ConstantsAssumption, RemoteWorkers + 1 \in Nat
<1> QED BY <1>1, <1>2

LEMMA InitType == Init => TypeOK
<1> SUFFICES ASSUME Init PROVE TypeOK
  OBVIOUS
<1> USE DEF Init
<1>1. CoordinatorTypes
  <2>1. idle \in Seq(Workers)
    BY InitialIdleType
  <2>2. todo \in Seq(Paths)
    BY ConstantsAssumption
  <2>3. emitted \in [Paths -> Seq(Events)]
    OBVIOUS
  <2> QED BY <2>1, <2>2, <2>3 DEF CoordinatorTypes, Running, Teardown
<1>2. ChannelTypes
  <2>1. results \in Seq(Messages) /\ Len(results) <= N
    BY WorkersExist
  <2> QED BY <2>1 DEF ChannelTypes
<1>3. WorkerTypes
  BY DEF WorkerTypes, WorkerPcs
<1>4. cancel \in BOOLEAN
  OBVIOUS
<1> QED BY <1>1, <1>2, <1>3, <1>4 DEF TypeOK

(* Leaving the coordination loop. *)
LEMMA LeaveTypes ==
  ASSUME NEW r \in {"none", "completed", "cancelled"} \union Errors, Leave(r)
  PROVE  /\ cpc' \in Teardown /\ cursor' \in Workers /\ cursor' \in Nat
         /\ results' \in Seq(Messages) /\ Len(results') <= N
         /\ result' \in {"none", "completed", "cancelled"} \union Errors
         /\ outcome' = outcome
BY WorkersExist DEF Leave, Workers, Teardown

(* Taking the first element of a queue, and adding one at the end. *)
LEMMA HeadTailType ==
  ASSUME NEW S, NEW s \in Seq(S), s # <<>>
  PROVE  /\ Len(s) \in Nat \ {0} /\ Head(s) \in S /\ Head(s) = s[1]
         /\ Tail(s) \in Seq(S) /\ Len(Tail(s)) = Len(s) - 1
         /\ \A i \in 1..Len(Tail(s)) : Tail(s)[i] = s[i + 1]
OBVIOUS

LEMMA AppendType ==
  ASSUME NEW S, NEW s \in Seq(S), NEW e \in S
  PROVE  /\ Append(s, e) \in Seq(S) /\ Len(Append(s, e)) = Len(s) + 1
         /\ \A i \in 1..Len(s) : Append(s, e)[i] = s[i]
         /\ Append(s, e)[Len(s) + 1] = e
OBVIOUS

(* What the messages at the head of the result channel carry. *)
LEMMA ReceivedTypes ==
  ASSUME TypeOK
  PROVE  /\ Received \in {"Ready", "Result", "Cancelled", "Exited"} => results # <<>>
         /\ Received = "Ready" => Head(results).worker \in Workers
         /\ Received = "Result" => /\ Head(results).worker \in Workers
                                  /\ Head(results).item \in Paths
                                  /\ Head(results).event \in Events \union {"failed"}
<1>1. results \in Seq(Messages)
  BY DEF TypeOK, ChannelTypes
<1>2. CASE results = <<>>
  BY <1>2 DEF Received
<1>3. CASE results # <<>>
  <2>1. Head(results) \in Messages
    BY <1>1, <1>3, HeadTailType
  <2>2. Received = Head(results).type
    BY <1>3 DEF Received
  <2> QED BY <1>3, <2>1, <2>2 DEF Messages
<1> QED BY <1>2, <1>3

(* No operation of the coordinator but aborting touches a worker task, and *)
(* none touches cancel.                                                    *)
LEMMA CoordinatorKeepsWorkers ==
  ASSUME TypeOK, Coordinator PROVE WorkerTypes' /\ cancel' \in BOOLEAN
<1>t. CoordinatorTypes /\ WorkerTypes /\ cancel \in BOOLEAN
  BY DEF TypeOK
<1>1. UNCHANGED cancel
  BY DEF Coordinator, ObserveCancel, BeginDispatch, DispatchWork, DispatchWait,
     DispatchEnd, AfterDispatch, ReceiveReady, ReceiveEnd, ReceiveResult, SinkAccepts,
     SinkFails, StopWorker, JoinWorker, AbortWorker
<1>2. CASE AbortWorker
  BY <1>t, <1>2 DEF AbortWorker, WorkerTypes, WorkerPcs, Ended, EndedOk, CoordinatorTypes,
     Teardown
<1>3. CASE ~AbortWorker
  <2>1. UNCHANGED workerVars
    BY <1>3 DEF Coordinator, ObserveCancel, BeginDispatch, DispatchWork, DispatchWait,
       DispatchEnd, AfterDispatch, ReceiveReady, ReceiveEnd, ReceiveResult, SinkAccepts,
       SinkFails, StopWorker, JoinWorker
  <2> QED BY <1>t, <1>1, <2>1 DEF WorkerTypes, workerVars
<1>4. WorkerTypes'
  BY <1>2, <1>3
<1>5. cancel' \in BOOLEAN
  BY <1>t, <1>1
<1> QED BY <1>4, <1>5

(* Each operation of the coordinator keeps the types. *)
LEMMA CoordinatorKeepsTypes ==
  ASSUME TypeOK, Coordinator PROVE TypeOK'
<1>t. CoordinatorTypes /\ ChannelTypes
  BY DEF TypeOK
<1> SUFFICES CoordinatorTypes' /\ ChannelTypes'
  BY CoordinatorKeepsWorkers DEF TypeOK
<1>1. CASE ObserveCancel
  BY <1>t, <1>1, LeaveTypes, WorkersExist DEF ObserveCancel, CoordinatorTypes,
     ChannelTypes, Running, Teardown, Errors
<1>2. CASE BeginDispatch
  BY <1>t, <1>2, LeaveTypes, WorkersExist DEF BeginDispatch, CoordinatorTypes,
     ChannelTypes, Running, Teardown, Errors
<1>3. CASE DispatchWork
  <2>1. /\ idle # <<>> /\ todo # <<>> /\ Len(idle) \in Nat
    BY <1>t, <1>3 DEF DispatchWork, CoordinatorTypes, next_for
  <2>2. /\ Head(idle) \in Workers /\ Tail(idle) \in Seq(Workers)
        /\ Len(Tail(idle)) = Len(idle) - 1
        /\ Head(todo) \in Paths /\ Tail(todo) \in Seq(Paths)
    BY <1>t, <2>1, HeadTailType DEF CoordinatorTypes
  <2>3. CASE WorkRxOpen(Head(idle))
    <3>1. <<[type |-> "Work", item |-> Head(todo)]>> \in Seq(Commands)
      BY <2>2 DEF Commands
    <3>2. ChannelTypes'
      <4> DEFINE h == Head(idle)
                 c == <<[type |-> "Work", item |-> Head(todo)]>>
      <4>1. work' = [work EXCEPT ![h] = c] /\ UNCHANGED results
        BY <1>3, <2>3 DEF DispatchWork
      <4>2. Len(c) <= 1 /\ c \in Seq(Commands) /\ h \in Workers
        BY <2>2, <3>1
      <4> HIDE DEF h, c
      <4>3. work' \in [Workers -> Seq(Commands)]
        BY <1>t, <4>1, <4>2 DEF ChannelTypes
      <4>4. ASSUME NEW v \in Workers PROVE Len(work'[v]) <= 1
        <5>1. CASE v = h
          <6>1. work'[v] = c
            BY <1>t, <4>1, <4>2, <5>1 DEF ChannelTypes
          <6> QED BY <4>2, <6>1, Zenon
        <5>2. CASE v # h
          <6>1. work'[v] = work[v]
            BY <1>t, <4>1, <4>2, <5>2 DEF ChannelTypes
          <6> QED BY <1>t, <6>1 DEF ChannelTypes
        <5> QED BY <5>1, <5>2
      <4> QED BY <1>t, <4>1, <4>3, <4>4 DEF ChannelTypes
    <3>3. CoordinatorTypes'
      BY <1>t, <1>3, <2>2, <2>3 DEF DispatchWork, CoordinatorTypes, Running, Teardown
    <3> QED BY <3>2, <3>3
  <2>4. CASE ~WorkRxOpen(Head(idle))
    BY <1>t, <1>3, <2>2, <2>4, LeaveTypes DEF DispatchWork, CoordinatorTypes, ChannelTypes,
       Running, Teardown, Errors
  <2> QED BY <2>3, <2>4
<1>4. CASE DispatchWait
  <2>1. idle # <<>> /\ Len(idle) \in Nat
    BY <1>t, <1>4 DEF DispatchWait, CoordinatorTypes
  <2>2. /\ Append(Tail(idle), Head(idle)) \in Seq(Workers)
        /\ Len(Append(Tail(idle), Head(idle))) = Len(idle)
    BY <1>t, <2>1, HeadTailType, AppendType DEF CoordinatorTypes
  <2> QED
    BY <1>t, <1>4, <2>1, <2>2 DEF DispatchWait, CoordinatorTypes, ChannelTypes, Running,
       Teardown
<1>5. CASE DispatchEnd
  <2>1. idle # <<>>
    BY <1>t, <1>5 DEF DispatchEnd, CoordinatorTypes
  <2>2. Tail(idle) \in Seq(Workers)
    BY <1>t, <2>1, HeadTailType DEF CoordinatorTypes
  <2>3. (IF next_for = "Done" THEN "completed" ELSE error)
          \in {"none", "completed", "cancelled"} \union Errors
    BY <1>t DEF CoordinatorTypes, Errors
  <2> QED
    BY <1>t, <1>5, <2>2, <2>3, LeaveTypes DEF DispatchEnd, CoordinatorTypes, ChannelTypes,
       Running, Teardown
<1>6. CASE AfterDispatch
  BY <1>t, <1>6, LeaveTypes, WorkersExist DEF AfterDispatch, CoordinatorTypes,
     ChannelTypes, Running, Teardown, Errors
<1>7. CASE ReceiveReady
  <2>1. results # <<>> /\ Head(results).worker \in Workers
    BY <1>7, ReceivedTypes DEF ReceiveReady
  <2>2. /\ Tail(results) \in Seq(Messages) /\ Len(Tail(results)) <= N
        /\ Append(idle, Head(results).worker) \in Seq(Workers)
    BY <1>t, <2>1, WorkersExist, HeadTailType, AppendType DEF ChannelTypes, CoordinatorTypes
  <2> QED
    BY <1>t, <1>7, <2>2 DEF ReceiveReady, CoordinatorTypes, ChannelTypes, Running, Teardown
<1>8. CASE ReceiveEnd
  BY <1>t, <1>8, LeaveTypes, WorkersExist DEF ReceiveEnd, CoordinatorTypes,
     ChannelTypes, Running, Teardown, Errors
<1>9. CASE ReceiveResult
  <2> DEFINE m == Head(results)
             event == EventOf(m)
             fatal == FatalError(m.worker, m.item, event)
  <2>1. /\ results # <<>> /\ m.worker \in Workers /\ m.item \in Paths
        /\ m.event \in Events \union {"failed"}
    BY <1>9, ReceivedTypes DEF ReceiveResult
  <2>2. event \in Events /\ fatal \in {"none", "fatal", "unowned"}
    BY <2>1 DEF EventOf, FatalError, Events
  <2>3. /\ Tail(results) \in Seq(Messages) /\ Len(Tail(results)) <= N
        /\ Append(idle, m.worker) \in Seq(Workers)
    BY <1>t, <2>1, WorkersExist, HeadTailType, AppendType DEF ChannelTypes, CoordinatorTypes
  <2>4. todo \o Expand(m.item, event) \in Seq(Paths)
    <3>1. Expand(m.item, event) \in Seq(Paths)
      BY <2>1, ConstantsAssumption DEF Expand
    <3> QED BY <1>t, <3>1 DEF CoordinatorTypes
  <2>5. [emitted EXCEPT ![m.item] = Append(@, event)] \in [Paths -> Seq(Events)]
    BY <1>t, <2>1, <2>2, AppendType DEF CoordinatorTypes
  <2> HIDE DEF m, event, fatal
  <2>6. /\ idle' \in Seq(Workers) /\ todo' \in Seq(Paths)
        /\ error' = IF fatal = "none" THEN error ELSE fatal
        /\ active' = active - 1
        /\ UNCHANGED work
    BY <1>9, <2>3, <2>4 DEF ReceiveResult, m, event, fatal
  <2>7. CASE fatal = "unowned"
    <3>1. Leave("unowned") /\ UNCHANGED emitted
      BY <1>9, <2>7 DEF ReceiveResult, m, event, fatal
    <3> QED
      BY <1>t, <2>2, <2>6, <3>1, LeaveTypes DEF CoordinatorTypes, ChannelTypes, Running,
         Teardown, Errors
  <2>8. CASE fatal # "unowned"
    <3>1. /\ emitted' \in [Paths -> Seq(Events)] /\ results' = Tail(results)
          /\ cpc' = "emit" /\ UNCHANGED <<cursor, result, outcome>>
      BY <1>9, <2>5, <2>8 DEF ReceiveResult, m, event, fatal
    <3> QED
      BY <1>t, <2>2, <2>3, <2>6, <3>1 DEF CoordinatorTypes, ChannelTypes, Running, Teardown
  <2> QED BY <2>7, <2>8
<1>10. CASE SinkAccepts
  BY <1>t, <1>10, LeaveTypes, WorkersExist DEF SinkAccepts, CoordinatorTypes,
     ChannelTypes, Running, Teardown, Errors
<1>11. CASE SinkFails
  BY <1>t, <1>11, LeaveTypes, WorkersExist DEF SinkFails, CoordinatorTypes,
     ChannelTypes, Running, Teardown, Errors
<1>12. CASE StopWorker
  <2>1. cursor \in Workers /\ 1 \in Workers /\ (cursor < N => cursor + 1 \in Workers)
    BY <1>t, <1>12, WorkersExist DEF StopWorker, CoordinatorTypes, Teardown, Workers
  <2>2. <<[type |-> "Stop"]>> \in Seq(Commands)
    BY DEF Commands
  <2>3. ChannelTypes'
    BY <1>t, <1>12, <2>1, <2>2 DEF StopWorker, ChannelTypes
  <2>4. CoordinatorTypes'
    BY <1>t, <1>12, <2>1 DEF StopWorker, NextWorker, CoordinatorTypes, Teardown, Running,
       Workers
  <2> QED BY <2>3, <2>4
<1>13. CASE JoinWorker
  <2>1. cursor \in Workers /\ (cursor < N => cursor + 1 \in Workers)
    BY <1>t, <1>13, WorkersExist DEF JoinWorker, CoordinatorTypes, Teardown, Workers
  <2>2. ChannelTypes'
    BY <1>t, <1>13 DEF JoinWorker, ChannelTypes
  <2>3. CoordinatorTypes'
    BY <1>t, <1>13, <2>1 DEF JoinWorker, NextWorker, Return, CoordinatorTypes, Teardown, Running,
       Errors, Workers
  <2> QED BY <2>2, <2>3
<1>14. CASE AbortWorker
  <2>1. cursor \in Workers /\ (cursor < N => cursor + 1 \in Workers)
    BY <1>t, <1>14, WorkersExist DEF AbortWorker, CoordinatorTypes, Teardown, Workers
  <2>2. ChannelTypes'
    BY <1>t, <1>14 DEF AbortWorker, ChannelTypes
  <2>3. CoordinatorTypes'
    BY <1>t, <1>14, <2>1 DEF AbortWorker, NextWorker, Return, CoordinatorTypes, Teardown, Running,
       Errors, Workers
  <2> QED BY <2>2, <2>3
<1> QED BY <1>1, <1>2, <1>3, <1>4, <1>5, <1>6, <1>7, <1>8, <1>9, <1>10, <1>11, <1>12, <1>13, <1>14 DEF Coordinator

(* Each step of a worker task keeps the types. *)
LEMMA WorkerKeepsTypes ==
  ASSUME TypeOK, NEW w \in Workers, Worker(w) PROVE TypeOK'
<1>t. CoordinatorTypes /\ ChannelTypes /\ WorkerTypes /\ cancel \in BOOLEAN
  BY DEF TypeOK
<1>s. ASSUME NEW m \in Messages, SendResultTx(m)
      PROVE  results' \in Seq(Messages) /\ Len(results') <= N
  <2>1. CASE ResultRxOpen
    <3>1. Len(results) < N /\ results' = Append(results, m)
      BY <1>s, <2>1 DEF SendResultTx
    <3>2. results \in Seq(Messages) /\ Len(results) \in Nat
      BY <1>t DEF ChannelTypes
    <3> QED BY <1>s, <3>1, <3>2, AppendType, WorkersExist
  <2>2. CASE ~ResultRxOpen
    BY <1>t, <1>s, <2>2 DEF SendResultTx, ChannelTypes
  <2> QED BY <2>1, <2>2
<1>c. CoordinatorTypes' /\ cancel' \in BOOLEAN
  <2>1. UNCHANGED <<coordinatorVars, cancel>>
    BY DEF Worker, Connect, ConnectInterrupted, SendReady, TakeCommand, WorkTxDropped,
       SendCancelled, Evaluate, EvaluateFails, WorkerPanics, SendResult, AfterSend,
       Reconnect, SendExited, StopClient
  <2>2. CoordinatorTypes'
    BY <1>t, <2>1 DEF CoordinatorTypes, coordinatorVars
  <2>3. cancel' \in BOOLEAN
    BY <1>t, <2>1
  <2> QED BY <2>2, <2>3
<1> SUFFICES ChannelTypes' /\ WorkerTypes'
  BY <1>c DEF TypeOK
<1>1. CASE Connect(w)
  BY <1>t, <1>1 DEF Connect, Goto, ChannelTypes, WorkerTypes, WorkerPcs, Ended, EndedOk
<1>2. CASE ConnectInterrupted(w)
  BY <1>t, <1>2 DEF ConnectInterrupted, Goto, ChannelTypes, WorkerTypes, WorkerPcs, Ended, EndedOk
<1>3. CASE SendReady(w)
  <2>1. [type |-> "Ready", worker |-> w] \in Messages
    BY <1>t, <1>3 DEF SendReady, WorkerTypes, Messages, Events
  <2>2. results' \in Seq(Messages) /\ Len(results') <= N
    BY <1>3, <1>s, <2>1 DEF SendReady
  <2> QED
    BY <1>t, <1>3, <2>2 DEF SendReady, Goto, ChannelTypes, WorkerTypes, WorkerPcs, Ended, EndedOk
<1>4. CASE TakeCommand(w)
  <2>1. Head(work[w]) \in Commands
    BY <1>t, <1>4, HeadTailType DEF TakeCommand, ChannelTypes
  <2>2. Head(work[w]).type = "Work" => Head(work[w]).item \in Paths
    BY <2>1 DEF Commands
  <2> QED
    BY <1>t, <1>4, <2>2 DEF TakeCommand, Goto, ChannelTypes, WorkerTypes, WorkerPcs, Ended, EndedOk
<1>5. CASE WorkTxDropped(w)
  BY <1>t, <1>5 DEF WorkTxDropped, Goto, ChannelTypes, WorkerTypes, WorkerPcs, Ended, EndedOk
<1>6. CASE SendCancelled(w)
  <2>1. [type |-> "Cancelled"] \in Messages
    BY <1>t, <1>6 DEF SendCancelled, WorkerTypes, Messages, Events
  <2>2. results' \in Seq(Messages) /\ Len(results') <= N
    BY <1>6, <1>s, <2>1 DEF SendCancelled
  <2> QED
    BY <1>t, <1>6, <2>2 DEF SendCancelled, Goto, ChannelTypes, WorkerTypes, WorkerPcs, Ended, EndedOk
<1>7. CASE Evaluate(w)
  <2>1. Replies[item[w]] \subseteq Events /\ "none" \notin Events
    BY <1>t, <1>7, ConstantsAssumption DEF Evaluate, WorkerTypes, Events
  <2> QED
    BY <1>t, <1>7, <2>1 DEF Evaluate, Goto, ChannelTypes, WorkerTypes, WorkerPcs, Ended, EndedOk
<1>8. CASE EvaluateFails(w)
  BY <1>t, <1>8 DEF EvaluateFails, Goto, ChannelTypes, WorkerTypes, WorkerPcs, Ended, EndedOk
<1>9. CASE WorkerPanics(w)
  BY <1>t, <1>9 DEF WorkerPanics, Goto, ChannelTypes, WorkerTypes, WorkerPcs, Ended, EndedOk
<1>10. CASE SendResult(w)
  <2>1. [type |-> "Result", worker |-> w, item |-> item[w], event |-> reply[w]] \in Messages
    BY <1>t, <1>10 DEF SendResult, WorkerTypes, Messages, Events
  <2>2. results' \in Seq(Messages) /\ Len(results') <= N
    BY <1>10, <1>s, <2>1 DEF SendResult
  <2> QED
    BY <1>t, <1>10, <2>2 DEF SendResult, Goto, ChannelTypes, WorkerTypes, WorkerPcs, Ended, EndedOk
<1>11. CASE AfterSend(w)
  BY <1>t, <1>11 DEF AfterSend, Goto, ChannelTypes, WorkerTypes, WorkerPcs, Ended, EndedOk
<1>12. CASE Reconnect(w)
  BY <1>t, <1>12 DEF Reconnect, Goto, ChannelTypes, WorkerTypes, WorkerPcs, Ended, EndedOk
<1>13. CASE SendExited(w)
  <2>1. [type |-> "Exited"] \in Messages
    BY <1>t, <1>13 DEF SendExited, WorkerTypes, Messages, Events
  <2>2. results' \in Seq(Messages) /\ Len(results') <= N
    BY <1>13, <1>s, <2>1 DEF SendExited
  <2> QED
    BY <1>t, <1>13, <2>2 DEF SendExited, Goto, ChannelTypes, WorkerTypes, WorkerPcs, Ended, EndedOk
<1>14. CASE StopClient(w)
  BY <1>t, <1>14 DEF StopClient, Goto, ChannelTypes, WorkerTypes, WorkerPcs, Ended, EndedOk
<1> QED BY <1>1, <1>2, <1>3, <1>4, <1>5, <1>6, <1>7, <1>8, <1>9, <1>10, <1>11, <1>12, <1>13, <1>14 DEF Worker

(* Requesting cancellation keeps the types. *)
LEMMA CancelKeepsTypes ==
  ASSUME TypeOK, RequestCancel PROVE TypeOK'
<1>1. cancel' \in BOOLEAN
  BY DEF RequestCancel
<1>2. CoordinatorTypes' /\ ChannelTypes' /\ WorkerTypes'
  BY DEF TypeOK, RequestCancel, CoordinatorTypes, ChannelTypes, WorkerTypes,
     coordinatorVars, workerVars
<1> QED BY <1>1, <1>2 DEF TypeOK

LEMMA StutterKeepsTypes ==
  ASSUME TypeOK, UNCHANGED vars PROVE TypeOK'
<1>1. cancel' \in BOOLEAN
  BY DEF TypeOK, vars
<1>2. CoordinatorTypes' /\ ChannelTypes' /\ WorkerTypes'
  BY DEF TypeOK, vars, CoordinatorTypes, ChannelTypes, WorkerTypes
<1> QED BY <1>1, <1>2 DEF TypeOK

LEMMA NextKeepsTypes == TypeOK /\ [Next]_vars => TypeOK'
BY CoordinatorKeepsTypes, WorkerKeepsTypes, CancelKeepsTypes, StutterKeepsTypes
   DEF Next, Finished

(* Every reachable state is well typed: in particular neither channel      *)
(* ever holds more than its capacity, the dispatch loop never runs out of  *)
(* idle workers, and the teardown loops only touch workers that exist.     *)
THEOREM TypeCorrect == Spec => []TypeOK
BY InitType, NextKeepsTypes, PTL DEF Spec

------------------------------------------------------------------------------
(* The idle queue. *)

(* The workers that start idle are distinct and none of them is forked. *)
LEMMA InitialIdleDistinct ==
  /\ \A i, j \in DOMAIN InitialIdle : InitialIdle[i] = InitialIdle[j] => i = j
  /\ \A i \in DOMAIN InitialIdle : InitialIdle[i] \notin Forked
<1>1. CASE NLocal = 0
  BY <1>1, WorkersExist DEF InitialIdle, Forked
<1>2. CASE NLocal # 0
  <2>1. InitialIdle = [i \in 1..(RemoteWorkers + 1) |-> IF i = 1 THEN 1 ELSE NLocal + i - 1]
    BY <1>2 DEF InitialIdle
  <2> QED BY <1>2, <2>1, WorkersExist, ConstantsAssumption DEF Forked
<1> QED BY <1>1, <1>2

LEMMA InitIdle == Init => IdleWorkersWait
<1> SUFFICES ASSUME Init, NEW w \in Workers
             PROVE  /\ \A i, j \in DOMAIN idle : idle[i] = idle[j] => i = j
                    /\ \A i, j \in DOMAIN results : Reports(i, w) /\ Reports(j, w) => i = j
                    /\ ~Reporting(w) /\ ~Commanded(w) /\ ~Evaluating(w)
                    /\ Queued(w) => ~Starting(w)
  <2>1. 1 \in Workers
    BY WorkersExist DEF Workers
  <2> QED BY <2>1 DEF IdleWorkersWait
<1>1. results = <<>> /\ work[w] = <<>> /\ wpc[w] = "connect" /\ idle = InitialIdle
  BY DEF Init
<1>2. DOMAIN results = {}
  BY <1>1
<1>3. Queued(w) => w \notin Forked
  BY <1>1, InitialIdleDistinct DEF Queued
<1> QED
  BY <1>1, <1>2, <1>3, InitialIdleDistinct DEF Reporting, Commanded, Evaluating, Starting

(* A step that leaves the queue, the channels and the tasks alone. *)
LEMMA QuietKeepsIdle ==
  ASSUME IdleWorkersWait, cpc \in Running, UNCHANGED <<idle, results, work, wpc>>
  PROVE  IdleWorkersWait'
BY DEF IdleWorkersWait, Queued, Reports, Reporting, Commanded, Evaluating, Starting

LEMMA CoordinatorKeepsIdle ==
  ASSUME TypeOK, IdleWorkersWait, Coordinator PROVE IdleWorkersWait'
<1> SUFFICES ASSUME cpc' \in Running PROVE IdleWorkersWait'
  BY DEF IdleWorkersWait
<1>t. CoordinatorTypes /\ ChannelTypes
  BY DEF TypeOK
<1>l. ASSUME NEW r, Leave(r) PROVE FALSE
  BY <1>l DEF Leave, Running
<1>1. CASE BeginDispatch \/ AfterDispatch \/ SinkAccepts
  <2>1. cpc \in Running /\ UNCHANGED <<idle, results, work, wpc>>
    BY <1>1, <1>l DEF BeginDispatch, AfterDispatch, SinkAccepts, Running, workerVars
  <2> QED BY <2>1, QuietKeepsIdle
<1>2. CASE DispatchWork
  <2>1. cpc \in Running /\ idle # <<>>
    BY <1>t, <1>2 DEF DispatchWork, CoordinatorTypes, Running
  <2>h. Head(idle) \in Workers
    BY <1>t, <2>1, HeadTailType DEF CoordinatorTypes
  <2>p. PICK h \in Workers : h = Head(idle)
    BY <2>h
  <2>2. /\ h = idle[1] /\ Len(idle) \in Nat \ {0}
        /\ Tail(idle) \in Seq(Workers) /\ Len(Tail(idle)) = Len(idle) - 1
        /\ \A i \in 1..Len(Tail(idle)) : Tail(idle)[i] = idle[i + 1]
    BY <1>t, <2>1, <2>p, HeadTailType DEF CoordinatorTypes
  <2>3. /\ idle' = Tail(idle) /\ UNCHANGED <<results, wpc>>
        /\ \E c : work' = [work EXCEPT ![h] = c]
    BY <1>2, <1>l, <2>p DEF DispatchWork, workerVars
  <2>4. \A i, j \in DOMAIN idle' : idle'[i] = idle'[j] => i = j
    BY <2>1, <2>2, <2>3 DEF IdleWorkersWait
  <2>5. Queued(h) /\ ~Queued(h)'
    BY <1>t, <2>1, <2>2, <2>3 DEF IdleWorkersWait, Queued, CoordinatorTypes
  <2>6. \A w \in Workers : Queued(w)' => Queued(w)
    BY <1>t, <2>2, <2>3 DEF Queued, CoordinatorTypes
  <2>7. \A w \in Workers : /\ w # h => work'[w] = work[w]
                           /\ Reporting(w)' = Reporting(w)
                           /\ Evaluating(w)' = Evaluating(w) /\ Starting(w)' = Starting(w)
                           /\ \A i \in DOMAIN results : Reports(i, w)' = Reports(i, w)
    BY <1>t, <2>2, <2>3 DEF ChannelTypes, Reporting, Reports, Evaluating, Starting
  <2> QED
    BY <2>1, <2>2, <2>3, <2>4, <2>5, <2>6, <2>7 DEF IdleWorkersWait, Commanded
<1>3. CASE DispatchWait
  <2> DEFINE h == Head(idle)
  <2>1. cpc \in Running /\ idle # <<>>
    BY <1>t, <1>3 DEF DispatchWait, CoordinatorTypes, Running
  <2>2. /\ h \in Workers /\ h = idle[1] /\ Len(idle) \in Nat \ {0}
        /\ Tail(idle) \in Seq(Workers) /\ Len(Tail(idle)) = Len(idle) - 1
        /\ \A i \in 1..Len(Tail(idle)) : Tail(idle)[i] = idle[i + 1]
    BY <1>t, <2>1, HeadTailType DEF CoordinatorTypes
  <2>3. idle' = Append(Tail(idle), h) /\ UNCHANGED <<results, work, wpc>>
    BY <1>3 DEF DispatchWait, workerVars
  <2> HIDE DEF h
  <2>4. /\ DOMAIN idle' = 1..Len(idle) /\ DOMAIN idle = 1..Len(idle)
        /\ \A i \in 1..(Len(idle) - 1) : idle'[i] = idle[i + 1]
        /\ idle'[Len(idle)] = idle[1]
    BY <1>t, <2>2, <2>3 DEF CoordinatorTypes
  <2>5. \A i, j \in DOMAIN idle' : idle'[i] = idle'[j] => i = j
    <3>1. \A i, j \in 1..Len(idle) : idle[i] = idle[j] => i = j
      BY <2>1, <2>4 DEF IdleWorkersWait
    <3> QED BY <2>2, <2>4, <3>1
  <2>6. \A w \in Workers : Queued(w)' => Queued(w)
    BY <2>2, <2>4 DEF Queued
  <2> QED
    BY <2>1, <2>3, <2>5, <2>6 DEF IdleWorkersWait, Reports, Reporting, Commanded,
       Evaluating, Starting
<1>4. CASE ReceiveReady \/ ReceiveResult
  <2> DEFINE m == Head(results)
  <2>1. /\ cpc \in Running /\ results # <<>> /\ m.worker \in Workers
        /\ m.type \in {"Ready", "Result"}
    BY <1>4, ReceivedTypes DEF ReceiveReady, ReceiveResult, Running, Received
  <2>2. /\ m = results[1] /\ Len(results) \in Nat \ {0}
        /\ Len(Tail(results)) = Len(results) - 1
        /\ Tail(results) \in Seq(Messages)
        /\ \A i \in 1..Len(Tail(results)) : Tail(results)[i] = results[i + 1]
    BY <1>t, <2>1, HeadTailType DEF ChannelTypes
  <2>3. /\ idle' = Append(idle, m.worker) /\ results' = Tail(results)
        /\ UNCHANGED <<work, wpc>>
    BY <1>4, <1>l DEF ReceiveReady, ReceiveResult, workerVars
  <2>p. PICK v \in Workers : v = m.worker
    BY <2>1
  <2> HIDE DEF m
  <2>4. /\ DOMAIN idle = 1..Len(idle) /\ DOMAIN idle' = 1..(Len(idle) + 1)
        /\ Len(idle) \in Nat
        /\ \A i \in 1..Len(idle) : idle'[i] = idle[i]
        /\ idle'[Len(idle) + 1] = v
    BY <1>t, <2>3, <2>p, AppendType DEF CoordinatorTypes
  <2>5. /\ DOMAIN results = 1..Len(results) /\ DOMAIN results' = 1..(Len(results) - 1)
        /\ \A i \in DOMAIN results' : i + 1 \in DOMAIN results /\ results'[i] = results[i + 1]
    BY <1>t, <2>2, <2>3 DEF ChannelTypes
  <2>6. Reports(1, v) /\ Reporting(v)
    BY <2>1, <2>2, <2>5, <2>p DEF Reports, Reporting
  <2>7. \A w \in Workers : \A i \in DOMAIN results' : Reports(i, w)' => Reports(i + 1, w)
    BY <2>5 DEF Reports
  <2>8. ~Reporting(v)'
    BY <2>1, <2>2, <2>5, <2>6, <2>7 DEF IdleWorkersWait, Reporting
  <2>9. \A w \in Workers : Reporting(w)' => Reporting(w)
    BY <2>5, <2>7 DEF Reporting
  <2>10. \A w \in Workers : Queued(w)' => Queued(w) \/ w = v
    BY <2>4 DEF Queued
  <2>11. \A i, j \in DOMAIN idle' : idle'[i] = idle'[j] => i = j
    <3>1. \A i \in DOMAIN idle : idle[i] # v
      BY <2>1, <2>6 DEF IdleWorkersWait, Queued
    <3>2. \A i, j \in DOMAIN idle : idle[i] = idle[j] => i = j
      BY <2>1 DEF IdleWorkersWait
    <3> QED BY <2>4, <3>1, <3>2
  <2>12. \A w \in Workers : \A i, j \in DOMAIN results' :
            Reports(i, w)' /\ Reports(j, w)' => i = j
    <3>1. \A w \in Workers : \A i, j \in DOMAIN results :
             Reports(i, w) /\ Reports(j, w) => i = j
      BY <2>1 DEF IdleWorkersWait
    <3> QED BY <2>2, <2>5, <2>7, <3>1
  <2>13. \A w \in Workers : /\ Commanded(w)' = Commanded(w)
                            /\ Evaluating(w)' = Evaluating(w) /\ Starting(w)' = Starting(w)
    BY <2>3 DEF Commanded, Evaluating, Starting
  <2> QED
    BY <2>1, <2>6, <2>8, <2>9, <2>10, <2>11, <2>12, <2>13 DEF IdleWorkersWait
<1>5. CASE ObserveCancel \/ DispatchEnd \/ ReceiveEnd \/ SinkFails
  BY <1>5, <1>l DEF ObserveCancel, DispatchEnd, ReceiveEnd, SinkFails
<1>6. CASE StopWorker \/ JoinWorker \/ AbortWorker
  BY <1>6 DEF StopWorker, JoinWorker, AbortWorker, NextWorker, Return, Running
<1> QED BY <1>1, <1>2, <1>3, <1>4, <1>5, <1>6 DEF Coordinator

LEMMA WorkerKeepsIdle ==
  ASSUME TypeOK, IdleWorkersWait, NEW w \in Workers, Worker(w) PROVE IdleWorkersWait'
<1> SUFFICES ASSUME cpc' \in Running PROVE IdleWorkersWait'
  BY DEF IdleWorkersWait
<1>t. ChannelTypes /\ WorkerTypes
  BY DEF TypeOK
<1>f. /\ cpc' = cpc /\ idle' = idle /\ cpc \in Running
      /\ \A v \in Workers \ {w} : work'[v] = work[v] /\ wpc'[v] = wpc[v]
  <2>1. UNCHANGED coordinatorVars
    BY DEF Worker, Connect, ConnectInterrupted, SendReady, TakeCommand, WorkTxDropped,
       SendCancelled, Evaluate, EvaluateFails, WorkerPanics, SendResult, AfterSend,
       Reconnect, SendExited, StopClient
  <2>2. \A v \in Workers \ {w} : work'[v] = work[v] /\ wpc'[v] = wpc[v]
    BY <1>t DEF Worker, Connect, ConnectInterrupted, SendReady, TakeCommand, WorkTxDropped,
       SendCancelled, Evaluate, EvaluateFails, WorkerPanics, SendResult, AfterSend,
       Reconnect, SendExited, StopClient, Goto, ChannelTypes, WorkerTypes
  <2> QED BY <2>1, <2>2 DEF coordinatorVars
<1>g. \A v \in Workers : /\ Queued(v)' = Queued(v)
                         /\ v # w => /\ Commanded(v)' = Commanded(v)
                                     /\ Evaluating(v)' = Evaluating(v)
                                     /\ Starting(v)' = Starting(v)
  BY <1>f DEF Queued, Commanded, Evaluating, Starting
<1> DEFINE NoNewReport == \A v \in Workers : \A i \in DOMAIN results' :
                             Reports(i, v)' => i \in DOMAIN results /\ Reports(i, v)
(* A step after which the worker is busier only because it took its command. *)
<1>q. ASSUME NoNewReport,
             Commanded(w)' => Commanded(w), Starting(w)' => Starting(w),
             Evaluating(w)' => Evaluating(w) \/ (Commanded(w) /\ ~Commanded(w)')
      PROVE  IdleWorkersWait'
  <2>1. \A v \in Workers : Reporting(v)' => Reporting(v)
    BY <1>q DEF Reporting
  <2>2. \A v \in Workers : \A i, j \in DOMAIN results' :
           Reports(i, v)' /\ Reports(j, v)' => i = j
    BY <1>f, <1>q DEF IdleWorkersWait
  <2>3. \A i, j \in DOMAIN idle' : idle'[i] = idle'[j] => i = j
    BY <1>f DEF IdleWorkersWait
  <2> QED BY <1>f, <1>g, <1>q, <2>1, <2>2, <2>3 DEF IdleWorkersWait
<1>a. ASSUME NEW m \in Messages, SendResultTx(m), m.type \notin {"Ready", "Result"}
      PROVE  NoNewReport
  <2>1. results' = Append(results, m) /\ results \in Seq(Messages)
    BY <1>a, <1>f, <1>t DEF SendResultTx, ResultRxOpen, ChannelTypes
  <2>2. /\ DOMAIN results' = 1..(Len(results) + 1) /\ DOMAIN results = 1..Len(results)
        /\ Len(results) \in Nat
        /\ \A i \in 1..Len(results) : results'[i] = results[i]
        /\ results'[Len(results) + 1] = m
    BY <2>1, AppendType
  <2> QED BY <1>a, <2>2 DEF Reports
(* A step that sends the worker's own report. *)
<1>b. ASSUME NEW m \in Messages, SendResultTx(m), m.type \in {"Ready", "Result"},
             m.worker = w, Evaluating(w) \/ Starting(w),
             work' = work, ~Evaluating(w)', ~Starting(w)'
      PROVE  IdleWorkersWait'
  <2>1. results' = Append(results, m) /\ results \in Seq(Messages)
    BY <1>b, <1>f, <1>t DEF SendResultTx, ResultRxOpen, ChannelTypes
  <2>k. PICK k \in Nat : k = Len(results)
    BY <2>1
  <2>2. /\ DOMAIN results' = 1..(k + 1) /\ DOMAIN results = 1..k
        /\ \A i \in 1..k : results'[i] = results[i]
        /\ results'[k + 1] = m
    BY <2>1, <2>k, AppendType
  <2>3. ~Queued(w) /\ ~Reporting(w) /\ ~Commanded(w)
    BY <1>b, <1>f DEF IdleWorkersWait
  <2>4. /\ \A v \in Workers : \A i \in 1..k : Reports(i, v)' = Reports(i, v)
        /\ \A v \in Workers : Reports(k + 1, v)' => v = w
    BY <1>b, <2>2 DEF Reports
  <2>5. \A v \in Workers : \A i, j \in DOMAIN results' :
           Reports(i, v)' /\ Reports(j, v)' => i = j
    <3>1. \A v \in Workers : \A i, j \in DOMAIN results :
             Reports(i, v) /\ Reports(j, v) => i = j
      BY <1>f DEF IdleWorkersWait
    <3>2. \A i \in DOMAIN results : ~Reports(i, w)
      BY <2>3 DEF Reporting
    <3> QED BY <2>2, <2>4, <3>1, <3>2
  <2>6. \A v \in Workers : v # w => (Reporting(v)' => Reporting(v))
    BY <2>2, <2>4 DEF Reporting
  <2>7. \A i, j \in DOMAIN idle' : idle'[i] = idle'[j] => i = j
    BY <1>f DEF IdleWorkersWait
  <2>8. ~Commanded(w)'
    BY <1>b, <2>3 DEF Commanded
  <2> QED
    BY <1>b, <1>f, <1>g, <2>3, <2>5, <2>6, <2>7, <2>8 DEF IdleWorkersWait
<1>u. UNCHANGED results => NoNewReport
  BY DEF Reports
<1> HIDE DEF NoNewReport
<1>1. CASE Connect(w)
  <2>1. NoNewReport
    BY <1>1, <1>u DEF Connect
  <2>2. /\ Commanded(w)' => Commanded(w)
        /\ Starting(w)' => Starting(w)
        /\ Evaluating(w)' => Evaluating(w) \/ (Commanded(w) /\ ~Commanded(w)')
    BY <1>t, <1>1 DEF Connect, Goto, WorkerTypes, ChannelTypes, Commanded,
       Evaluating, Starting
  <2> QED BY <1>q, <2>1, <2>2
<1>2. CASE ConnectInterrupted(w)
  <2>1. NoNewReport
    BY <1>2, <1>u DEF ConnectInterrupted
  <2>2. /\ Commanded(w)' => Commanded(w)
        /\ Starting(w)' => Starting(w)
        /\ Evaluating(w)' => Evaluating(w) \/ (Commanded(w) /\ ~Commanded(w)')
    BY <1>t, <1>2 DEF ConnectInterrupted, Goto, WorkerTypes, ChannelTypes, Commanded,
       Evaluating, Starting
  <2> QED BY <1>q, <2>1, <2>2
<1>3. CASE SendReady(w)
  <2> DEFINE m == [type |-> "Ready", worker |-> w]
  <2>1. m \in Messages /\ SendResultTx(m) /\ work' = work
    BY <1>t, <1>3 DEF SendReady, WorkerTypes, Messages, Events
  <2>2. m.type \in {"Ready", "Result"} /\ m.worker = w
    OBVIOUS
  <2>3. (Evaluating(w) \/ Starting(w)) /\ ~Evaluating(w)' /\ ~Starting(w)'
    BY <1>t, <1>3 DEF SendReady, Goto, WorkerTypes, Evaluating, Starting
  <2> HIDE DEF m
  <2> QED BY <1>b, <2>1, <2>2, <2>3
<1>4. CASE TakeCommand(w)
  <2>1. NoNewReport
    BY <1>4, <1>u DEF TakeCommand
  <2>2. /\ Commanded(w)' => Commanded(w)
        /\ Starting(w)' => Starting(w)
        /\ Evaluating(w)' => Evaluating(w) \/ (Commanded(w) /\ ~Commanded(w)')
    BY <1>t, <1>4 DEF TakeCommand, Goto, WorkerTypes, ChannelTypes, Commanded,
       Evaluating, Starting
  <2> QED BY <1>q, <2>1, <2>2
<1>5. CASE WorkTxDropped(w)
  <2>1. NoNewReport
    BY <1>5, <1>u DEF WorkTxDropped
  <2>2. /\ Commanded(w)' => Commanded(w)
        /\ Starting(w)' => Starting(w)
        /\ Evaluating(w)' => Evaluating(w) \/ (Commanded(w) /\ ~Commanded(w)')
    BY <1>t, <1>5 DEF WorkTxDropped, Goto, WorkerTypes, ChannelTypes, Commanded,
       Evaluating, Starting
  <2> QED BY <1>q, <2>1, <2>2
<1>6. CASE SendCancelled(w)
  <2>1. NoNewReport
    <3>1. [type |-> "Cancelled"] \in Messages /\ [type |-> "Cancelled"].type \notin {"Ready", "Result"}
      BY DEF Messages
    <3> QED BY <1>6, <1>a, <3>1 DEF SendCancelled
  <2>2. /\ Commanded(w)' => Commanded(w)
        /\ ~Starting(w)' /\ ~Evaluating(w)'
    BY <1>t, <1>6 DEF SendCancelled, Goto, WorkerTypes, ChannelTypes, Commanded,
       Evaluating, Starting
  <2> QED BY <1>q, <2>1, <2>2
<1>7. CASE Evaluate(w)
  <2>1. NoNewReport
    BY <1>7, <1>u DEF Evaluate
  <2>2. /\ Commanded(w)' => Commanded(w)
        /\ Starting(w)' => Starting(w)
        /\ Evaluating(w)' => Evaluating(w) \/ (Commanded(w) /\ ~Commanded(w)')
    BY <1>t, <1>7 DEF Evaluate, Goto, WorkerTypes, ChannelTypes, Commanded,
       Evaluating, Starting
  <2> QED BY <1>q, <2>1, <2>2
<1>8. CASE EvaluateFails(w)
  <2>1. NoNewReport
    BY <1>8, <1>u DEF EvaluateFails
  <2>2. /\ Commanded(w)' => Commanded(w)
        /\ Starting(w)' => Starting(w)
        /\ Evaluating(w)' => Evaluating(w) \/ (Commanded(w) /\ ~Commanded(w)')
    BY <1>t, <1>8 DEF EvaluateFails, Goto, WorkerTypes, ChannelTypes, Commanded,
       Evaluating, Starting
  <2> QED BY <1>q, <2>1, <2>2
<1>9. CASE WorkerPanics(w)
  <2>1. NoNewReport
    BY <1>9, <1>u DEF WorkerPanics
  <2>2. /\ Commanded(w)' => Commanded(w)
        /\ Starting(w)' => Starting(w)
        /\ Evaluating(w)' => Evaluating(w) \/ (Commanded(w) /\ ~Commanded(w)')
    BY <1>t, <1>9 DEF WorkerPanics, Goto, WorkerTypes, ChannelTypes, Commanded,
       Evaluating, Starting
  <2> QED BY <1>q, <2>1, <2>2
<1>10. CASE SendResult(w)
  <2> DEFINE m == [type |-> "Result", worker |-> w, item |-> item[w], event |-> reply[w]]
  <2>1. m \in Messages /\ SendResultTx(m) /\ work' = work
    BY <1>t, <1>10 DEF SendResult, WorkerTypes, Messages, Events
  <2>2. m.type \in {"Ready", "Result"} /\ m.worker = w
    OBVIOUS
  <2>3. (Evaluating(w) \/ Starting(w)) /\ ~Evaluating(w)' /\ ~Starting(w)'
    BY <1>t, <1>10 DEF SendResult, Goto, WorkerTypes, Evaluating, Starting
  <2> HIDE DEF m
  <2> QED BY <1>b, <2>1, <2>2, <2>3
<1>11. CASE AfterSend(w)
  <2>1. NoNewReport
    BY <1>11, <1>u DEF AfterSend
  <2>2. /\ Commanded(w)' => Commanded(w)
        /\ Starting(w)' => Starting(w)
        /\ Evaluating(w)' => Evaluating(w) \/ (Commanded(w) /\ ~Commanded(w)')
    BY <1>t, <1>11 DEF AfterSend, Goto, WorkerTypes, ChannelTypes, Commanded,
       Evaluating, Starting
  <2> QED BY <1>q, <2>1, <2>2
<1>12. CASE Reconnect(w)
  <2>1. NoNewReport
    BY <1>12, <1>u DEF Reconnect
  <2>2. /\ Commanded(w)' => Commanded(w)
        /\ Starting(w)' => Starting(w)
        /\ Evaluating(w)' => Evaluating(w) \/ (Commanded(w) /\ ~Commanded(w)')
    BY <1>t, <1>12 DEF Reconnect, Goto, WorkerTypes, ChannelTypes, Commanded,
       Evaluating, Starting
  <2> QED BY <1>q, <2>1, <2>2
<1>13. CASE SendExited(w)
  <2>1. NoNewReport
    <3>1. [type |-> "Exited"] \in Messages /\ [type |-> "Exited"].type \notin {"Ready", "Result"}
      BY DEF Messages
    <3> QED BY <1>13, <1>a, <3>1 DEF SendExited
  <2>2. /\ Commanded(w)' => Commanded(w)
        /\ ~Starting(w)' /\ ~Evaluating(w)'
    BY <1>t, <1>13 DEF SendExited, Goto, WorkerTypes, ChannelTypes, Commanded,
       Evaluating, Starting
  <2> QED BY <1>q, <2>1, <2>2
<1>14. CASE StopClient(w)
  <2>1. NoNewReport
    BY <1>14, <1>u DEF StopClient
  <2>2. /\ Commanded(w)' => Commanded(w)
        /\ Starting(w)' => Starting(w)
        /\ Evaluating(w)' => Evaluating(w) \/ (Commanded(w) /\ ~Commanded(w)')
    BY <1>t, <1>14 DEF StopClient, Goto, WorkerTypes, ChannelTypes, Commanded,
       Evaluating, Starting
  <2> QED BY <1>q, <2>1, <2>2
<1> QED BY <1>1, <1>2, <1>3, <1>4, <1>5, <1>6, <1>7, <1>8, <1>9, <1>10, <1>11, <1>12, <1>13, <1>14 DEF Worker

(* However workers fail, restart or start late, an idle worker is free:    *)
(* dispatch never blocks, and no worker is sent work while it holds some.  *)
THEOREM IdleQueueSound == Spec => []IdleWorkersWait
<1>1. TypeOK /\ IdleWorkersWait /\ [Next]_vars => IdleWorkersWait'
  <2> SUFFICES ASSUME TypeOK, IdleWorkersWait, [Next]_vars PROVE IdleWorkersWait'
    OBVIOUS
  <2>1. CASE Coordinator
    BY <2>1, CoordinatorKeepsIdle
  <2>2. ASSUME NEW w \in Workers, Worker(w) PROVE IdleWorkersWait'
    BY <2>2, WorkerKeepsIdle
  <2>3. CASE RequestCancel \/ Finished \/ UNCHANGED vars
    <3>1. UNCHANGED <<cpc, idle, results, work, wpc>>
      BY <2>3 DEF RequestCancel, Finished, vars, coordinatorVars, workerVars
    <3> QED BY <3>1, QuietKeepsIdle DEF IdleWorkersWait
  <2> QED BY <2>1, <2>2, <2>3 DEF Next
<1> QED BY <1>1, InitIdle, TypeCorrect, PTL DEF Spec

------------------------------------------------------------------------------
(* The evaluator behind a worker. *)

(* Where an evaluator is known to be usable, or why it need not be: the    *)
(* worker is about to replace it, or the cancellation, which is never      *)
(* withdrawn, keeps the worker from using it.                              *)
ClientInv ==
    \A w \in Workers :
        /\ wpc[w] \in {"sendReady", "working"} => client[w] = "up"
        /\ wpc[w] = "recv" => client[w] = "up" \/ cancel
        /\ wpc[w] \in {"sendResult", "sent"} =>
              client[w] = "up" \/ reply[w] = "failed" \/ status[w] = "Restart"

LEMMA WorkerKeepsClient ==
  ASSUME TypeOK, ClientInv, NEW w \in Workers, Worker(w) PROVE ClientInv'
<1>t. WorkerTypes
  BY DEF TypeOK
<1>1. UNCHANGED cancel
  BY DEF Worker, Connect, ConnectInterrupted, SendReady, TakeCommand, WorkTxDropped,
     SendCancelled, Evaluate, EvaluateFails, WorkerPanics, SendResult, AfterSend,
     Reconnect, SendExited, StopClient
<1>2. CASE Connect(w)
  BY <1>t, <1>1, <1>2 DEF Connect, Goto, ClientInv, WorkerTypes
<1>3. CASE ConnectInterrupted(w)
  BY <1>t, <1>1, <1>3 DEF ConnectInterrupted, Goto, ClientInv, WorkerTypes
<1>4. CASE SendReady(w)
  BY <1>t, <1>1, <1>4 DEF SendReady, Goto, ClientInv, WorkerTypes
<1>5. CASE TakeCommand(w)
  BY <1>t, <1>1, <1>5 DEF TakeCommand, Goto, ClientInv, WorkerTypes
<1>6. CASE WorkTxDropped(w)
  BY <1>t, <1>1, <1>6 DEF WorkTxDropped, Goto, ClientInv, WorkerTypes
<1>7. CASE SendCancelled(w)
  BY <1>t, <1>1, <1>7 DEF SendCancelled, Goto, ClientInv, WorkerTypes
<1>8. CASE Evaluate(w)
  BY <1>t, <1>1, <1>8 DEF Evaluate, Goto, ClientInv, WorkerTypes
<1>9. CASE EvaluateFails(w)
  BY <1>t, <1>1, <1>9 DEF EvaluateFails, Goto, ClientInv, WorkerTypes
<1>10. CASE WorkerPanics(w)
  BY <1>t, <1>1, <1>10 DEF WorkerPanics, Goto, ClientInv, WorkerTypes
<1>11. CASE SendResult(w)
  BY <1>t, <1>1, <1>11 DEF SendResult, Goto, ClientInv, WorkerTypes
<1>12. CASE AfterSend(w)
  BY <1>t, <1>1, <1>12 DEF AfterSend, Goto, ClientInv, WorkerTypes
<1>13. CASE Reconnect(w)
  BY <1>t, <1>1, <1>13 DEF Reconnect, Goto, ClientInv, WorkerTypes
<1>14. CASE SendExited(w)
  BY <1>t, <1>1, <1>14 DEF SendExited, Goto, ClientInv, WorkerTypes
<1>15. CASE StopClient(w)
  BY <1>t, <1>1, <1>15 DEF StopClient, Goto, ClientInv, WorkerTypes
<1> QED BY <1>2, <1>3, <1>4, <1>5, <1>6, <1>7, <1>8, <1>9, <1>10, <1>11, <1>12, <1>13, <1>14, <1>15 DEF Worker

(* A worker never evaluates with an evaluator that failed or exited, even  *)
(* though it skips the reconnection when cancellation was requested.       *)
THEOREM ClientUsable == Spec => []EvaluatesWithLiveClient
<1>1. Init => ClientInv
  BY DEF Init, ClientInv
<1>2. TypeOK /\ ClientInv /\ [Next]_vars => ClientInv'
  <2> SUFFICES ASSUME TypeOK, ClientInv, [Next]_vars PROVE ClientInv'
    OBVIOUS
  <2>1. CASE Coordinator
    <3>1. CASE AbortWorker
      BY <3>1 DEF AbortWorker, ClientInv, TypeOK, WorkerTypes
    <3>2. CASE ~AbortWorker
      <4>1. UNCHANGED <<workerVars, cancel>>
        BY <2>1, <3>2 DEF Coordinator, ObserveCancel, BeginDispatch, DispatchWork,
           DispatchWait, DispatchEnd, AfterDispatch, ReceiveReady, ReceiveEnd,
           ReceiveResult, SinkAccepts, SinkFails, StopWorker, JoinWorker
      <4> QED BY <4>1 DEF ClientInv, workerVars
    <3> QED BY <3>1, <3>2
  <2>2. ASSUME NEW w \in Workers, Worker(w) PROVE ClientInv'
    BY <2>2, WorkerKeepsClient
  <2>3. CASE RequestCancel
    BY <2>3 DEF RequestCancel, ClientInv, workerVars
  <2>4. CASE Finished \/ UNCHANGED vars
    BY <2>4 DEF Finished, vars, ClientInv
  <2> QED BY <2>1, <2>2, <2>3, <2>4 DEF Next
<1>3. ClientInv => EvaluatesWithLiveClient
  BY DEF ClientInv, EvaluatesWithLiveClient
<1> QED BY <1>1, <1>2, <1>3, TypeCorrect, PTL DEF Spec

------------------------------------------------------------------------------
(* Teardown. *)

(* The teardown loops leave only ended tasks behind them. *)
TeardownInv ==
    /\ cpc \in {"join", "abort"} => \A v \in Workers : v < cursor => wpc[v] \in EndedOk
    /\ outcome # "none" => cpc = "returned"
    /\ outcome \in {"completed", "cancelled"} => \A v \in Workers : wpc[v] \in EndedOk

LEMMA CoordinatorKeepsTeardown ==
  ASSUME TypeOK, TeardownInv, Coordinator PROVE TeardownInv'
<1>t. CoordinatorTypes /\ WorkerTypes
  BY DEF TypeOK
<1>1. CASE ObserveCancel \/ DispatchWork \/ DispatchEnd \/ AfterDispatch \/ ReceiveEnd
           \/ ReceiveResult \/ SinkAccepts \/ SinkFails \/ BeginDispatch \/ DispatchWait
           \/ ReceiveReady
  <2>1. /\ cpc \in Running /\ outcome' = outcome
        /\ cpc' = "abort" => cursor' = 1
        /\ cpc' # "join"
    BY <1>1 DEF ObserveCancel, DispatchWork, DispatchEnd, AfterDispatch, ReceiveEnd,
       ReceiveResult, SinkAccepts, SinkFails, BeginDispatch, DispatchWait, ReceiveReady,
       Leave, Running
  <2>2. outcome = "none"
    BY <2>1 DEF TeardownInv, Running
  <2> QED BY <2>1, <2>2 DEF TeardownInv, Workers
<1>2. CASE StopWorker
  <2>1. outcome = "none" /\ outcome' = outcome /\ (cpc' = "join" => cursor' = 1)
        /\ cpc' # "abort"
    BY <1>2 DEF StopWorker, NextWorker, TeardownInv
  <2> QED BY <2>1 DEF TeardownInv, Workers
<1>3. CASE JoinWorker \/ AbortWorker
  <2>1. cursor \in Workers /\ outcome = "none" /\ cpc \in {"join", "abort"}
    BY <1>t, <1>3 DEF JoinWorker, AbortWorker, CoordinatorTypes, Teardown, TeardownInv
  <2>2. /\ \A v \in Workers : wpc[v] \in EndedOk => wpc'[v] = wpc[v]
        /\ wpc[cursor] # "exitedErr" => wpc'[cursor] \in EndedOk
    BY <1>t, <1>3, <2>1 DEF JoinWorker, AbortWorker, workerVars, WorkerTypes, Ended, EndedOk
  <2>3. CASE wpc[cursor] = "exitedErr"
    BY <1>3, <2>1, <2>3 DEF JoinWorker, AbortWorker, Return, TeardownInv
  <2>4. CASE wpc[cursor] # "exitedErr" /\ cursor < N
    <3>1. cursor' = cursor + 1 /\ UNCHANGED <<cpc, outcome>>
      BY <1>3, <2>4 DEF JoinWorker, AbortWorker, NextWorker
    <3>2. \A v \in Workers : v < cursor + 1 => v < cursor \/ v = cursor
      BY <2>1 DEF Workers
    <3> QED BY <2>1, <2>2, <2>4, <3>1, <3>2 DEF TeardownInv
  <2>5. CASE wpc[cursor] # "exitedErr" /\ ~(cursor < N)
    <3>1. outcome' = result /\ cpc' = "returned"
      BY <1>3, <2>5 DEF JoinWorker, AbortWorker, NextWorker, Return
    <3>2. \A v \in Workers : v < cursor \/ v = cursor
      BY <2>1, <2>5, WorkersExist DEF Workers
    <3> QED BY <2>1, <2>2, <2>5, <3>1, <3>2 DEF TeardownInv
  <2> QED BY <2>3, <2>4, <2>5
<1> QED BY <1>1, <1>2, <1>3 DEF Coordinator

LEMMA TeardownHolds == Spec => []TeardownInv
<1>1. Init => TeardownInv
  BY DEF Init, TeardownInv
<1>2. TypeOK /\ TeardownInv /\ [Next]_vars => TeardownInv'
  <2> SUFFICES ASSUME TypeOK, TeardownInv, [Next]_vars PROVE TeardownInv'
    OBVIOUS
  <2>1. CASE Coordinator
    BY <2>1, CoordinatorKeepsTeardown
  <2>2. ASSUME NEW w \in Workers, Worker(w) PROVE TeardownInv'
    <3>1. UNCHANGED coordinatorVars
      BY <2>2 DEF Worker, Connect, ConnectInterrupted, SendReady, TakeCommand,
         WorkTxDropped, SendCancelled, Evaluate, EvaluateFails, WorkerPanics, SendResult,
         AfterSend, Reconnect, SendExited, StopClient
    <3>2. \A v \in Workers : wpc[v] \in EndedOk => wpc'[v] = wpc[v]
      BY <2>2 DEF Worker, Connect, ConnectInterrupted, SendReady, TakeCommand,
         WorkTxDropped, SendCancelled, Evaluate, EvaluateFails, WorkerPanics, SendResult,
         AfterSend, Reconnect, SendExited, StopClient, Goto, EndedOk, TypeOK, WorkerTypes
    <3> QED BY <3>1, <3>2 DEF TeardownInv, coordinatorVars
  <2>3. CASE RequestCancel \/ Finished \/ UNCHANGED vars
    BY <2>3 DEF RequestCancel, Finished, vars, coordinatorVars, workerVars, TeardownInv
  <2> QED BY <2>1, <2>2, <2>3 DEF Next
<1> QED BY <1>1, <1>2, TypeCorrect, PTL DEF Spec

(* When run() answers Completed or Cancelled, every worker task has ended  *)
(* without an error.                                                       *)
THEOREM CleanReturn == Spec => []NoTaskLeftBehind
<1>1. TeardownInv => NoTaskLeftBehind
  BY DEF TeardownInv, NoTaskLeftBehind
<1> QED BY <1>1, TeardownHolds, PTL

------------------------------------------------------------------------------
(* Conservation of work: the inductive invariant. *)

(* The places a path can be in: the queue, a work channel, a task, the     *)
(* result channel, the sink.                                               *)
Waits(p) == \E i \in DOMAIN todo : todo[i] = p
Carries(w, p) == \E i \in DOMAIN work[w] : work[w][i].type = "Work" /\ work[w][i].item = p
Holds(w, p) == item[w] = p
Answers(i, p) == results[i].type = "Result" /\ results[i].item = p
Answered(p) == \E i \in DOMAIN results : Answers(i, p)
Seen(p) == emitted[p] # <<>>
WithTask(p) == \E w \in Workers : Carries(w, p) \/ Holds(w, p)
Flies(p) == WithTask(p) \/ Answered(p)

(* A path is in one place at most, and exactly the discovered ones are in  *)
(* one.                                                                    *)
PathInv(p) ==
    /\ \A i, j \in DOMAIN todo : todo[i] = p /\ todo[j] = p => i = j
    /\ \A v, w \in Workers : Carries(v, p) /\ Carries(w, p) => v = w
    /\ \A v, w \in Workers : Holds(v, p) /\ Holds(w, p) => v = w
    /\ \A v, w \in Workers : ~(Carries(v, p) /\ Holds(w, p))
    /\ \A i, j \in DOMAIN results : Answers(i, p) /\ Answers(j, p) => i = j
    /\ WithTask(p) => ~Answered(p)
    /\ Waits(p) => ~Flies(p)
    /\ Seen(p) => ~Waits(p) /\ ~Flies(p)
    /\ Len(emitted[p]) <= 1
    /\ p \in Discovered <=> Waits(p) \/ Flies(p) \/ Seen(p)

Flying == {p \in Paths : Flies(p)}

PathsInv ==
    /\ \A p \in Paths : PathInv(p)
    /\ IsFiniteSet(Flying) /\ active = Cardinality(Flying)

(* Where a task holds no path. *)
EmptyHanded == {"connect", "sendReady", "recv", "sent", "reconnect", "restart"}

WorkInv ==
    /\ \A w \in Workers : wpc[w] \in EmptyHanded => item[w] = NoPath
    /\ cpc \in Running => PathsInv

(* While coordinate() runs nothing has been decided, and a task that ended *)
(* has left a message that says so.                                        *)
Says(type) == \E i \in DOMAIN results : results[i].type = type

CoordinatorControl ==
    /\ result = "none" /\ outcome = "none"
    /\ error # "unowned"
    /\ cpc # "emit" => error = "none"
    /\ cpc = "dispatch" => cursor = Len(idle) \/ (todo = <<>> /\ active # 0)
    /\ Says("Cancelled") => cancel
    /\ Says("Exited") => \E w \in Workers : wpc[w] = "exitedErr"

TaskControl(w) ==
    /\ wpc[w] # "aborted"
    /\ wpc[w] = "exitedErr" => Says("Exited")
    /\ wpc[w] \in {"stopping", "exitedOk"} => Says("Cancelled")
    /\ wpc[w] = "sendCancelled" => cancel
    /\ wpc[w] \in {"sendCancelled", "stopping", "exitedOk"} =>
          ~Queued(w) /\ ~Reporting(w) /\ ~Commanded(w)
    /\ \A i \in DOMAIN work[w] : work[w][i].type = "Work"

ControlInv ==
    cpc \in Running => CoordinatorControl /\ \A w \in Workers : TaskControl(w)

------------------------------------------------------------------------------
(* Conservation of work. *)

LEMMA InitWork == Init => WorkInv
<1> SUFFICES ASSUME Init PROVE WorkInv
  OBVIOUS
<1>1. /\ todo = <<Root>> /\ results = <<>> /\ active = 0
      /\ \A w \in Workers : work[w] = <<>> /\ item[w] = NoPath
      /\ \A p \in Paths : emitted[p] = <<>>
  BY DEF Init
<1>2. \A p \in Paths : /\ Waits(p) <=> p = Root
                       /\ ~Answered(p) /\ ~Seen(p)
                       /\ \A w \in Workers : ~Carries(w, p) /\ ~Holds(w, p)
  BY <1>1, NoPathAssumption DEF Waits, Answered, Seen, Carries, Holds
<1>3. \A p \in Paths : ~Flies(p)
  BY <1>2 DEF Flies, WithTask
<1>4. \A p \in Paths : p \in Discovered <=> p = Root
  <2>1. \A q \in Paths : "attrset" \notin Range(emitted[q])
    BY <1>1 DEF Range
  <2> QED BY <2>1, ConstantsAssumption DEF Discovered
<1>5. \A p \in Paths : PathInv(p)
  <2>1. \A i, j \in DOMAIN todo : i = j
    BY <1>1
  <2>2. DOMAIN results = {}
    BY <1>1
  <2> QED BY <1>1, <1>2, <1>3, <1>4, <2>1, <2>2 DEF PathInv, WithTask
<1>6. Flying = {}
  BY <1>3 DEF Flying
<1> QED BY <1>1, <1>5, <1>6, FS_EmptySet DEF WorkInv, PathsInv

(* A step that moves no path. *)
LEMMA QuietKeepsPaths ==
  ASSUME PathsInv, UNCHANGED <<todo, active, work, item, results, emitted>>
  PROVE  PathsInv'
BY DEF PathsInv, PathInv, Waits, Carries, Holds, Answers, Answered, Seen, WithTask, Flies,
   Flying, Discovered

(* The first path of the queue goes into the empty channel of a worker. *)
LEMMA DispatchKeepsPaths ==
  ASSUME TypeOK, PathsInv, NEW h \in Workers, work[h] = <<>>, todo # <<>>,
         todo' = Tail(todo), active' = active + 1,
         work' = [work EXCEPT ![h] = <<[type |-> "Work", item |-> Head(todo)]>>],
         UNCHANGED <<item, results, emitted>>
  PROVE  PathsInv'
<1> DEFINE p0 == Head(todo)
<1>t. todo \in Seq(Paths) /\ work \in [Workers -> Seq(Commands)]
  BY DEF TypeOK, CoordinatorTypes, ChannelTypes
<1>1. /\ p0 \in Paths /\ p0 = todo[1] /\ Len(todo) \in Nat \ {0}
      /\ DOMAIN todo = 1..Len(todo) /\ DOMAIN todo' = 1..(Len(todo) - 1)
      /\ \A i \in DOMAIN todo' : todo'[i] = todo[i + 1]
  BY <1>t, HeadTailType
<1>w. /\ work'[h] = <<[type |-> "Work", item |-> p0]>>
      /\ \A w \in Workers : w # h => work'[w] = work[w]
  BY <1>t
<1> HIDE DEF p0
<1>2. \A p \in Paths : \A i, j \in DOMAIN todo : todo[i] = p /\ todo[j] = p => i = j
  BY DEF PathsInv, PathInv
<1>3. Waits(p0)
  BY <1>1 DEF Waits
<1>4. \A p \in Paths : Waits(p)' <=> Waits(p) /\ p # p0
  <2>1. ASSUME NEW p \in Paths, Waits(p), p # p0 PROVE Waits(p)'
    <3>1. PICK i \in DOMAIN todo : todo[i] = p
      BY <2>1 DEF Waits
    <3>2. i - 1 \in DOMAIN todo' /\ todo'[i - 1] = p
      BY <1>1, <2>1, <3>1
    <3> QED BY <3>2 DEF Waits
  <2>2. ASSUME NEW p \in Paths, Waits(p)' PROVE Waits(p) /\ p # p0
    <3>1. PICK i \in DOMAIN todo' : todo'[i] = p
      BY <2>2 DEF Waits
    <3>2. i + 1 \in DOMAIN todo /\ i + 1 # 1 /\ todo[i + 1] = p /\ 1 \in DOMAIN todo
      BY <1>1, <3>1
    <3> QED BY <1>1, <1>2, <3>2 DEF Waits
  <2> QED BY <2>1, <2>2
<1>5. \A p \in Paths : \A i, j \in DOMAIN todo' : todo'[i] = p /\ todo'[j] = p => i = j
  <2> SUFFICES ASSUME NEW p \in Paths, NEW i \in DOMAIN todo', NEW j \in DOMAIN todo',
                      todo'[i] = p, todo'[j] = p
               PROVE  i = j
    OBVIOUS
  <2>1. i + 1 \in DOMAIN todo /\ j + 1 \in DOMAIN todo /\ todo[i + 1] = p /\ todo[j + 1] = p
    BY <1>1
  <2>2. i + 1 = j + 1
    BY <1>2, <2>1
  <2> QED BY <1>1, <2>2
<1>6. \A w \in Workers, p \in Paths : Carries(w, p)' <=> Carries(w, p) \/ (w = h /\ p = p0)
  <2>1. \A w \in Workers, p \in Paths : w # h => (Carries(w, p)' <=> Carries(w, p))
    BY <1>w DEF Carries
  <2>2. \A p \in Paths : Carries(h, p)' <=> p = p0
    BY <1>w DEF Carries
  <2>3. \A p \in Paths : ~Carries(h, p)
    BY DEF Carries
  <2> QED BY <2>1, <2>2, <2>3
<1>7. \A p \in Paths : /\ \A w \in Workers : Holds(w, p)' <=> Holds(w, p)
                       /\ \A i \in DOMAIN results : Answers(i, p)' <=> Answers(i, p)
                       /\ Answered(p)' <=> Answered(p)
                       /\ Seen(p)' <=> Seen(p)
  BY DEF Holds, Answers, Answered, Seen
<1>8. \A p \in Paths : Flies(p)' <=> Flies(p) \/ p = p0
  BY <1>6, <1>7 DEF Flies, WithTask
<1>9. Discovered' = Discovered
  BY DEF Discovered
<1>10. ~Flies(p0) /\ ~Seen(p0)
  BY <1>1, <1>3 DEF PathsInv, PathInv
<1>11. ASSUME NEW p \in Paths PROVE PathInv(p)'
  <2>1. PathInv(p)
    BY DEF PathsInv
  <2>2. WithTask(p)' <=> WithTask(p) \/ p = p0
    BY <1>6, <1>7 DEF WithTask
  <2>3. CASE p = p0
    <3>1. /\ ~Flies(p) /\ ~Seen(p) /\ ~WithTask(p) /\ ~Answered(p)
          /\ \A w \in Workers : ~Carries(w, p) /\ ~Holds(w, p)
      BY <1>10, <2>3 DEF Flies, WithTask
    <3> QED BY <1>3, <1>4, <1>5, <1>6, <1>7, <1>8, <1>9, <2>1, <2>2, <2>3, <3>1 DEF PathInv
  <2>4. CASE p # p0
    BY <1>4, <1>5, <1>6, <1>7, <1>8, <1>9, <2>1, <2>2, <2>4 DEF PathInv
  <2> QED BY <2>3, <2>4
<1>12. Flying' = Flying \union {p0} /\ p0 \notin Flying
  BY <1>1, <1>8, <1>10 DEF Flying
<1>13. IsFiniteSet(Flying') /\ Cardinality(Flying') = Cardinality(Flying) + 1
  BY <1>12, FS_AddElement DEF PathsInv
<1> QED BY <1>11, <1>13 DEF PathsInv

(* A worker task takes the command from its channel. *)
LEMMA TakeKeepsPaths ==
  ASSUME TypeOK, PathsInv, NEW w \in Workers, item[w] = NoPath, work[w] # <<>>,
         Head(work[w]).type = "Work",
         work' = [work EXCEPT ![w] = <<>>],
         item' = [item EXCEPT ![w] = Head(work[w]).item],
         UNCHANGED <<todo, active, results, emitted>>
  PROVE  PathsInv'
<1>t. /\ work \in [Workers -> Seq(Commands)] /\ Len(work[w]) <= 1
      /\ item \in [Workers -> Paths \union {NoPath}]
  BY DEF TypeOK, ChannelTypes, WorkerTypes
<1> DEFINE p0 == Head(work[w]).item
<1>1. /\ work'[w] = <<>> /\ item'[w] = p0
      /\ \A v \in Workers : v # w => work'[v] = work[v] /\ item'[v] = item[v]
  BY <1>t
<1>2. p0 \in Paths /\ \A p \in Paths : Carries(w, p) <=> p = p0
  <2>1. /\ work[w] \in Seq(Commands) /\ DOMAIN work[w] = {1}
        /\ Head(work[w]) = work[w][1] /\ work[w][1] \in Commands
    BY <1>t
  <2> QED BY <2>1 DEF Carries, Commands
<1> HIDE DEF p0
<1>3. \A v \in Workers, p \in Paths : /\ Carries(v, p)' <=> Carries(v, p) /\ v # w
                                      /\ Holds(v, p)' <=> Holds(v, p) \/ (v = w /\ p = p0)
  <2>1. \A p \in Paths : ~Carries(w, p)' /\ ~Holds(w, p) /\ (Holds(w, p)' <=> p = p0)
    BY <1>1, NoPathAssumption DEF Carries, Holds
  <2>2. \A v \in Workers, p \in Paths :
           v # w => (Carries(v, p)' <=> Carries(v, p)) /\ (Holds(v, p)' <=> Holds(v, p))
    BY <1>1 DEF Carries, Holds
  <2> QED BY <2>1, <2>2
<1>4. \A p \in Paths : /\ Waits(p)' <=> Waits(p)
                       /\ \A i \in DOMAIN results : Answers(i, p)' <=> Answers(i, p)
                       /\ Answered(p)' <=> Answered(p)
                       /\ Seen(p)' <=> Seen(p)
  BY DEF Waits, Answers, Answered, Seen
<1>5. \A p \in Paths : /\ WithTask(p)' <=> WithTask(p)
                       /\ Flies(p)' <=> Flies(p)
  <2>1. \A p \in Paths : WithTask(p)' <=> WithTask(p)
    BY <1>2, <1>3 DEF WithTask
  <2> QED BY <2>1, <1>4 DEF Flies
<1>6. Discovered' = Discovered
  BY DEF Discovered
<1>7. ASSUME NEW p \in Paths PROVE PathInv(p)'
  <2>1. PathInv(p)
    BY DEF PathsInv
  <2> QED BY <1>2, <1>3, <1>4, <1>5, <1>6, <2>1 DEF PathInv
<1>8. Flying' = Flying
  BY <1>5 DEF Flying
<1> QED BY <1>7, <1>8 DEF PathsInv

(* A message that is no result goes into the result channel. *)
LEMMA OtherMessageKeepsPaths ==
  ASSUME TypeOK, PathsInv, NEW m \in Messages, m.type # "Result",
         results' = Append(results, m),
         UNCHANGED <<todo, active, work, item, emitted>>
  PROVE  PathsInv'
<1>t. results \in Seq(Messages)
  BY DEF TypeOK, ChannelTypes
<1>k. PICK k \in Nat : k = Len(results)
  BY <1>t
<1>1. /\ DOMAIN results = 1..k /\ DOMAIN results' = 1..(k + 1)
      /\ \A i \in 1..k : results'[i] = results[i]
      /\ results'[k + 1] = m
  BY <1>t, <1>k, AppendType
<1>2. \A p \in Paths : /\ \A i \in 1..k : Answers(i, p)' <=> Answers(i, p)
                       /\ ~Answers(k + 1, p)'
  BY <1>1 DEF Answers
<1>3. \A p \in Paths : Answered(p)' <=> Answered(p)
  BY <1>1, <1>2 DEF Answered
<1>4. \A p \in Paths : /\ Waits(p)' <=> Waits(p)
                       /\ \A w \in Workers : /\ Carries(w, p)' <=> Carries(w, p)
                                             /\ Holds(w, p)' <=> Holds(w, p)
                       /\ Seen(p)' <=> Seen(p)
  BY DEF Waits, Carries, Holds, Seen
<1>5. \A p \in Paths : /\ WithTask(p)' <=> WithTask(p)
                       /\ Flies(p)' <=> Flies(p)
  BY <1>3, <1>4 DEF WithTask, Flies
<1>6. Discovered' = Discovered
  BY DEF Discovered
<1>7. ASSUME NEW p \in Paths PROVE PathInv(p)'
  <2>1. PathInv(p)
    BY DEF PathsInv
  <2>2. \A i, j \in DOMAIN results' : Answers(i, p)' /\ Answers(j, p)' => i = j
    BY <1>1, <1>2, <2>1 DEF PathInv
  <2> QED BY <1>3, <1>4, <1>5, <1>6, <2>1, <2>2 DEF PathInv
<1>8. Flying' = Flying
  BY <1>5 DEF Flying
<1> QED BY <1>7, <1>8 DEF PathsInv

(* A worker task puts the result for its path into the result channel. *)
LEMMA ResultKeepsPaths ==
  ASSUME TypeOK, PathsInv, NEW w \in Workers, item[w] \in Paths,
         NEW m \in Messages, m.type = "Result", m.item = item[w],
         results' = Append(results, m),
         item' = [item EXCEPT ![w] = NoPath],
         UNCHANGED <<todo, active, work, emitted>>
  PROVE  PathsInv'
<1>t. results \in Seq(Messages) /\ item \in [Workers -> Paths \union {NoPath}]
  BY DEF TypeOK, ChannelTypes, WorkerTypes
<1>k. PICK k \in Nat : k = Len(results)
  BY <1>t
<1>1. /\ DOMAIN results = 1..k /\ DOMAIN results' = 1..(k + 1)
      /\ \A i \in 1..k : results'[i] = results[i]
      /\ results'[k + 1] = m
  BY <1>t, <1>k, AppendType
<1>2. PICK p0 \in Paths : p0 = item[w]
  OBVIOUS
<1>3. \A p \in Paths : /\ \A i \in 1..k : Answers(i, p)' <=> Answers(i, p)
                       /\ Answers(k + 1, p)' <=> p = p0
  BY <1>1, <1>2 DEF Answers
<1>4. \A p \in Paths : Answered(p)' <=> Answered(p) \/ p = p0
  BY <1>1, <1>3 DEF Answered
<1>5. \A p \in Paths : \A v \in Workers : /\ Carries(v, p)' <=> Carries(v, p)
                                          /\ Holds(v, p)' <=> Holds(v, p) /\ v # w
  BY <1>t, NoPathAssumption DEF Carries, Holds
<1>6. \A p \in Paths : /\ Waits(p)' <=> Waits(p)
                       /\ Seen(p)' <=> Seen(p)
                       /\ Holds(w, p) <=> p = p0
  BY <1>2 DEF Waits, Seen, Holds
<1>7. \A p \in Paths : PathInv(p)
  BY DEF PathsInv
<1>8. \A p \in Paths : /\ WithTask(p)' <=> WithTask(p) /\ p # p0
                       /\ WithTask(p0)
  <2>1. WithTask(p0)
    BY <1>6 DEF WithTask
  <2>2. \A v \in Workers : ~Carries(v, p0) /\ (Holds(v, p0) => v = w)
    BY <1>6, <1>7 DEF PathInv
  <2> QED BY <1>5, <1>6, <2>1, <2>2 DEF WithTask
<1>9. \A p \in Paths : Flies(p)' <=> Flies(p)
  BY <1>4, <1>8 DEF Flies
<1>10. Discovered' = Discovered
  BY DEF Discovered
<1>11. ASSUME NEW p \in Paths PROVE PathInv(p)'
  <2>1. \A i, j \in DOMAIN results' : Answers(i, p)' /\ Answers(j, p)' => i = j
    <3>1. \A i \in 1..k : ~Answers(i, p0)
      BY <1>1, <1>7, <1>8 DEF PathInv, Answered
    <3> QED BY <1>1, <1>3, <1>7, <3>1 DEF PathInv
  <2> QED BY <1>4, <1>5, <1>6, <1>7, <1>8, <1>9, <1>10, <2>1 DEF PathInv
<1>12. Flying' = Flying
  BY <1>9 DEF Flying
<1> QED BY <1>11, <1>12 DEF PathsInv

(* The coordinator takes a message that is no result from the channel. *)
LEMMA ReceiveOtherKeepsPaths ==
  ASSUME TypeOK, PathsInv, results # <<>>, Head(results).type # "Result",
         results' = Tail(results),
         UNCHANGED <<todo, active, work, item, emitted>>
  PROVE  PathsInv'
<1>t. results \in Seq(Messages)
  BY DEF TypeOK, ChannelTypes
<1>k. PICK k \in Nat : k + 1 = Len(results)
  BY <1>t, HeadTailType
<1>1. /\ DOMAIN results = 1..(k + 1) /\ DOMAIN results' = 1..k
      /\ \A i \in 1..k : results'[i] = results[i + 1]
      /\ results[1].type # "Result"
  BY <1>t, <1>k, HeadTailType
<1>2. \A p \in Paths : /\ \A i \in 1..k : Answers(i, p)' <=> Answers(i + 1, p)
                       /\ ~Answers(1, p)
  BY <1>1 DEF Answers
<1>3. ASSUME NEW p \in Paths PROVE Answered(p)' <=> Answered(p)
  <2>1. ASSUME NEW i \in DOMAIN results, Answers(i, p) PROVE Answered(p)'
    <3>1. i - 1 \in 1..k /\ (i - 1) + 1 = i
      BY <1>1, <1>2, <2>1
    <3> QED BY <1>1, <1>2, <2>1, <3>1 DEF Answered
  <2>2. ASSUME NEW i \in DOMAIN results', Answers(i, p)' PROVE Answered(p)
    <3>1. i + 1 \in DOMAIN results
      BY <1>1
    <3> QED BY <1>1, <1>2, <2>2, <3>1 DEF Answered
  <2> QED BY <2>1, <2>2 DEF Answered
<1>4. \A p \in Paths : /\ Waits(p)' <=> Waits(p)
                       /\ \A w \in Workers : /\ Carries(w, p)' <=> Carries(w, p)
                                             /\ Holds(w, p)' <=> Holds(w, p)
                       /\ Seen(p)' <=> Seen(p)
  BY DEF Waits, Carries, Holds, Seen
<1>5. \A p \in Paths : /\ WithTask(p)' <=> WithTask(p)
                       /\ Flies(p)' <=> Flies(p)
  BY <1>3, <1>4 DEF WithTask, Flies
<1>6. Discovered' = Discovered
  BY DEF Discovered
<1>7. ASSUME NEW p \in Paths PROVE PathInv(p)'
  <2>1. PathInv(p)
    BY DEF PathsInv
  <2>2. \A i, j \in DOMAIN results' : Answers(i, p)' /\ Answers(j, p)' => i = j
    <3> SUFFICES ASSUME NEW i \in 1..k, NEW j \in 1..k, Answers(i, p)', Answers(j, p)'
                 PROVE  i = j
      BY <1>1
    <3>a. i + 1 \in DOMAIN results /\ j + 1 \in DOMAIN results
      BY <1>1
    <3>b. Answers(i + 1, p) /\ Answers(j + 1, p)
      BY <1>2
    <3>1. i + 1 = j + 1
      BY <2>1, <3>a, <3>b DEF PathInv
    <3> QED BY <3>1
  <2> QED BY <1>3, <1>4, <1>5, <1>6, <2>1, <2>2 DEF PathInv
<1>8. Flying' = Flying
  BY <1>5 DEF Flying
<1> QED BY <1>7, <1>8 DEF PathsInv

(* The children of a path that was not yet reported are new. *)
LEMMA ChildrenAreNew ==
  ASSUME NEW p \in Paths, "attrset" \notin Range(emitted[p]),
         NEW i \in DOMAIN Children[p]
  PROVE  Children[p][i] \notin Discovered
<1>1. Children[p][i] # Root
  BY TreeAssumption
<1>2. ASSUME NEW q \in Paths, "attrset" \in Range(emitted[q]), Children[p][i] \in Range(Children[q])
      PROVE  FALSE
  <2>1. PICK j \in DOMAIN Children[q] : Children[p][i] = Children[q][j]
    BY <1>2 DEF Range
  <2>2. p = q
    BY <2>1, TreeAssumption
  <2> QED BY <1>2, <2>2
<1> QED BY <1>1, <1>2 DEF Discovered

(* What an event adds to the discovered paths. *)
LEMMA DiscoveredGrows ==
  ASSUME TypeOK, NEW p \in Paths, NEW event \in Events, emitted[p] = <<>>,
         emitted' = [emitted EXCEPT ![p] = Append(@, event)]
  PROVE  /\ Discovered' = Discovered \union Range(Expand(p, event))
         /\ emitted'[p] = <<event>>
         /\ \A q \in Paths : q # p => emitted'[q] = emitted[q]
<1>t. emitted \in [Paths -> Seq(Events)]
  BY DEF TypeOK, CoordinatorTypes
<1>1. emitted'[p] = <<event>> /\ \A q \in Paths : q # p => emitted'[q] = emitted[q]
  BY <1>t
<1>2. "attrset" \notin Range(emitted[p]) /\ ("attrset" \in Range(emitted'[p]) <=> event = "attrset")
  BY <1>1 DEF Range
<1>3. {q \in Paths : "attrset" \in Range(emitted'[q])}
        = {q \in Paths : "attrset" \in Range(emitted[q])}
            \union (IF event = "attrset" THEN {p} ELSE {})
  BY <1>1, <1>2
<1>4. Range(Expand(p, event)) = IF event = "attrset" THEN Range(Children[p]) ELSE {}
  BY DEF Expand, Range
<1>5. Discovered' = {Root} \union UNION {Range(Children[q]) :
                       q \in {r \in Paths : "attrset" \in Range(emitted'[r])}}
  BY DEF Discovered
<1>6. Discovered' = Discovered \union Range(Expand(p, event))
  <2>1. CASE event = "attrset"
    BY <1>3, <1>4, <1>5, <2>1, Zenon DEF Discovered
  <2>2. CASE event # "attrset"
    BY <1>3, <1>4, <1>5, <2>2 DEF Discovered
  <2> QED BY <2>1, <2>2
<1> QED BY <1>1, <1>6

(* The coordinator takes a result: its path is reported and what it        *)
(* expands to is queued.                                                   *)
LEMMA ReceiveResultKeepsPaths ==
  ASSUME TypeOK, PathsInv, results # <<>>, NEW p0 \in Paths, NEW event \in Events,
         Head(results).type = "Result", Head(results).item = p0,
         results' = Tail(results), active' = active - 1,
         todo' = todo \o Expand(p0, event),
         emitted' = [emitted EXCEPT ![p0] = Append(@, event)],
         UNCHANGED <<work, item>>
  PROVE  PathsInv'
<1>t. results \in Seq(Messages) /\ todo \in Seq(Paths)
  BY DEF TypeOK, ChannelTypes, CoordinatorTypes
<1>e. Expand(p0, event) \in Seq(Paths)
  BY ConstantsAssumption DEF Expand
<1>i. \A p \in Paths : PathInv(p)
  BY DEF PathsInv
<1>k. PICK k \in Nat : k + 1 = Len(results)
  <2>1. Len(results) \in Nat \ {0}
    BY <1>t, HeadTailType
  <2>2. Len(results) - 1 \in Nat /\ (Len(results) - 1) + 1 = Len(results)
    BY <2>1
  <2> QED BY <2>2
<1>1. /\ DOMAIN results = 1..(k + 1) /\ DOMAIN results' = 1..k
      /\ \A i \in 1..k : results'[i] = results[i + 1]
      /\ results[1] = Head(results)
  BY <1>t, <1>k, HeadTailType
<1>2. \A p \in Paths : /\ \A i \in 1..k : Answers(i, p)' <=> Answers(i + 1, p)
                       /\ Answers(1, p) <=> p = p0
  BY <1>1 DEF Answers
<1>3. Answered(p0) /\ Flies(p0) /\ ~Seen(p0) /\ ~WithTask(p0) /\ ~Waits(p0) /\ p0 \in Discovered
  <2>1. Answered(p0)
    BY <1>1, <1>2 DEF Answered
  <2> QED BY <1>i, <2>1 DEF PathInv, Flies
<1>4. ASSUME NEW p \in Paths PROVE Answered(p)' <=> Answered(p) /\ p # p0
  <2>1. ASSUME NEW i \in DOMAIN results, Answers(i, p), p # p0 PROVE Answered(p)'
    <3>a. i # 1
      BY <1>2, <2>1
    <3>1. i - 1 \in 1..k /\ (i - 1) + 1 = i
      BY <1>1, <3>a
    <3> QED BY <1>1, <1>2, <2>1, <3>1 DEF Answered
  <2>2. ASSUME NEW i \in DOMAIN results', Answers(i, p)' PROVE Answered(p) /\ p # p0
    <3>1. i + 1 \in DOMAIN results /\ i + 1 # 1 /\ Answers(i + 1, p) /\ 1 \in DOMAIN results
      BY <1>1, <1>2, <2>2
    <3>2. p # p0
      BY <1>2, <1>i, <3>1 DEF PathInv
    <3> QED BY <3>1, <3>2 DEF Answered
  <2> QED BY <2>1, <2>2 DEF Answered
<1>5. \A p \in Paths : \A w \in Workers : /\ Carries(w, p)' <=> Carries(w, p)
                                          /\ Holds(w, p)' <=> Holds(w, p)
  BY DEF Carries, Holds
<1>6. \A p \in Paths : WithTask(p)' <=> WithTask(p)
  BY <1>5 DEF WithTask
<1>7. \A p \in Paths : Flies(p)' <=> Flies(p) /\ p # p0
  BY <1>3, <1>4, <1>6 DEF Flies
<1>8. /\ Discovered' = Discovered \union Range(Expand(p0, event))
      /\ emitted'[p0] = <<event>>
      /\ \A q \in Paths : q # p0 => emitted'[q] = emitted[q]
  BY <1>3, DiscoveredGrows DEF Seen
<1>9. \A p \in Paths : Seen(p)' <=> Seen(p) \/ p = p0
  <2>1. <<event>> # <<>>
    OBVIOUS
  <2> QED BY <1>8, <2>1 DEF Seen
<1>10. ASSUME NEW i \in DOMAIN Expand(p0, event)
       PROVE  Expand(p0, event)[i] \notin Discovered
  <2>1. event = "attrset" /\ Expand(p0, event) = Children[p0]
    BY <1>10 DEF Expand
  <2>2. "attrset" \notin Range(emitted[p0])
    BY <1>3 DEF Seen, Range
  <2> QED BY <1>10, <2>1, <2>2, ChildrenAreNew
<1>11. \A i, j \in DOMAIN Expand(p0, event) :
          Expand(p0, event)[i] = Expand(p0, event)[j] => i = j
  BY TreeAssumption DEF Expand
<1> DEFINE c == Expand(p0, event)
           n == Len(todo)
<1>12. /\ n \in Nat /\ Len(c) \in Nat /\ DOMAIN todo = 1..n /\ DOMAIN c = 1..Len(c)
       /\ DOMAIN todo' = 1..(n + Len(c))
       /\ \A i \in 1..n : todo'[i] = todo[i]
       /\ \A i \in (n + 1)..(n + Len(c)) : i - n \in DOMAIN c /\ todo'[i] = c[i - n]
       /\ \A i \in DOMAIN c : n + i \in DOMAIN todo' /\ todo'[n + i] = c[i]
  BY <1>t, <1>e, SMTT(40)
<1>13. \A p \in Paths : p \in Range(c) => p \notin Discovered /\ ~Waits(p) /\ ~Flies(p) /\ ~Seen(p) /\ p # p0
  BY <1>3, <1>10, <1>i DEF Range, PathInv
<1>r. \A p \in Paths : p \in Range(c) <=> \E i \in DOMAIN c : c[i] = p
  BY DEF Range
<1>s. Discovered' = Discovered \union Range(c)
  BY <1>8
<1>d. \A i, j \in DOMAIN c : c[i] = c[j] => i = j
  BY <1>11
<1> HIDE DEF c, n
<1>14. ASSUME NEW p \in Paths PROVE Waits(p)' <=> Waits(p) \/ p \in Range(c)
  <2>1. Waits(p) => Waits(p)'
    <3> SUFFICES ASSUME NEW i \in DOMAIN todo, todo[i] = p PROVE Waits(p)'
      BY DEF Waits
    <3>1. i \in DOMAIN todo' /\ todo'[i] = p
      BY <1>12
    <3> QED BY <3>1 DEF Waits
  <2>2. p \in Range(c) => Waits(p)'
    BY <1>12, <1>r DEF Waits
  <2>3. Waits(p)' => Waits(p) \/ p \in Range(c)
    <3> SUFFICES ASSUME NEW i \in DOMAIN todo', todo'[i] = p PROVE Waits(p) \/ p \in Range(c)
      BY DEF Waits
    <3>1. CASE i \in 1..n
      BY <1>12, <3>1 DEF Waits
    <3>2. CASE i \in (n + 1)..(n + Len(c))
      BY <1>12, <1>r, <3>2
    <3> QED BY <1>12, <3>1, <3>2
  <2> QED BY <2>1, <2>2, <2>3
<1>15. ASSUME NEW p \in Paths, NEW i \in DOMAIN todo', NEW j \in DOMAIN todo',
              todo'[i] = p, todo'[j] = p
       PROVE  i = j
  <2>1. CASE i \in 1..n /\ j \in 1..n
    BY <1>12, <1>15, <1>i, <2>1 DEF PathInv
  <2>2. CASE i \in (n + 1)..(n + Len(c)) /\ j \in (n + 1)..(n + Len(c))
    <3>a. /\ i - n \in DOMAIN c /\ j - n \in DOMAIN c
          /\ c[i - n] = p /\ c[j - n] = p
      BY <1>12, <1>15, <2>2
    <3>1. i - n = j - n
      BY <1>d, <3>a
    <3> QED BY <1>12, <2>2, <3>1
  <2>3. ASSUME NEW x \in 1..n, NEW y \in (n + 1)..(n + Len(c)), todo'[x] = p, todo'[y] = p
        PROVE  FALSE
    <3>1. Waits(p)
      BY <1>12, <2>3 DEF Waits
    <3>2. p \in Range(c)
      BY <1>12, <1>r, <2>3
    <3> QED BY <1>13, <3>1, <3>2
  <2>4. (i \in 1..n \/ i \in (n + 1)..(n + Len(c))) /\ (j \in 1..n \/ j \in (n + 1)..(n + Len(c)))
    BY <1>12
  <2> QED BY <1>15, <2>1, <2>2, <2>3, <2>4
<1>16. ASSUME NEW p \in Paths PROVE PathInv(p)'
  <2>1. PathInv(p)
    BY <1>i
  <2>2. \A i, j \in DOMAIN results' : Answers(i, p)' /\ Answers(j, p)' => i = j
    <3> SUFFICES ASSUME NEW i \in 1..k, NEW j \in 1..k, Answers(i, p)', Answers(j, p)'
                 PROVE  i = j
      BY <1>1
    <3>1. i + 1 \in DOMAIN results /\ j + 1 \in DOMAIN results
      BY <1>1
    <3>2. Answers(i + 1, p) /\ Answers(j + 1, p)
      BY <1>2
    <3>3. i + 1 = j + 1
      BY <2>1, <3>1, <3>2 DEF PathInv
    <3> QED BY <3>3
  <2>3. Len(emitted'[p]) <= 1
    <3>1. CASE p = p0
      <4>1. Len(<<event>>) <= 1
        OBVIOUS
      <4> QED BY <1>8, <3>1, <4>1
    <3>2. CASE p # p0
      BY <1>8, <2>1, <3>2 DEF PathInv
    <3> QED BY <3>1, <3>2
  <2>4. \A i, j \in DOMAIN todo' : todo'[i] = p /\ todo'[j] = p => i = j
    BY <1>15
  <2> QED BY <1>3, <1>4, <1>5, <1>6, <1>7, <1>9, <1>13, <1>14, <1>s, <2>1, <2>2, <2>3, <2>4 DEF PathInv
<1>17. Flying' = Flying \ {p0} /\ p0 \in Flying
  BY <1>3, <1>7 DEF Flying
<1>18. IsFiniteSet(Flying') /\ Cardinality(Flying') = Cardinality(Flying) - 1
  BY <1>17, FS_RemoveElement DEF PathsInv
<1> QED BY <1>16, <1>18 DEF PathsInv

------------------------------------------------------------------------------
(* What a step of one task leaves alone, and what it may send. *)

LEMMA WorkerFrame ==
  ASSUME TypeOK, NEW w \in Workers, Worker(w)
  PROVE  /\ UNCHANGED <<coordinatorVars, cancel>>
         /\ \A v \in Workers \ {w} : /\ work'[v] = work[v] /\ wpc'[v] = wpc[v]
                                     /\ item'[v] = item[v]
<1>t. ChannelTypes /\ WorkerTypes
  BY DEF TypeOK
<1>1. UNCHANGED <<coordinatorVars, cancel>>
  BY DEF Worker, Connect, ConnectInterrupted, SendReady, TakeCommand, WorkTxDropped,
     SendCancelled, Evaluate, EvaluateFails, WorkerPanics, SendResult, AfterSend,
     Reconnect, SendExited, StopClient
<1>2. \A v \in Workers \ {w} : work'[v] = work[v] /\ wpc'[v] = wpc[v]
  BY <1>t DEF Worker, Connect, ConnectInterrupted, SendReady, TakeCommand, WorkTxDropped,
     SendCancelled, Evaluate, EvaluateFails, WorkerPanics, SendResult, AfterSend,
     Reconnect, SendExited, StopClient, Goto, ChannelTypes, WorkerTypes
<1>3. \A v \in Workers \ {w} : item'[v] = item[v]
  BY <1>t DEF Worker, Connect, ConnectInterrupted, SendReady, TakeCommand, WorkTxDropped,
     SendCancelled, Evaluate, EvaluateFails, WorkerPanics, SendResult, AfterSend,
     Reconnect, SendExited, StopClient, Goto, ChannelTypes, WorkerTypes
<1> QED BY <1>1, <1>2, <1>3

LEMMA WorkerSends ==
  ASSUME TypeOK, NEW w \in Workers, Worker(w), cpc \in Running
  PROVE  \/ results' = results /\ wpc[w] # "sendCancelled" /\ wpc'[w] # "exitedErr"
         \/ \E m \in Messages :
               /\ results' = Append(results, m)
               /\ m.type \in {"Ready", "Result"} =>
                     m.worker = w /\ wpc[w] \in {"sendReady", "sendResult"}
               /\ m.type = "Cancelled" <=> wpc[w] = "sendCancelled"
               /\ m.type = "Exited" <=> wpc'[w] = "exitedErr"
<1>t. ChannelTypes /\ WorkerTypes
  BY DEF TypeOK
<1>r. \A m : SendResultTx(m) => results' = Append(results, m)
  BY DEF SendResultTx, ResultRxOpen
<1>1. CASE SendReady(w)
  <2> DEFINE m == [type |-> "Ready", worker |-> w]
  <2>1. /\ m \in Messages /\ results' = Append(results, m)
        /\ m.type = "Ready" /\ m.worker = w
        /\ wpc[w] = "sendReady" /\ wpc'[w] # "exitedErr"
    BY <1>t, <1>r, <1>1 DEF SendReady, Goto, WorkerTypes, Messages
  <2> HIDE DEF m
  <2> QED BY <2>1
<1>2. CASE SendCancelled(w)
  <2> DEFINE m == [type |-> "Cancelled"]
  <2>1. /\ m \in Messages /\ results' = Append(results, m)
        /\ m.type = "Cancelled"
        /\ wpc[w] = "sendCancelled" /\ wpc'[w] # "exitedErr"
    BY <1>t, <1>r, <1>2 DEF SendCancelled, Goto, WorkerTypes, Messages
  <2> HIDE DEF m
  <2> QED BY <2>1
<1>3. CASE SendExited(w)
  <2> DEFINE m == [type |-> "Exited"]
  <2>1. /\ m \in Messages /\ results' = Append(results, m)
        /\ m.type = "Exited"
        /\ wpc[w] # "sendCancelled" /\ wpc'[w] = "exitedErr"
    BY <1>t, <1>r, <1>3 DEF SendExited, Goto, WorkerTypes, Messages
  <2> HIDE DEF m
  <2> QED BY <2>1
<1>4. CASE SendResult(w)
  <2> DEFINE m == [type |-> "Result", worker |-> w, item |-> item[w], event |-> reply[w]]
  <2>1. /\ m \in Messages /\ results' = Append(results, m)
        /\ m.type = "Result" /\ m.worker = w
        /\ wpc[w] = "sendResult" /\ wpc'[w] # "exitedErr"
    BY <1>t, <1>r, <1>4 DEF SendResult, Goto, WorkerTypes, Messages, Events
  <2> HIDE DEF m
  <2> QED BY <2>1
<1>5. CASE ~(SendReady(w) \/ SendCancelled(w) \/ SendExited(w) \/ SendResult(w))
  <2>1. results' = results
    BY <1>5 DEF Worker, Connect, ConnectInterrupted, TakeCommand, WorkTxDropped, Evaluate,
       EvaluateFails, WorkerPanics, AfterSend, Reconnect, StopClient
  <2>2. wpc[w] # "sendCancelled" /\ wpc'[w] # "exitedErr"
    BY <1>t, <1>5 DEF Worker, Connect, ConnectInterrupted, TakeCommand, WorkTxDropped, Evaluate,
       EvaluateFails, WorkerPanics, AfterSend, Reconnect, StopClient, Goto, WorkerTypes
  <2> QED BY <2>1, <2>2
<1> QED BY <1>1, <1>2, <1>3, <1>4, <1>5

(* The messages in the result channel after one was added or taken. *)
LEMMA SaysAppend ==
  ASSUME TypeOK, NEW m \in Messages, results' = Append(results, m)
  PROVE  /\ \A type : Says(type)' <=> Says(type) \/ type = m.type
         /\ \A v \in Workers : Reporting(v)' <=>
               \/ Reporting(v)
               \/ m.type \in {"Ready", "Result"} /\ m.worker = v
<1>t. results \in Seq(Messages)
  BY DEF TypeOK, ChannelTypes
<1>k. PICK k \in Nat : k = Len(results)
  BY <1>t
<1>1. /\ DOMAIN results = 1..k /\ DOMAIN results' = 1..(k + 1)
      /\ \A i \in 1..k : results'[i] = results[i]
      /\ results'[k + 1] = m
  BY <1>t, <1>k, AppendType
<1>2. \A i \in 1..(k + 1) : i \in 1..k \/ i = k + 1
  OBVIOUS
<1>3. \A type : Says(type)' <=> Says(type) \/ type = m.type
  BY <1>1, <1>2 DEF Says
<1>4. \A v \in Workers : Reporting(v)' <=>
         \/ Reporting(v)
         \/ m.type \in {"Ready", "Result"} /\ m.worker = v
  BY <1>1, <1>2 DEF Reporting, Reports
<1> QED BY <1>3, <1>4

LEMMA SaysTail ==
  ASSUME TypeOK, results # <<>>, results' = Tail(results)
  PROVE  /\ \A type : type # Head(results).type => (Says(type)' <=> Says(type))
         /\ \A v \in Workers : Reporting(v)' => Reporting(v)
<1>t. results \in Seq(Messages)
  BY DEF TypeOK, ChannelTypes
<1>k. PICK k \in Nat : k + 1 = Len(results)
  BY <1>t, HeadTailType
<1>1. /\ DOMAIN results = 1..(k + 1) /\ DOMAIN results' = 1..k
      /\ \A i \in 1..k : results'[i] = results[i + 1]
      /\ results[1] = Head(results)
  BY <1>t, <1>k, HeadTailType
<1>2. ASSUME NEW type, type # Head(results).type, Says(type) PROVE Says(type)'
  <2>1. PICK i \in DOMAIN results : results[i].type = type
    BY <1>2 DEF Says
  <2>2. i # 1
    BY <1>1, <1>2, <2>1
  <2>3. i - 1 \in 1..k /\ (i - 1) + 1 = i
    BY <1>1, <2>2
  <2> QED BY <1>1, <2>1, <2>3 DEF Says
<1>3. ASSUME NEW type, Says(type)' PROVE Says(type)
  <2>1. PICK i \in 1..k : results'[i].type = type
    BY <1>1, <1>3 DEF Says
  <2>2. i + 1 \in DOMAIN results
    BY <1>1
  <2> QED BY <1>1, <2>1, <2>2 DEF Says
<1>4. \A v \in Workers : Reporting(v)' => Reporting(v)
  <2>1. \A i \in 1..k : i + 1 \in DOMAIN results
    BY <1>1
  <2> QED BY <1>1, <2>1 DEF Reporting, Reports
<1> QED BY <1>2, <1>3, <1>4

------------------------------------------------------------------------------
(* Control: what the coordinator can conclude from the messages. *)

LEMMA InitControl == Init => ControlInv
<1> SUFFICES ASSUME Init, NEW w \in Workers PROVE CoordinatorControl /\ TaskControl(w)
  BY WorkersExist DEF ControlInv, Workers
<1>1. results = <<>> /\ work[w] = <<>> /\ wpc[w] = "connect"
  BY DEF Init
<1>2. \A type : ~Says(type)
  BY <1>1 DEF Says
<1>3. CoordinatorControl
  BY <1>2 DEF Init, CoordinatorControl
<1>4. TaskControl(w)
  BY <1>1 DEF TaskControl
<1> QED BY <1>3, <1>4

(* Where a task can go while coordinate() runs. *)
LEMMA WorkerMoves ==
  ASSUME TypeOK, IdleWorkersWait, NEW w \in Workers, Worker(w), cpc \in Running,
         \A i \in DOMAIN work[w] : work[w][i].type = "Work"
  PROVE  /\ wpc'[w] # "aborted"
         /\ wpc'[w] \in {"stopping", "exitedOk"} => wpc[w] \in {"sendCancelled", "stopping"}
         /\ wpc'[w] = "sendCancelled" => cancel /\ Commanded(w) /\ ~Commanded(w)'
         /\ work'[w] = work[w] \/ work'[w] = <<>>
<1>t. ChannelTypes /\ WorkerTypes
  BY DEF TypeOK
<1>o. ResultRxOpen /\ WorkTxOpen
  BY DEF ResultRxOpen, WorkTxOpen, Running
<1>1. CASE ConnectInterrupted(w)
  <2>1. Commanded(w) /\ Starting(w)
    BY <1>1, <1>o DEF ConnectInterrupted, Interrupted, Commanded, Starting
  <2> QED BY <2>1 DEF IdleWorkersWait
<1>2. CASE TakeCommand(w)
  <2>1. /\ work[w] \in Seq(Commands) /\ work[w] # <<>>
        /\ 1 \in DOMAIN work[w] /\ Head(work[w]) = work[w][1]
    BY <1>t, <1>2, HeadTailType DEF TakeCommand, ChannelTypes
  <2>2. Head(work[w]).type = "Work"
    BY <2>1
  <2>3. wpc'[w] = IF cancel THEN "sendCancelled" ELSE "working"
    BY <1>t, <1>2, <2>2 DEF TakeCommand, Goto, WorkerTypes
  <2>4. work'[w] = <<>>
    BY <1>t, <1>2 DEF TakeCommand, ChannelTypes
  <2> QED BY <2>1, <2>3, <2>4 DEF Commanded
<1>3. CASE WorkTxDropped(w)
  BY <1>3, <1>o DEF WorkTxDropped
<1>4. CASE ~(ConnectInterrupted(w) \/ TakeCommand(w) \/ WorkTxDropped(w))
  <2>1. work' = work
    BY <1>4 DEF Worker, Connect, SendReady, SendCancelled, Evaluate, EvaluateFails,
       WorkerPanics, SendResult, AfterSend, Reconnect, SendExited, StopClient
  <2>2. /\ wpc'[w] \notin {"aborted", "sendCancelled"}
        /\ wpc'[w] \in {"stopping", "exitedOk"} => wpc[w] \in {"sendCancelled", "stopping"}
    BY <1>t, <1>o, <1>4 DEF Worker, Connect, SendReady, SendCancelled, Evaluate, EvaluateFails,
       WorkerPanics, SendResult, AfterSend, Reconnect, SendExited, StopClient, Goto,
       WorkerTypes
  <2> QED BY <2>1, <2>2
<1> QED BY <1>1, <1>2, <1>3, <1>4

(* What the other side can tell from the messages after a task's step. *)
LEMMA WorkerSays ==
  ASSUME TypeOK, NEW w \in Workers, Worker(w), cpc \in Running
  PROVE  /\ Says("Cancelled") => Says("Cancelled")'
         /\ Says("Exited") => Says("Exited")'
         /\ Says("Cancelled")' => Says("Cancelled") \/ wpc[w] = "sendCancelled"
         /\ wpc[w] = "sendCancelled" => Says("Cancelled")'
         /\ Says("Exited")' => Says("Exited") \/ wpc'[w] = "exitedErr"
         /\ wpc'[w] = "exitedErr" => Says("Exited")'
         /\ \A v \in Workers : Reporting(v)' =>
               Reporting(v) \/ (v = w /\ wpc[w] \in {"sendReady", "sendResult"})
<1>1. CASE results' = results /\ wpc[w] # "sendCancelled" /\ wpc'[w] # "exitedErr"
  BY <1>1 DEF Says, Reporting, Reports
<1>2. CASE ~(results' = results /\ wpc[w] # "sendCancelled" /\ wpc'[w] # "exitedErr")
  <2>1. PICK m \in Messages :
           /\ results' = Append(results, m)
           /\ m.type \in {"Ready", "Result"} =>
                 m.worker = w /\ wpc[w] \in {"sendReady", "sendResult"}
           /\ m.type = "Cancelled" <=> wpc[w] = "sendCancelled"
           /\ m.type = "Exited" <=> wpc'[w] = "exitedErr"
    BY <1>2, WorkerSends
  <2> QED BY <2>1, SaysAppend
<1> QED BY <1>1, <1>2

LEMMA WorkerKeepsControl ==
  ASSUME TypeOK, IdleWorkersWait, ControlInv, NEW w \in Workers, Worker(w)
  PROVE  ControlInv'
<1>f. /\ UNCHANGED <<coordinatorVars, cancel>>
      /\ \A v \in Workers \ {w} : work'[v] = work[v] /\ wpc'[v] = wpc[v]
  BY WorkerFrame
<1>u. UNCHANGED <<todo, active, error, idle, cpc, cursor, result, outcome, cancel>>
  BY <1>f DEF coordinatorVars
<1> SUFFICES ASSUME cpc \in Running
             PROVE  CoordinatorControl' /\ \A v \in Workers : TaskControl(v)'
  BY <1>u DEF ControlInv
<1>c. CoordinatorControl /\ \A v \in Workers : TaskControl(v)
  BY DEF ControlInv
<1>1. /\ wpc'[w] # "aborted"
      /\ wpc'[w] \in {"stopping", "exitedOk"} => wpc[w] \in {"sendCancelled", "stopping"}
      /\ wpc'[w] = "sendCancelled" => cancel /\ Commanded(w) /\ ~Commanded(w)'
      /\ work'[w] = work[w] \/ work'[w] = <<>>
  BY <1>c, WorkerMoves DEF TaskControl
<1>2. CoordinatorControl'
  <2>1. Says("Cancelled")' => cancel
    BY <1>c, WorkerSays DEF CoordinatorControl, TaskControl
  <2>2. Says("Exited")' => \E v \in Workers : wpc'[v] = "exitedErr"
    <3>1. CASE wpc'[w] = "exitedErr"
      BY <3>1
    <3>2. ASSUME wpc'[w] # "exitedErr", Says("Exited")'
          PROVE  \E v \in Workers : wpc'[v] = "exitedErr"
      <4>1. PICK v \in Workers : wpc[v] = "exitedErr"
        BY <1>c, <3>2, WorkerSays DEF CoordinatorControl
      <4>2. v # w
        BY <4>1 DEF Worker, Connect, ConnectInterrupted, SendReady, TakeCommand,
           WorkTxDropped, SendCancelled, Evaluate, EvaluateFails, WorkerPanics, SendResult,
           AfterSend, Reconnect, SendExited, StopClient
      <4> QED BY <1>f, <4>1, <4>2
    <3> QED BY <3>1, <3>2
  <2> QED BY <1>c, <1>u, <2>1, <2>2 DEF CoordinatorControl
<1>3. ASSUME NEW v \in Workers PROVE TaskControl(v)'
  <2>q. Queued(v)' <=> Queued(v)
    BY <1>u DEF Queued
  <2>1. CASE v # w
    <3>1. /\ wpc'[v] = wpc[v] /\ work'[v] = work[v]
          /\ Reporting(v)' => Reporting(v)
      BY <1>f, <2>1, WorkerSays
    <3> QED BY <1>c, <1>u, <2>q, <3>1, WorkerSays DEF TaskControl, Commanded
  <2>2. CASE v = w
    <3>1. \A i \in DOMAIN work'[w] : work'[w][i].type = "Work"
      BY <1>1, <1>c DEF TaskControl
    <3>2. wpc'[w] \in {"stopping", "exitedOk"} => Says("Cancelled")'
      BY <1>1, <1>c, WorkerSays DEF TaskControl
    <3>3. ASSUME wpc'[w] \in {"sendCancelled", "stopping", "exitedOk"}
          PROVE  ~Queued(w)' /\ ~Reporting(w)' /\ ~Commanded(w)'
      <4>1. CASE wpc[w] \in {"sendCancelled", "stopping"}
        <5>1. ~Queued(w) /\ ~Reporting(w) /\ ~Commanded(w) /\ ~Reporting(w)'
          BY <1>c, <4>1, WorkerSays DEF TaskControl
        <5> QED BY <1>1, <2>2, <2>q, <5>1 DEF Commanded
      <4>2. CASE wpc[w] \notin {"sendCancelled", "stopping"}
        <5>1. Commanded(w) /\ ~Commanded(w)'
          BY <1>1, <3>3, <4>2
        <5>2. ~Queued(w) /\ ~Reporting(w) /\ ~Evaluating(w) /\ ~Starting(w)
          BY <5>1 DEF IdleWorkersWait
        <5> QED BY <2>2, <2>q, <5>1, <5>2, WorkerSays DEF Evaluating, Starting
      <4> QED BY <4>1, <4>2
    <3> QED BY <1>1, <1>u, <2>2, <3>1, <3>2, <3>3, WorkerSays DEF TaskControl
  <2> QED BY <2>1, <2>2
<1> QED BY <1>2, <1>3

LEMMA CoordinatorKeepsControl ==
  ASSUME TypeOK, IdleWorkersWait, ControlInv, Coordinator
  PROVE  ControlInv'
<1> SUFFICES ASSUME cpc' \in Running
             PROVE  CoordinatorControl' /\ \A v \in Workers : TaskControl(v)'
  BY DEF ControlInv
<1>t. CoordinatorTypes /\ ChannelTypes /\ WorkerTypes
  BY DEF TypeOK
<1>r. cpc \in Running
  BY DEF Coordinator, ObserveCancel, BeginDispatch, DispatchWork, DispatchWait,
     DispatchEnd, AfterDispatch, ReceiveReady, ReceiveEnd, ReceiveResult, SinkAccepts,
     SinkFails, StopWorker, JoinWorker, AbortWorker, NextWorker, Return, Running
<1>c. CoordinatorControl /\ \A v \in Workers : TaskControl(v)
  BY <1>r DEF ControlInv
<1>l. \A r : ~Leave(r)
  BY DEF Leave, Running
<1>q. ASSUME UNCHANGED <<idle, results, work, wpc, cancel>>
      PROVE  /\ \A v \in Workers : TaskControl(v)'
             /\ Says("Cancelled")' => cancel'
             /\ Says("Exited")' => \E w \in Workers : wpc'[w] = "exitedErr"
  <2>1. ASSUME NEW v \in Workers PROVE TaskControl(v)'
    BY <1>q, <1>c DEF TaskControl, Says, Queued, Reporting, Reports, Commanded
  <2>2. Says("Cancelled")' => cancel'
    BY <1>q, <1>c DEF CoordinatorControl, Says
  <2>3. Says("Exited")' => \E w \in Workers : wpc'[w] = "exitedErr"
    BY <1>q, <1>c DEF CoordinatorControl, Says
  <2> QED BY <2>1, <2>2, <2>3
<1>1. CASE BeginDispatch
  <2>1. UNCHANGED <<idle, results, work, wpc, cancel, result, outcome, error>>
        /\ cpc = "top" /\ cpc' = "dispatch" /\ cursor' = Len(idle)
    BY <1>1 DEF BeginDispatch, workerVars
  <2> QED BY <1>c, <1>q, <2>1 DEF CoordinatorControl
<1>2. CASE DispatchWork
  <2>1. /\ cpc = "dispatch" /\ cursor > 0 /\ todo # <<>> /\ error = "none"
        /\ WorkRxOpen(Head(idle))
        /\ idle' = Tail(idle) /\ cursor' = cursor - 1
        /\ work' = [work EXCEPT ![Head(idle)] = <<[type |-> "Work", item |-> Head(todo)]>>]
        /\ UNCHANGED <<cpc, result, outcome, results, error, cancel, wpc>>
    BY <1>2, <1>l DEF DispatchWork, next_for, workerVars
  <2>2. /\ idle # <<>> /\ idle \in Seq(Workers) /\ cursor = Len(idle)
    BY <1>t, <1>c, <2>1 DEF CoordinatorTypes, CoordinatorControl
  <2>3. /\ Head(idle) \in Workers /\ Head(idle) = idle[1] /\ 1 \in DOMAIN idle
        /\ Tail(idle) \in Seq(Workers) /\ Len(Tail(idle)) = Len(idle) - 1
        /\ \A i \in 1..Len(Tail(idle)) : Tail(idle)[i] = idle[i + 1] /\ i + 1 \in DOMAIN idle
    BY <2>2, HeadTailType
  <2>4. \A v \in Workers : Queued(v)' => Queued(v)
    BY <2>1, <2>3 DEF Queued
  <2>5. Queued(Head(idle))
    BY <2>3 DEF Queued
  <2>6. \A type : Says(type)' <=> Says(type)
    BY <2>1 DEF Says
  <2>7. \A v \in Workers : Reporting(v)' <=> Reporting(v)
    BY <2>1 DEF Reporting, Reports
  <2>8. CoordinatorControl'
    BY <1>c, <2>1, <2>2, <2>3, <2>6 DEF CoordinatorControl
  <2>9. ASSUME NEW v \in Workers PROVE TaskControl(v)'
    <3>1. CASE v # Head(idle)
      <4>1. work'[v] = work[v]
        BY <1>t, <2>1, <2>3, <3>1 DEF ChannelTypes
      <4> QED BY <1>c, <2>1, <2>4, <2>6, <2>7, <4>1 DEF TaskControl, Commanded
    <3>2. CASE v = Head(idle)
      <4>1. wpc[v] \notin {"sendCancelled", "stopping", "exitedOk"}
        BY <1>c, <2>5, <3>2 DEF TaskControl
      <4>2. work'[v] = <<[type |-> "Work", item |-> Head(todo)]>>
        BY <1>t, <2>1, <2>3, <3>2 DEF ChannelTypes
      <4>3. \A i \in DOMAIN work'[v] : work'[v][i].type = "Work"
        BY <4>2
      <4> QED BY <1>c, <2>1, <2>6, <4>1, <4>3 DEF TaskControl
    <3> QED BY <3>1, <3>2
  <2> QED BY <2>8, <2>9
<1>3. CASE DispatchWait
  <2>1. /\ cpc = "dispatch" /\ cursor > 0 /\ todo = <<>> /\ active # 0 /\ error = "none"
        /\ idle' = Append(Tail(idle), Head(idle))
        /\ UNCHANGED <<todo, active, cpc, result, outcome, results, error, cancel, wpc, work>>
    BY <1>3 DEF DispatchWait, next_for, workerVars
  <2>2. idle # <<>> /\ idle \in Seq(Workers)
    BY <1>t, <2>1 DEF CoordinatorTypes
  <2>3. \A v \in Workers : Queued(v)' => Queued(v)
    <3>1. /\ Head(idle) \in Workers /\ Head(idle) = idle[1] /\ 1 \in DOMAIN idle
          /\ Tail(idle) \in Seq(Workers) /\ Len(Tail(idle)) = Len(idle) - 1
          /\ \A i \in 1..Len(Tail(idle)) : Tail(idle)[i] = idle[i + 1] /\ i + 1 \in DOMAIN idle
      BY <2>2, HeadTailType
    <3>2. /\ DOMAIN idle' = 1..(Len(Tail(idle)) + 1)
          /\ \A i \in 1..Len(Tail(idle)) : idle'[i] = Tail(idle)[i]
          /\ idle'[Len(Tail(idle)) + 1] = Head(idle)
      BY <2>1, <3>1, AppendType
    <3>3. \A i \in DOMAIN idle' : \E j \in DOMAIN idle : idle'[i] = idle[j]
      <4> SUFFICES ASSUME NEW i \in DOMAIN idle'
                   PROVE  \E j \in DOMAIN idle : idle'[i] = idle[j]
        OBVIOUS
      <4>1. CASE i \in 1..Len(Tail(idle))
        BY <3>1, <3>2, <4>1
      <4>2. CASE i = Len(Tail(idle)) + 1
        BY <3>1, <3>2, <4>2
      <4> QED BY <3>1, <3>2, <4>1, <4>2
    <3> QED BY <3>3 DEF Queued
  <2>4. \A type : Says(type)' <=> Says(type)
    BY <2>1 DEF Says
  <2>5. \A v \in Workers : Reporting(v)' <=> Reporting(v)
    BY <2>1 DEF Reporting, Reports
  <2>6. CoordinatorControl'
    BY <1>c, <2>1, <2>4 DEF CoordinatorControl
  <2>7. ASSUME NEW v \in Workers PROVE TaskControl(v)'
    BY <1>c, <2>1, <2>3, <2>4, <2>5 DEF TaskControl, Commanded
  <2> QED BY <2>6, <2>7
<1>4. CASE AfterDispatch
  <2>1. /\ UNCHANGED <<idle, results, work, wpc, cancel, result, outcome, error>>
        /\ cpc = "dispatch" /\ cpc' = "recv"
    BY <1>4, <1>l DEF AfterDispatch, workerVars
  <2> QED BY <1>c, <1>q, <2>1 DEF CoordinatorControl
<1>m. ASSUME results # <<>>, Head(results).type \in {"Ready", "Result"},
             Head(results).worker \in Workers,
             idle' = Append(idle, Head(results).worker), results' = Tail(results),
             UNCHANGED <<work, wpc, cancel>>
      PROVE  /\ \A v \in Workers : TaskControl(v)'
             /\ Says("Cancelled")' => cancel'
             /\ Says("Exited")' => \E w \in Workers : wpc'[w] = "exitedErr"
  <2>1. /\ Says("Cancelled")' <=> Says("Cancelled")
        /\ Says("Exited")' <=> Says("Exited")
        /\ \A v \in Workers : Reporting(v)' => Reporting(v)
    BY <1>m, SaysTail
  <2>2. \A v \in Workers : Queued(v)' => Queued(v) \/ v = Head(results).worker
    <3>1. idle \in Seq(Workers)
      BY <1>t DEF CoordinatorTypes
    <3>2. /\ DOMAIN idle' = 1..(Len(idle) + 1) /\ Len(idle) \in Nat
          /\ \A i \in 1..Len(idle) : idle'[i] = idle[i] /\ i \in DOMAIN idle
          /\ idle'[Len(idle) + 1] = Head(results).worker
      BY <1>m, <3>1, AppendType
    <3>3. \A i \in 1..(Len(idle) + 1) : i \in 1..Len(idle) \/ i = Len(idle) + 1
      BY <3>2
    <3> QED BY <3>2, <3>3 DEF Queued
  <2>3. Reporting(Head(results).worker)
    <3>1. 1 \in DOMAIN results /\ results[1] = Head(results)
      BY <1>m, <1>t, HeadTailType DEF ChannelTypes
    <3> QED BY <1>m, <3>1 DEF Reporting, Reports
  <2>4. ASSUME NEW v \in Workers PROVE TaskControl(v)'
    BY <1>c, <1>m, <2>1, <2>2, <2>3 DEF TaskControl, Commanded
  <2> QED BY <1>c, <1>m, <2>1, <2>4 DEF CoordinatorControl
<1>5. CASE ReceiveReady
  <2>1. /\ cpc = "recv" /\ cpc' = "top" /\ Received = "Ready"
        /\ idle' = Append(idle, Head(results).worker) /\ results' = Tail(results)
        /\ UNCHANGED <<work, wpc, cancel, result, outcome, error>>
    BY <1>5 DEF ReceiveReady, workerVars
  <2>2. /\ results # <<>> /\ Head(results).type = "Ready" /\ Head(results).worker \in Workers
    BY <2>1, ReceivedTypes DEF Received
  <2> QED BY <1>c, <1>m, <2>1, <2>2 DEF CoordinatorControl
<1>6. CASE ReceiveResult
  <2> DEFINE fatal == FatalError(Head(results).worker, Head(results).item, EventOf(Head(results)))
  <2>1. /\ cpc = "recv" /\ cpc' = "emit" /\ Received = "Result"
        /\ idle' = Append(idle, Head(results).worker) /\ results' = Tail(results)
        /\ error' = IF fatal = "none" THEN error ELSE fatal
        /\ fatal # "unowned"
        /\ UNCHANGED <<work, wpc, cancel, result, outcome>>
    BY <1>6, <1>l DEF ReceiveResult, workerVars
  <2>2. /\ results # <<>> /\ Head(results).type = "Result" /\ Head(results).worker \in Workers
    BY <2>1, ReceivedTypes DEF Received
  <2> HIDE DEF fatal
  <2>3. error' # "unowned"
    BY <1>c, <2>1 DEF CoordinatorControl
  <2> QED BY <1>c, <1>m, <2>1, <2>2, <2>3 DEF CoordinatorControl
<1>7. CASE SinkAccepts
  <2>1. /\ UNCHANGED <<idle, results, work, wpc, cancel, result, outcome, error>>
        /\ cpc' = "top" /\ error = "none"
    BY <1>7, <1>l DEF SinkAccepts, workerVars
  <2> QED BY <1>c, <1>q, <2>1 DEF CoordinatorControl
<1>8. CASE ObserveCancel \/ DispatchEnd \/ ReceiveEnd \/ SinkFails
  BY <1>8, <1>l DEF ObserveCancel, DispatchEnd, ReceiveEnd, SinkFails
<1>9. CASE StopWorker \/ JoinWorker \/ AbortWorker
  BY <1>9, <1>r DEF StopWorker, JoinWorker, AbortWorker, Running
<1> QED BY <1>1, <1>2, <1>3, <1>4, <1>5, <1>6, <1>7, <1>8, <1>9 DEF Coordinator

(* Control is kept by every step. *)
LEMMA NextKeepsControl ==
  TypeOK /\ IdleWorkersWait /\ ControlInv /\ [Next]_vars => ControlInv'
<1> SUFFICES ASSUME TypeOK, IdleWorkersWait, ControlInv, [Next]_vars PROVE ControlInv'
  OBVIOUS
<1>1. CASE Coordinator
  BY <1>1, CoordinatorKeepsControl
<1>2. ASSUME NEW w \in Workers, Worker(w) PROVE ControlInv'
  BY <1>2, WorkerKeepsControl
<1>3. CASE RequestCancel \/ Finished \/ UNCHANGED vars
  <2>1. /\ UNCHANGED <<todo, active, error, idle, cpc, cursor, result, outcome, results,
                       work, wpc>>
        /\ cancel => cancel'
    BY <1>3 DEF RequestCancel, Finished, vars, coordinatorVars, workerVars
  <2>2. CoordinatorControl => CoordinatorControl'
    BY <2>1 DEF CoordinatorControl, Says
  <2>3. \A v \in Workers : TaskControl(v) => TaskControl(v)'
    BY <2>1 DEF TaskControl, Says, Queued, Reporting, Reports, Commanded
  <2> QED BY <2>1, <2>2, <2>3 DEF ControlInv
<1> QED BY <1>1, <1>2, <1>3 DEF Next
------------------------------------------------------------------------------
(* No step duplicates, loses or miscounts a path. *)

LEMMA WorkerKeepsWork ==
  ASSUME TypeOK, IdleWorkersWait, ControlInv, WorkInv, NEW w \in Workers, Worker(w)
  PROVE  WorkInv'
<1>t. ChannelTypes /\ WorkerTypes
  BY DEF TypeOK
<1>f. /\ UNCHANGED <<coordinatorVars, cancel>>
      /\ \A v \in Workers \ {w} : wpc'[v] = wpc[v] /\ item'[v] = item[v]
  BY WorkerFrame
<1>u. UNCHANGED <<todo, active, cpc, emitted>>
  BY <1>f DEF coordinatorVars
<1>e. wpc'[w] \in EmptyHanded => item'[w] = NoPath
  <2>1. CASE TakeCommand(w)
    BY <1>t, <2>1 DEF TakeCommand, Goto, WorkerTypes, EmptyHanded
  <2>2. CASE SendResult(w)
    BY <1>t, <2>2 DEF SendResult, WorkerTypes
  <2>3. CASE ~(TakeCommand(w) \/ SendResult(w))
    <3>1. item' = item
      BY <2>3 DEF Worker, Connect, ConnectInterrupted, SendReady, WorkTxDropped,
         SendCancelled, Evaluate, EvaluateFails, WorkerPanics, AfterSend, Reconnect,
         SendExited, StopClient
    <3>2. wpc'[w] \in EmptyHanded => wpc[w] \in EmptyHanded
      BY <1>t, <2>3 DEF Worker, Connect, ConnectInterrupted, SendReady, WorkTxDropped,
         SendCancelled, Evaluate, EvaluateFails, WorkerPanics, AfterSend, Reconnect,
         SendExited, StopClient, Goto, WorkerTypes, EmptyHanded
    <3> QED BY <3>1, <3>2 DEF WorkInv
  <2> QED BY <2>1, <2>2, <2>3
<1>h. \A v \in Workers : wpc'[v] \in EmptyHanded => item'[v] = NoPath
  BY <1>e, <1>f DEF WorkInv
<1> SUFFICES ASSUME cpc \in Running PROVE PathsInv'
  BY <1>h, <1>u DEF WorkInv
<1>p. PathsInv /\ TaskControl(w)
  BY DEF WorkInv, ControlInv
<1>o. ResultRxOpen /\ WorkTxOpen
  BY DEF ResultRxOpen, WorkTxOpen, Running
<1>r. \A m : SendResultTx(m) => results' = Append(results, m)
  BY <1>o DEF SendResultTx
<1>1. CASE Connect(w) \/ Evaluate(w) \/ EvaluateFails(w) \/ WorkerPanics(w) \/ AfterSend(w)
           \/ Reconnect(w) \/ StopClient(w)
  <2>1. UNCHANGED <<work, item, results>>
    BY <1>1 DEF Connect, Evaluate, EvaluateFails, WorkerPanics, AfterSend, Reconnect, StopClient
  <2> QED BY <1>p, <1>u, <2>1, QuietKeepsPaths
<1>2. CASE ConnectInterrupted(w)
  <2>1. Commanded(w) /\ Starting(w)
    BY <1>2, <1>o DEF ConnectInterrupted, Interrupted, Commanded, Starting
  <2> QED BY <2>1 DEF IdleWorkersWait
<1>3. CASE WorkTxDropped(w)
  BY <1>3, <1>o DEF WorkTxDropped
<1>4. CASE TakeCommand(w)
  <2>1. /\ work[w] \in Seq(Commands) /\ work[w] # <<>>
        /\ 1 \in DOMAIN work[w] /\ Head(work[w]) = work[w][1]
    BY <1>t, <1>4, HeadTailType DEF TakeCommand, ChannelTypes
  <2>2. Head(work[w]).type = "Work"
    BY <1>p, <2>1 DEF TaskControl
  <2>3. item[w] = NoPath
    BY <1>4 DEF TakeCommand, WorkInv, EmptyHanded
  <2>4. /\ work' = [work EXCEPT ![w] = <<>>]
        /\ item' = [item EXCEPT ![w] = Head(work[w]).item]
        /\ results' = results
    BY <1>4, <2>2 DEF TakeCommand
  <2> QED BY <1>p, <1>u, <2>1, <2>2, <2>3, <2>4, TakeKeepsPaths
<1>5. CASE SendReady(w)
  <2> DEFINE m == [type |-> "Ready", worker |-> w]
  <2>1. /\ m \in Messages /\ m.type # "Result" /\ results' = Append(results, m)
        /\ UNCHANGED <<work, item>>
    BY <1>r, <1>5 DEF SendReady, Messages
  <2> HIDE DEF m
  <2> QED BY <1>p, <1>u, <2>1, OtherMessageKeepsPaths
<1>6. CASE SendCancelled(w)
  <2> DEFINE m == [type |-> "Cancelled"]
  <2>1. /\ m \in Messages /\ m.type # "Result" /\ results' = Append(results, m)
        /\ UNCHANGED <<work, item>>
    BY <1>r, <1>6 DEF SendCancelled, Messages
  <2> HIDE DEF m
  <2> QED BY <1>p, <1>u, <2>1, OtherMessageKeepsPaths
<1>7. CASE SendExited(w)
  <2> DEFINE m == [type |-> "Exited"]
  <2>1. /\ m \in Messages /\ m.type # "Result" /\ results' = Append(results, m)
        /\ UNCHANGED <<work, item>>
    BY <1>r, <1>7 DEF SendExited, Messages
  <2> HIDE DEF m
  <2> QED BY <1>p, <1>u, <2>1, OtherMessageKeepsPaths
<1>8. CASE SendResult(w)
  <2> DEFINE m == [type |-> "Result", worker |-> w, item |-> item[w], event |-> reply[w]]
  <2>1. /\ m \in Messages /\ m.type = "Result" /\ m.item = item[w] /\ item[w] \in Paths
        /\ results' = Append(results, m)
        /\ item' = [item EXCEPT ![w] = NoPath] /\ work' = work
    BY <1>t, <1>r, <1>8 DEF SendResult, Messages, WorkerTypes, Events
  <2> HIDE DEF m
  <2> QED BY <1>p, <1>u, <2>1, ResultKeepsPaths
<1> QED BY <1>1, <1>2, <1>3, <1>4, <1>5, <1>6, <1>7, <1>8 DEF Worker

LEMMA CoordinatorKeepsWork ==
  ASSUME TypeOK, IdleWorkersWait, ControlInv, WorkInv, Coordinator
  PROVE  WorkInv'
<1>t. CoordinatorTypes /\ ChannelTypes /\ WorkerTypes
  BY DEF TypeOK
<1>h. \A v \in Workers : wpc'[v] \in EmptyHanded => item'[v] = NoPath
  <2>1. CASE AbortWorker
    BY <1>t, <2>1 DEF AbortWorker, WorkInv, EmptyHanded, WorkerTypes
  <2>2. CASE ~AbortWorker
    <3>1. UNCHANGED <<wpc, item>>
      BY <2>2 DEF Coordinator, ObserveCancel, BeginDispatch, DispatchWork, DispatchWait,
         DispatchEnd, AfterDispatch, ReceiveReady, ReceiveEnd, ReceiveResult, SinkAccepts,
         SinkFails, StopWorker, JoinWorker, workerVars
    <3> QED BY <3>1 DEF WorkInv
  <2> QED BY <2>1, <2>2
<1> SUFFICES ASSUME cpc' \in Running PROVE PathsInv'
  BY <1>h DEF WorkInv
<1>r. cpc \in Running
  BY DEF Coordinator, ObserveCancel, BeginDispatch, DispatchWork, DispatchWait,
     DispatchEnd, AfterDispatch, ReceiveReady, ReceiveEnd, ReceiveResult, SinkAccepts,
     SinkFails, StopWorker, JoinWorker, AbortWorker, NextWorker, Return, Running
<1>p. PathsInv
  BY <1>r DEF WorkInv
<1>l. \A r : ~Leave(r)
  BY DEF Leave, Running
<1>1. CASE BeginDispatch \/ DispatchWait \/ AfterDispatch \/ SinkAccepts
  <2>1. UNCHANGED <<todo, active, work, item, results, emitted>>
    BY <1>1, <1>l DEF BeginDispatch, DispatchWait, AfterDispatch, SinkAccepts, workerVars
  <2> QED BY <1>p, <2>1, QuietKeepsPaths
<1>2. CASE DispatchWork
  <2>1. /\ cursor > 0 /\ cursor <= Len(idle) /\ todo # <<>> /\ idle \in Seq(Workers)
        /\ work[Head(idle)] = <<>>
        /\ todo' = Tail(todo) /\ active' = active + 1
        /\ work' = [work EXCEPT ![Head(idle)] = <<[type |-> "Work", item |-> Head(todo)]>>]
        /\ UNCHANGED <<item, results, emitted>>
    BY <1>t, <1>2, <1>l DEF DispatchWork, next_for, workerVars, CoordinatorTypes
  <2>2. Head(idle) \in Workers
    BY <1>t, <2>1 DEF CoordinatorTypes
  <2> QED BY <1>p, <2>1, <2>2, DispatchKeepsPaths
<1>3. CASE ReceiveReady
  <2>1. /\ results' = Tail(results) /\ Received = "Ready"
        /\ UNCHANGED <<todo, active, work, item, emitted>>
    BY <1>3 DEF ReceiveReady, workerVars
  <2>2. results # <<>> /\ Head(results).type # "Result"
    BY <2>1, ReceivedTypes DEF Received
  <2> QED BY <1>p, <2>1, <2>2, ReceiveOtherKeepsPaths
<1>4. CASE ReceiveResult
  <2> DEFINE m == Head(results)
  <2>1. /\ Received = "Result" /\ results' = Tail(results) /\ active' = active - 1
        /\ todo' = todo \o Expand(m.item, EventOf(m))
        /\ emitted' = [emitted EXCEPT ![m.item] = Append(@, EventOf(m))]
        /\ UNCHANGED <<work, item>>
    BY <1>4, <1>l DEF ReceiveResult, workerVars
  <2>2. /\ results # <<>> /\ m.type = "Result" /\ m.item \in Paths
        /\ m.event \in Events \union {"failed"}
    BY <2>1, ReceivedTypes DEF Received
  <2>3. EventOf(m) \in Events
    BY <2>2 DEF EventOf, Events
  <2> HIDE DEF m
  <2> QED BY <1>p, <2>1, <2>2, <2>3, ReceiveResultKeepsPaths DEF m
<1>5. CASE ObserveCancel \/ DispatchEnd \/ ReceiveEnd \/ SinkFails
  BY <1>5, <1>l DEF ObserveCancel, DispatchEnd, ReceiveEnd, SinkFails
<1>6. CASE StopWorker \/ JoinWorker \/ AbortWorker
  BY <1>6, <1>r DEF StopWorker, JoinWorker, AbortWorker, Running
<1> QED BY <1>1, <1>2, <1>3, <1>4, <1>5, <1>6 DEF Coordinator

(* Work is conserved by every step. *)
LEMMA NextKeepsWork ==
  TypeOK /\ IdleWorkersWait /\ ControlInv /\ WorkInv /\ [Next]_vars => WorkInv'
<1> SUFFICES ASSUME TypeOK, IdleWorkersWait, ControlInv, WorkInv, [Next]_vars PROVE WorkInv'
  OBVIOUS
<1>1. CASE Coordinator
  BY <1>1, CoordinatorKeepsWork
<1>2. ASSUME NEW w \in Workers, Worker(w) PROVE WorkInv'
  BY <1>2, WorkerKeepsWork
<1>3. CASE RequestCancel \/ Finished \/ UNCHANGED vars
  <2>1. UNCHANGED <<todo, active, cpc, work, item, results, emitted, wpc>>
    BY <1>3 DEF RequestCancel, Finished, vars, coordinatorVars, workerVars
  <2>2. PathsInv => PathsInv'
    BY <2>1, QuietKeepsPaths
  <2> QED BY <2>1, <2>2 DEF WorkInv
<1> QED BY <1>1, <1>2, <1>3 DEF Next

(* All that the safety theorems below rest on. *)
LEMMA Invariants == Spec => [](TypeOK /\ IdleWorkersWait /\ ControlInv /\ WorkInv)
BY InitControl, InitWork, NextKeepsControl, NextKeepsWork, TypeCorrect, IdleQueueSound, PTL
   DEF Spec

LEMMA AtMostOne ==
  ASSUME NEW S, \A x, y \in S : x = y
  PROVE  Cardinality(S) = IF S = {} THEN 0 ELSE 1
<1>1. CASE S = {}
  BY <1>1, FS_EmptySet
<1>2. CASE S # {}
  <2>1. PICK x \in S : TRUE
    BY <1>2
  <2>2. S = {x}
    BY <2>1
  <2> QED BY <1>2, <2>2, FS_Singleton
<1> QED BY <1>1, <1>2

(* However tasks fail, restart or stop, and in whatever order they answer: *)
(* while coordinate() runs, each discovered path is in exactly one of the  *)
(* queue, a work channel, a task, the result channel and the sink, no      *)
(* other path is anywhere, and Scheduler.active counts those in flight.    *)
THEOREM WorkIsConserved == Spec => []WorkConserved
<1>1. ASSUME TypeOK, WorkInv PROVE WorkConserved
  <2> SUFFICES ASSUME cpc \in Running
               PROVE  /\ \A p \in Paths :
                            Cardinality(InTodo(p)) + InFlight(p) + Len(emitted[p])
                              = IF p \in Discovered THEN 1 ELSE 0
                      /\ active = Cardinality({p \in Paths : InFlight(p) # 0})
    BY DEF WorkConserved
  <2>i. PathsInv
    BY <1>1 DEF WorkInv
  <2>1. ASSUME NEW p \in Paths
        PROVE  /\ Cardinality(InTodo(p)) = IF Waits(p) THEN 1 ELSE 0
               /\ InFlight(p) = IF Flies(p) THEN 1 ELSE 0
               /\ Len(emitted[p]) = IF Seen(p) THEN 1 ELSE 0
    <3>i. PathInv(p)
      BY <2>i DEF PathsInv
    <3>1. Cardinality(InTodo(p)) = IF Waits(p) THEN 1 ELSE 0
      <4>1. \A x, y \in InTodo(p) : x = y
        BY <3>i DEF InTodo, PathInv
      <4>2. InTodo(p) = {} <=> ~Waits(p)
        BY DEF InTodo, Waits
      <4> QED BY <4>1, <4>2, AtMostOne
    <3>2. Cardinality(InWork(p)) = IF \E w \in Workers : Carries(w, p) THEN 1 ELSE 0
      <4>1. InWork(p) = {w \in Workers : Carries(w, p)}
        BY DEF InWork, Carries
      <4>2. \A x, y \in InWork(p) : x = y
        BY <3>i, <4>1 DEF PathInv
      <4>3. InWork(p) = {} <=> ~\E w \in Workers : Carries(w, p)
        BY <4>1
      <4> QED BY <4>2, <4>3, AtMostOne
    <3>3. Cardinality(WithWorker(p)) = IF \E w \in Workers : Holds(w, p) THEN 1 ELSE 0
      <4>1. \A x, y \in WithWorker(p) : x = y
        BY <3>i DEF WithWorker, PathInv, Holds
      <4>2. WithWorker(p) = {} <=> ~\E w \in Workers : Holds(w, p)
        BY DEF WithWorker, Holds
      <4> QED BY <4>1, <4>2, AtMostOne
    <3>4. Cardinality(InResults(p)) = IF Answered(p) THEN 1 ELSE 0
      <4>1. \A x, y \in InResults(p) : x = y
        BY <3>i DEF InResults, PathInv, Answers
      <4>2. InResults(p) = {} <=> ~Answered(p)
        BY DEF InResults, Answered, Answers
      <4> QED BY <4>1, <4>2, AtMostOne
    <3>5. InFlight(p) = IF Flies(p) THEN 1 ELSE 0
      <4>1. /\ WithTask(p) => ~Answered(p)
            /\ ~((\E w \in Workers : Carries(w, p)) /\ (\E w \in Workers : Holds(w, p)))
            /\ WithTask(p) <=>
                  (\E w \in Workers : Carries(w, p)) \/ (\E w \in Workers : Holds(w, p))
        BY <3>i DEF PathInv, WithTask
      <4> QED BY <3>2, <3>3, <3>4, <4>1 DEF InFlight, Flies
    <3>6. Len(emitted[p]) = IF Seen(p) THEN 1 ELSE 0
      <4>1. emitted[p] \in Seq(Events) /\ Len(emitted[p]) <= 1
        BY <1>1, <3>i DEF TypeOK, CoordinatorTypes, PathInv
      <4> QED BY <4>1 DEF Seen
    <3> QED BY <3>1, <3>5, <3>6
  <2>2. ASSUME NEW p \in Paths
        PROVE  Cardinality(InTodo(p)) + InFlight(p) + Len(emitted[p])
                 = IF p \in Discovered THEN 1 ELSE 0
    <3>1. /\ p \in Discovered <=> Waits(p) \/ Flies(p) \/ Seen(p)
          /\ Waits(p) => ~Flies(p)
          /\ Seen(p) => ~Waits(p) /\ ~Flies(p)
      BY <2>i DEF PathsInv, PathInv
    <3> QED BY <2>1, <3>1
  <2>3. {p \in Paths : InFlight(p) # 0} = Flying
    <3>1. \A p \in Paths : InFlight(p) # 0 <=> Flies(p)
      BY <2>1
    <3> QED BY <3>1 DEF Flying
  <2> QED BY <2>2, <2>3, <2>i DEF PathsInv
<1> QED BY <1>1, Invariants, PTL

------------------------------------------------------------------------------
(* What is reported, and why a run ends. *)

(* The only step that reports an attribute. *)
LEMMA ReportStep ==
  ASSUME TypeOK, Coordinator, emitted' # emitted
  PROVE  \E p \in Paths, event \in Events, w \in Workers :
            /\ cpc = "recv" /\ cpc' = "emit"
            /\ results # <<>> /\ Head(results).type = "Result" /\ Head(results).item = p
            /\ emitted' = [emitted EXCEPT ![p] = Append(@, event)]
            /\ FatalError(w, p, event) # "unowned"
            /\ UNCHANGED <<result, outcome, cancel>>
<1> DEFINE m == Head(results)
<1>1. ReceiveResult
  BY DEF Coordinator, ObserveCancel, BeginDispatch, DispatchWork, DispatchWait,
     DispatchEnd, AfterDispatch, ReceiveReady, ReceiveEnd, SinkAccepts,
     SinkFails, StopWorker, JoinWorker, AbortWorker
<1>2. /\ Received = "Result" /\ cpc = "recv" /\ cpc' = "emit"
      /\ emitted' = [emitted EXCEPT ![m.item] = Append(@, EventOf(m))]
      /\ FatalError(m.worker, m.item, EventOf(m)) # "unowned"
      /\ UNCHANGED <<result, outcome, cancel>>
  BY <1>1 DEF ReceiveResult
<1>3. /\ results # <<>> /\ m.type = "Result" /\ m.item \in Paths /\ m.worker \in Workers
      /\ m.event \in Events \union {"failed"}
  BY <1>2, ReceivedTypes DEF Received
<1>4. EventOf(m) \in Events
  BY <1>3 DEF EventOf, Events
<1> HIDE DEF m
<1> QED BY <1>2, <1>3, <1>4 DEF m

(* The ways out of the loop, and what each one means. *)
LEMMA LeaveHasCause ==
  ASSUME TypeOK, IdleWorkersWait, ControlInv, WorkInv, Coordinator,
         cpc \in Running, cpc' \notin Running
  PROVE  /\ UNCHANGED <<outcome, cancel, emitted, wpc>>
         /\ result' \notin {"stalled", "allExited"}
         /\ result' \in {"send", "worker"} =>
               \E w \in Workers : wpc[w] \in {"failing", "exitedErr", "aborted"}
         /\ result' \in {"fatal", "unowned"} => error' = result'
         /\ result' = "completed" => error' = "none" /\ todo = <<>> /\ active = 0
         /\ result' = "cancelled" => cancel
         /\ error' = "unowned" => result' = "unowned"
<1>t. CoordinatorTypes /\ ChannelTypes /\ WorkerTypes
  BY DEF TypeOK
<1>c. CoordinatorControl /\ \A v \in Workers : TaskControl(v)
  BY DEF ControlInv
<1>e. error # "unowned" /\ (cpc # "emit" => error = "none")
  BY <1>c DEF CoordinatorControl
<1>1. CASE ObserveCancel
  BY <1>1, <1>e DEF ObserveCancel, Leave, workerVars
<1>2. CASE DispatchWork
  <2>1. /\ cpc = "dispatch" /\ cursor > 0 /\ ~WorkRxOpen(Head(idle))
        /\ result' = "send"
        /\ UNCHANGED <<outcome, cancel, emitted, wpc, error>>
    BY <1>2 DEF DispatchWork, Leave, workerVars
  <2>2. idle \in Seq(Workers) /\ idle # <<>>
    BY <1>t, <2>1 DEF CoordinatorTypes
  <2>3. Head(idle) \in Workers /\ Queued(Head(idle))
    BY <2>2, HeadTailType DEF Queued
  <2>4. wpc[Head(idle)] \in {"failing", "exitedErr", "aborted"}
    BY <1>c, <2>1, <2>3 DEF WorkRxOpen, Ended, EndedOk, TaskControl
  <2> QED BY <1>e, <2>1, <2>3, <2>4
<1>3. CASE DispatchEnd
  <2>1. /\ cpc = "dispatch" /\ next_for \in {"Done", "Fatal"}
        /\ result' = IF next_for = "Done" THEN "completed" ELSE error
        /\ UNCHANGED <<outcome, cancel, emitted, wpc, error>>
    BY <1>3 DEF DispatchEnd, Leave, workerVars
  <2>2. todo = <<>> /\ active = 0 /\ next_for = "Done"
    BY <1>e, <2>1 DEF next_for
  <2> QED BY <1>e, <2>1, <2>2
<1>4. CASE AfterDispatch
  <2>1. /\ cpc = "dispatch" /\ cursor = 0
        /\ \/ is_done /\ result' = "completed"
           \/ ~is_done /\ ~has_active_work /\ Len(idle) = N /\ result' = "stalled"
        /\ UNCHANGED <<outcome, cancel, emitted, wpc, error>>
    BY <1>4 DEF AfterDispatch, Leave, workerVars, Running
  <2>2. ~(~is_done /\ ~has_active_work /\ Len(idle) = N)
    <3>1. active \in Nat
      BY FS_CardinalityType DEF WorkInv, PathsInv
    <3>2. cursor = Len(idle) \/ (todo = <<>> /\ active # 0)
      BY <1>c, <2>1 DEF CoordinatorControl
    <3> QED BY <2>1, <3>1, <3>2, WorkersExist DEF has_active_work
  <2> QED BY <1>e, <2>1, <2>2 DEF is_done
<1>5. CASE ReceiveEnd
  <2>1. /\ cpc = "recv"
        /\ \/ Received = "Cancelled" /\ result' = "cancelled"
           \/ Received = "Exited" /\ result' = "worker"
           \/ Received = "None" /\ result' = "allExited"
        /\ UNCHANGED <<outcome, cancel, emitted, wpc, error>>
    BY <1>5 DEF ReceiveEnd, Leave, workerVars
  <2>2. results # <<>> => /\ 1 \in DOMAIN results /\ results[1] = Head(results)
                          /\ Head(results) \in Messages
    BY <1>t, HeadTailType DEF ChannelTypes
  <2>3. Received \in {"Cancelled", "Exited"} => Says(Received)
    BY <2>2 DEF Received, Says
  <2>4. Received # "None"
    <3> SUFFICES ASSUME Received = "None" PROVE FALSE
      OBVIOUS
    <3>1. results = <<>>
      <4>1. results # <<>> => Received = Head(results).type /\ Head(results).type # "None"
        BY <2>2 DEF Received, Messages
      <4> QED BY <4>1
    <3>2. \A w \in Workers : wpc[w] \in Ended
      BY <3>1 DEF Received
    <3>3. \A type : ~Says(type)
      BY <3>1 DEF Says
    <3>4. 1 \in Workers
      BY WorkersExist DEF Workers
    <3> QED BY <1>c, <3>2, <3>3, <3>4 DEF TaskControl, Ended, EndedOk
  <2> QED BY <1>c, <1>e, <2>1, <2>3, <2>4 DEF CoordinatorControl
<1>6. CASE ReceiveResult
  BY <1>6, <1>e DEF ReceiveResult, Leave, workerVars, Running
<1>7. CASE SinkAccepts
  BY <1>7, <1>e, <1>t DEF SinkAccepts, Leave, workerVars, Running, CoordinatorTypes
<1>8. CASE SinkFails
  BY <1>8, <1>e DEF SinkFails, Leave, workerVars
<1>9. CASE BeginDispatch \/ DispatchWait \/ ReceiveReady
  BY <1>9 DEF BeginDispatch, DispatchWait, ReceiveReady, Running
<1>10. CASE StopWorker \/ JoinWorker \/ AbortWorker
  BY <1>10 DEF StopWorker, JoinWorker, AbortWorker, Running
<1> QED BY <1>1, <1>2, <1>3, <1>4, <1>5, <1>6, <1>7, <1>8, <1>9, <1>10 DEF Coordinator
(* After the loop nothing is decided any more but the outcome. *)
LEMMA TeardownStep ==
  ASSUME TypeOK, Coordinator, cpc \notin Running
  PROVE  /\ UNCHANGED <<error, result, cancel, emitted>>
         /\ cpc' \notin Running
         /\ \/ outcome' = outcome
            \/ cpc' = "returned" /\ outcome' = result
            \/ cpc' = "returned" /\ outcome' = "worker" /\ wpc[cursor] = "exitedErr"
         /\ cursor \in Workers
<1>t. CoordinatorTypes
  BY DEF TypeOK
<1>1. StopWorker \/ JoinWorker \/ AbortWorker
  BY DEF Coordinator, ObserveCancel, BeginDispatch, DispatchWork, DispatchWait,
     DispatchEnd, AfterDispatch, ReceiveReady, ReceiveEnd, ReceiveResult, SinkAccepts,
     SinkFails, Running
<1>2. cursor \in Workers
  BY <1>t, <1>1 DEF StopWorker, JoinWorker, AbortWorker, CoordinatorTypes, Teardown
<1>3. /\ UNCHANGED <<error, result, cancel, emitted>>
      /\ cpc' \notin Running
      /\ \/ outcome' = outcome
         \/ cpc' = "returned" /\ outcome' = result
         \/ cpc' = "returned" /\ outcome' = "worker" /\ wpc[cursor] = "exitedErr"
  BY <1>1 DEF StopWorker, JoinWorker, AbortWorker, NextWorker, Return, Running
<1> QED BY <1>2, <1>3

(* A task that failed never recovers. *)
Failed(w) == wpc[w] \in {"failing", "exitedErr", "aborted"}

LEMMA FailedStays ==
  ASSUME TypeOK, [Next]_vars, NEW v \in Workers, Failed(v) PROVE Failed(v)'
<1>t. CoordinatorTypes /\ WorkerTypes
  BY DEF TypeOK
<1>1. CASE Coordinator
  <2>1. CASE AbortWorker
    BY <1>t, <2>1 DEF AbortWorker, Failed, WorkerTypes
  <2>2. CASE ~AbortWorker
    <3>1. UNCHANGED wpc
      BY <1>1, <2>2 DEF Coordinator, ObserveCancel, BeginDispatch, DispatchWork, DispatchWait,
         DispatchEnd, AfterDispatch, ReceiveReady, ReceiveEnd, ReceiveResult, SinkAccepts,
         SinkFails, StopWorker, JoinWorker, workerVars
    <3> QED BY <3>1 DEF Failed
  <2> QED BY <2>1, <2>2
<1>2. ASSUME NEW w \in Workers, Worker(w) PROVE Failed(v)'
  BY <1>t, <1>2 DEF Worker, Connect, ConnectInterrupted, SendReady, TakeCommand,
     WorkTxDropped, SendCancelled, Evaluate, EvaluateFails, WorkerPanics, SendResult,
     AfterSend, Reconnect, SendExited, StopClient, Goto, Failed, WorkerTypes
<1>3. CASE RequestCancel \/ Finished \/ UNCHANGED vars
  BY <1>3 DEF RequestCancel, Finished, vars, workerVars, Failed
<1> QED BY <1>1, <1>2, <1>3 DEF Next

(* Whatever is reported comes from a system that some worker accepts. *)
LEMMA ReportIsOwned ==
  ASSUME NEW w \in Workers, NEW p \in Paths, FatalError(w, p, "derivation") # "unowned"
  PROVE  \E v \in Workers : worker_accepts_system(v, SystemOf[p])
<1>1. CASE w \in Remote
  BY <1>1 DEF FatalError, event_disposition
<1>2. CASE w \notin Remote
  BY <1>2 DEF worker_accepts_system
<1> QED BY <1>1, <1>2

(* A run that completed has nothing left: the queue is empty and no path   *)
(* is in flight, so every discovered path was reported.                    *)
LEMMA DoneIsExhaustive ==
  ASSUME PathsInv, todo = <<>>, active = 0
  PROVE  \A p \in Paths : p \in Discovered => Seen(p)
<1>1. Flying = {}
  BY FS_EmptySet DEF PathsInv
<1>2. \A p \in Paths : ~Waits(p)
  BY DEF Waits
<1> QED BY <1>1, <1>2 DEF Flying, PathsInv, PathInv

LEMMA DiscoveredArePaths == Discovered \subseteq Paths
<1>1. \A p \in Paths : Range(Children[p]) \subseteq Paths
  BY ConstantsAssumption DEF Range
<1> QED BY <1>1, ConstantsAssumption DEF Discovered

(* What a run has decided, it decided for a reason. *)
Verdict == ReportsSound /\ FailureHasCause

LEMMA InitVerdict == Init => Verdict
<1> SUFFICES ASSUME Init PROVE Verdict
  OBVIOUS
<1>1. /\ error = "none" /\ result = "none" /\ outcome = "none"
      /\ \A p \in Paths : emitted[p] = <<>>
  BY DEF Init
<1>2. ReportedOnce /\ UnownedNeverReported
  <2>1. \A p \in Paths : Range(emitted[p]) = {}
    BY <1>1 DEF Range
  <2> QED BY <1>1, <2>1 DEF ReportedOnce, UnownedNeverReported
<1> QED BY <1>1, <1>2 DEF Verdict, ReportsSound, FailureHasCause, CompletedIsExhaustive

LEMMA CoordinatorKeepsVerdict ==
  ASSUME TypeOK, TypeOK', IdleWorkersWait, ControlInv, ControlInv', WorkInv, WorkInv', Verdict,
         Coordinator
  PROVE  Verdict'
<1>v. ReportedOnce /\ CompletedIsExhaustive /\ UnownedNeverReported /\ FailureHasCause
  BY DEF Verdict, ReportsSound
<1>1. CASE cpc' \in Running
  <2>1. result' = "none" /\ outcome' = "none" /\ error' # "unowned" /\ PathsInv'
    BY <1>1 DEF ControlInv, CoordinatorControl, WorkInv
  <2>2. ReportedOnce'
    BY <2>1 DEF ReportedOnce, PathsInv, PathInv
  <2>3. UnownedNeverReported'
    <3> SUFFICES ASSUME NEW p \in Paths, "derivation" \in Range(emitted'[p])
                 PROVE  \E w \in Workers : worker_accepts_system(w, SystemOf[p])
      BY <2>1 DEF UnownedNeverReported
    <3>1. CASE "derivation" \in Range(emitted[p])
      BY <1>v, <3>1 DEF UnownedNeverReported
    <3>2. CASE "derivation" \notin Range(emitted[p])
      <4>1. PICK q \in Paths, event \in Events, w \in Workers :
               /\ emitted' = [emitted EXCEPT ![q] = Append(@, event)]
               /\ FatalError(w, q, event) # "unowned"
        BY <3>2, ReportStep
      <4>t. emitted \in [Paths -> Seq(Events)]
        BY DEF TypeOK, CoordinatorTypes
      <4>2. p = q
        BY <3>2, <4>1, <4>t
      <4>3. emitted'[p] = Append(emitted[p], event)
        BY <4>1, <4>2, <4>t
      <4>4. Range(Append(emitted[p], event)) \subseteq Range(emitted[p]) \union {event}
        <5>1. emitted[p] \in Seq(Events)
          BY <4>t
        <5> QED BY <5>1, AppendType DEF Range
      <4>5. event = "derivation"
        BY <3>2, <4>3, <4>4
      <4> QED BY <4>1, <4>2, <4>5, ReportIsOwned
    <3> QED BY <3>1, <3>2
  <2> QED BY <2>1, <2>2, <2>3 DEF Verdict, ReportsSound, FailureHasCause, CompletedIsExhaustive
<1>2. CASE cpc \in Running /\ cpc' \notin Running
  <2>1. /\ UNCHANGED <<outcome, cancel, emitted, wpc>>
        /\ result' \notin {"stalled", "allExited"}
        /\ result' \in {"send", "worker"} =>
              \E w \in Workers : wpc[w] \in {"failing", "exitedErr", "aborted"}
        /\ result' \in {"fatal", "unowned"} => error' = result'
        /\ result' = "completed" => error' = "none" /\ todo = <<>> /\ active = 0
        /\ result' = "cancelled" => cancel
        /\ error' = "unowned" => result' = "unowned"
    BY <1>2, LeaveHasCause
  <2>2. outcome = "none" /\ PathsInv
    BY <1>2 DEF ControlInv, CoordinatorControl, WorkInv
  <2>3. CompletedIsExhaustive'
    <3>1. Discovered' = Discovered
      BY <2>1 DEF Discovered
    <3> QED BY <2>1, <2>2, <3>1, DoneIsExhaustive, DiscoveredArePaths
        DEF CompletedIsExhaustive, Seen
  <2>4. ReportedOnce' /\ UnownedNeverReported'
    BY <1>v, <2>1 DEF ReportedOnce, UnownedNeverReported
  <2>5. FailureHasCause'
    BY <2>1, <2>2 DEF FailureHasCause
  <2> QED BY <2>3, <2>4, <2>5 DEF Verdict, ReportsSound
<1>3. CASE cpc \notin Running
  <2>1. /\ UNCHANGED <<error, result, cancel, emitted>>
        /\ \/ outcome' = outcome
           \/ outcome' = result
           \/ outcome' = "worker" /\ wpc[cursor] = "exitedErr" /\ cursor \in Workers
    BY <1>3, TeardownStep
  <2>2. (result \in {"send", "worker"} \/ outcome' = "worker") => \E w \in Workers : Failed(w)
    BY <1>v, <2>1 DEF FailureHasCause, Failed
  <2>3. (\E w \in Workers : Failed(w)) => \E w \in Workers : Failed(w)'
    BY FailedStays DEF Next
  <2>4. FailureHasCause'
    BY <1>v, <2>1, <2>2, <2>3 DEF FailureHasCause, Failed
  <2>5. ReportedOnce' /\ UnownedNeverReported' /\ CompletedIsExhaustive'
    BY <1>v, <2>1 DEF ReportedOnce, UnownedNeverReported, CompletedIsExhaustive, Discovered
  <2> QED BY <2>4, <2>5 DEF Verdict, ReportsSound
<1> QED BY <1>1, <1>2, <1>3

LEMMA NextKeepsVerdict ==
  /\ TypeOK /\ IdleWorkersWait /\ ControlInv /\ WorkInv
  /\ TypeOK' /\ ControlInv' /\ WorkInv'
  /\ Verdict /\ [Next]_vars
  => Verdict'
<1> SUFFICES ASSUME TypeOK, IdleWorkersWait, ControlInv, WorkInv, TypeOK', ControlInv', WorkInv',
                    Verdict, [Next]_vars
             PROVE  Verdict'
  OBVIOUS
<1>1. CASE Coordinator
  BY <1>1, CoordinatorKeepsVerdict
<1>2. CASE ~Coordinator
  <2>1. /\ UNCHANGED <<error, result, outcome, emitted>>
        /\ cancel => cancel'
    <3>1. CASE \E w \in Workers : Worker(w)
      BY <3>1, WorkerFrame DEF coordinatorVars
    <3>2. CASE RequestCancel \/ Finished \/ UNCHANGED vars
      BY <3>2 DEF RequestCancel, Finished, vars, coordinatorVars
    <3> QED BY <1>2, <3>1, <3>2 DEF Next
  <2>2. (\E w \in Workers : Failed(w)) => \E w \in Workers : Failed(w)'
    BY FailedStays
  <2>3. FailureHasCause'
    BY <2>1, <2>2 DEF Verdict, FailureHasCause, Failed
  <2>4. ReportedOnce' /\ UnownedNeverReported' /\ CompletedIsExhaustive'
    BY <2>1 DEF Verdict, ReportsSound, ReportedOnce, UnownedNeverReported,
       CompletedIsExhaustive, Discovered
  <2> QED BY <2>3, <2>4 DEF Verdict, ReportsSound
<1> QED BY <1>1, <1>2

LEMMA VerdictHolds == Spec => []Verdict
BY InitVerdict, NextKeepsVerdict, Invariants, PTL DEF Spec

(* No attribute reaches the sink twice, a run answers Completed only when  *)
(* every attribute of the reported attribute sets was reported, and a      *)
(* derivation for a system that no worker accepts is never reported.       *)
THEOREM ReportsAreSound == Spec => []ReportsSound
BY VerdictHolds, PTL DEF Verdict

(* The coordinator never stalls, never finds all its workers gone without  *)
(* a word, and fails or is cancelled only for the cause it names.          *)
THEOREM FailuresHaveCause == Spec => []FailureHasCause
BY VerdictHolds, PTL DEF Verdict
------------------------------------------------------------------------------
(* The run implements the traversal. *)

Visited == {p \in Paths : Seen(p)}
Frontier == Discovered \ Visited

(* The report of an attribute is a visit of the traversal. *)
LEMMA ReportIsVisit ==
  ASSUME TypeOK, PathsInv, NEW p \in Paths, NEW event \in Events,
         results # <<>>, Head(results).type = "Result", Head(results).item = p,
         emitted' = [emitted EXCEPT ![p] = Append(@, event)]
  PROVE  /\ p \in Frontier
         /\ Visited' = Visited \union {p}
         /\ \E found \in {{}, Range(Children[p])} : Frontier' = (Frontier \ {p}) \union found
<1>1. Answered(p)
  <2>1. 1 \in DOMAIN results /\ results[1] = Head(results)
    BY HeadTailType DEF TypeOK, ChannelTypes
  <2> QED BY <2>1 DEF Answered, Answers
<1>2. p \in Discovered /\ ~Seen(p)
  BY <1>1 DEF PathsInv, PathInv, Flies
<1>3. /\ Discovered' = Discovered \union Range(Expand(p, event))
      /\ emitted'[p] = <<event>>
      /\ \A q \in Paths : q # p => emitted'[q] = emitted[q]
  BY <1>2, DiscoveredGrows DEF Seen
<1>4. Visited' = Visited \union {p}
  <2>1. <<event>> # <<>>
    OBVIOUS
  <2> QED BY <1>3, <2>1 DEF Visited, Seen
<1>5. Visited \subseteq Discovered
  BY DEF Visited, PathsInv, PathInv
<1>6. Range(Expand(p, event)) \intersect Discovered = {}
  <2>1. "attrset" \notin Range(emitted[p])
    BY <1>2 DEF Seen, Range
  <2>2. \A i \in DOMAIN Children[p] : Children[p][i] \notin Discovered
    BY <2>1, ChildrenAreNew
  <2>3. Range(Children[p]) \intersect Discovered = {}
    BY <2>2 DEF Range
  <2>4. Range(<<>>) = {}
    BY DEF Range
  <2> QED BY <2>3, <2>4 DEF Expand
<1>7. Frontier' = (Frontier \ {p}) \union Range(Expand(p, event))
  BY <1>2, <1>3, <1>4, <1>5, <1>6, Zenon DEF Frontier
<1>8. Range(Expand(p, event)) \in {{}, Range(Children[p])}
  BY DEF Expand, Range
<1> QED BY <1>2, <1>4, <1>7, <1>8 DEF Frontier, Visited

(* The order of answers, the number of workers, their failures and         *)
(* restarts do not show: a run reports each attribute once, after the      *)
(* attribute set that contains it, and ends in one of the three ways.      *)
THEOREM RunImplementsTraversal == Spec => ImplementsTraversal
<1>1. Init => Abstract!Init
  <2> SUFFICES ASSUME Init PROVE Abstract!Init
    OBVIOUS
  <2>1. \A p \in Paths : emitted[p] = <<>>
    BY DEF Init
  <2>2. \A q \in Paths : "attrset" \notin Range(emitted[q])
    BY <2>1 DEF Range
  <2>3. Discovered = {Root}
    BY <2>2, ConstantsAssumption DEF Discovered
  <2>4. outcome = "none" /\ cancel = FALSE
    BY DEF Init
  <2> QED BY <2>1, <2>3, <2>4 DEF Abstract!Init
<1>2. ASSUME TypeOK, IdleWorkersWait, ControlInv, WorkInv, Verdict, TeardownInv, [Next]_vars
      PROVE  [Abstract!Next]_Abstract!vars
  <2>1. CASE emitted' # emitted
    <3>1. Coordinator
      BY <1>2, <2>1, WorkerFrame DEF Next, RequestCancel, Finished, vars, coordinatorVars
    <3>2. PICK p \in Paths, event \in Events :
             /\ cpc = "recv"
             /\ results # <<>> /\ Head(results).type = "Result" /\ Head(results).item = p
             /\ emitted' = [emitted EXCEPT ![p] = Append(@, event)]
             /\ UNCHANGED <<outcome, cancel>>
      BY <1>2, <2>1, <3>1, ReportStep
    <3>3. PathsInv /\ outcome = "none"
      BY <1>2, <3>2 DEF WorkInv, ControlInv, CoordinatorControl, Running
    <3>4. /\ p \in Frontier
          /\ Visited' = Visited \union {p}
          /\ \E found \in {{}, Range(Children[p])} : Frontier' = (Frontier \ {p}) \union found
      BY <1>2, <3>2, <3>3, ReportIsVisit
    <3>r. Abstract!Range(Children[p]) = Range(Children[p])
      BY DEF Abstract!Range, Range
    <3>5. Abstract!Visit(p)
      BY <3>2, <3>3, <3>4, <3>r DEF Abstract!Visit, Frontier, Visited, Seen
    <3> QED BY <3>5 DEF Abstract!Next
  <2>2. CASE emitted' = emitted /\ outcome' # outcome
    <3>1. Coordinator
      BY <1>2, <2>2, WorkerFrame DEF Next, RequestCancel, Finished, vars, coordinatorVars
    <3>2. cpc \notin Running
      <4> SUFFICES ASSUME cpc \in Running PROVE outcome' = outcome
        BY <2>2
      <4>1. CASE cpc' \in Running
        BY <3>1, <4>1 DEF Coordinator, ObserveCancel, BeginDispatch, DispatchWork, DispatchWait,
           DispatchEnd, AfterDispatch, ReceiveReady, ReceiveEnd, ReceiveResult, SinkAccepts,
           SinkFails, StopWorker, JoinWorker, AbortWorker, Leave, Running
      <4>2. CASE cpc' \notin Running
        BY <1>2, <3>1, <4>2, LeaveHasCause
      <4> QED BY <4>1, <4>2
    <3>3. outcome = "none"
      <4>1. cpc # "returned"
        BY <3>1 DEF Coordinator, ObserveCancel, BeginDispatch, DispatchWork, DispatchWait,
           DispatchEnd, AfterDispatch, ReceiveReady, ReceiveEnd, ReceiveResult, SinkAccepts,
           SinkFails, StopWorker, JoinWorker, AbortWorker
      <4> QED BY <1>2, <4>1 DEF TeardownInv
    <3>4. (outcome' = result \/ outcome' = "worker") /\ cancel' = cancel
      BY <1>2, <2>2, <3>1, <3>2, TeardownStep
    <3>5. Discovered' = Discovered
      BY <2>2 DEF Discovered
    <3>6. CASE outcome' = "completed"
      <4>1. Discovered \ {p \in Paths : emitted[p] # <<>>} = {}
        BY <1>2, <3>4, <3>6, DiscoveredArePaths DEF Verdict, ReportsSound, CompletedIsExhaustive
      <4>2. Abstract!Finish("completed")
        BY <2>2, <3>3, <3>4, <3>5, <3>6, <4>1 DEF Abstract!Finish
      <4> QED BY <4>2 DEF Abstract!Next
    <3>7. CASE outcome' = "cancelled"
      <4>1. cancel
        BY <1>2, <3>4, <3>7 DEF Verdict, FailureHasCause
      <4>2. Abstract!Finish("cancelled")
        BY <2>2, <3>3, <3>4, <3>5, <3>7, <4>1 DEF Abstract!Finish
      <4> QED BY <4>2 DEF Abstract!Next
    <3>8. CASE outcome' \notin {"completed", "cancelled"}
      <4>1. Abstract!Finish("failed")
        BY <2>2, <3>3, <3>4, <3>5, <3>8 DEF Abstract!Finish
      <4> QED BY <4>1 DEF Abstract!Next
    <3> QED BY <3>6, <3>7, <3>8
  <2>3. CASE emitted' = emitted /\ outcome' = outcome
    <3>1. Discovered' = Discovered
      BY <2>3 DEF Discovered
    <3>2. cancel' = cancel \/ cancel' = TRUE
      <4>1. CASE Coordinator
        BY <4>1 DEF Coordinator, ObserveCancel, BeginDispatch, DispatchWork, DispatchWait,
           DispatchEnd, AfterDispatch, ReceiveReady, ReceiveEnd, ReceiveResult, SinkAccepts,
           SinkFails, StopWorker, JoinWorker, AbortWorker
      <4>2. CASE \E w \in Workers : Worker(w)
        BY <1>2, <4>2, WorkerFrame
      <4>3. CASE RequestCancel \/ Finished \/ UNCHANGED vars
        BY <4>3 DEF RequestCancel, Finished, vars
      <4> QED BY <1>2, <4>1, <4>2, <4>3 DEF Next
    <3> QED BY <2>3, <3>1, <3>2 DEF Abstract!Next, Abstract!RequestCancel, Abstract!vars
  <2> QED BY <2>1, <2>2, <2>3
<1> QED
  BY <1>1, <1>2, Invariants, VerdictHolds, TeardownHolds, PTL DEF Spec, ImplementsTraversal, Abstract!Spec
==============================================================================
