----------------------------- MODULE SessionProofs -----------------------------
(***************************************************************************)
(* Theorems about a session, for any number of calls of stream, watch and  *)
(* diff_once, any number of edits and any channel capacity.                *)
(***************************************************************************)
EXTENDS Session, FiniteSetTheorems, TLAPS

------------------------------------------------------------------------------
(* The inductive invariant. *)

Typed ==
    /\ TypeOK
    /\ fs \in [Watches -> Seq({"change", "error"})]
    /\ out \in [Tasks -> Seq(Items)]
    /\ open \in [Tasks -> BOOLEAN]

(* Where the task of each kind of call can be. *)
PcInv(t) ==
    /\ t \in Streams => pc[t] \in InitialStates \union {"idle", "report", "done", "unspawned"}
    /\ t \in Watches => pc[t] # "emit"
    /\ t \in Diffs => pc[t] \in {"idle", "reeval", "done"}

(* One task at most runs the initial evaluation, and none once the warm    *)
(* state is completed.                                                     *)
StartInv ==
    /\ \A t, u \in Tasks : pc[t] \in InitialStates /\ pc[u] \in InitialStates => t = u
    /\ initial = "Idle" => ~warm.completed /\ \A t \in Streams \union Watches : pc[t] = "idle"
    /\ warm.completed => \A t \in Tasks : pc[t] \notin InitialStates \ {"completed"}

(* The warm graph is the empty one until an evaluation completes; from     *)
(* then on it is a whole one.                                              *)
WarmInv ==
    /\ warm.graph \in (IF warm.completed THEN Versions ELSE {Empty})
    /\ \A t \in Tasks : ~warm.completed => replaced[t] = Empty
    /\ \A t \in Tasks : pc[t] \in LoopStates \union {"setup", "completed"} => warm.completed
    /\ \A t \in Tasks : pc[t] = "reeval" => base[t] \in Versions
    /\ \A t \in Tasks : item[t].kind = "diff" => item[t].from \in Versions

(* A failure is in the warm state before anybody is told that the initial  *)
(* evaluation is over.                                                     *)
FailInv ==
    /\ \A t \in Tasks : pc[t] \in {"record", "finish"} => error[t] # "none"
    /\ \A t \in Tasks : pc[t] = "finish" => warm.error # "none"
    /\ FinishedIsExplained
    /\ StreamEndHonest

(* What a watch that is the only writer compares with and sends is the     *)
(* warm graph.                                                             *)
ChainInv ==
    /\ \A t \in Watches : pc[t] \notin LoopStates \union {"done"} => last[t].kind # "diff"
    /\ \A t \in Watches : OnlyWriter(t) =>
          /\ pc[t] = "reeval" => base[t] = warm.graph
          /\ pc[t] = "deliver" /\ item[t].kind = "diff" => item[t].to = warm.graph
          /\ /\ pc[t] \in LoopStates /\ last[t].kind = "diff"
             /\ ~(pc[t] = "deliver" /\ item[t].kind = "diff")
             => last[t].to = warm.graph

SessionInv ==
    /\ Typed
    /\ \A t \in Tasks : PcInv(t)
    /\ StartInv
    /\ WarmInv
    /\ FailInv
    /\ ChainInv

------------------------------------------------------------------------------
(* The places of the tasks. *)

(* What a step of a task does to the initial evaluation: it starts it, has *)
(* nothing to do with it, goes on with it, completes it or is done with it. *)
Starts(t) ==
    /\ pc[t] = "idle" /\ pc'[t] = "eval" /\ t \notin Diffs
    /\ initial = "Idle" /\ initial' = "Running" /\ warm'.completed = warm.completed

Outside(t) ==
    /\ pc[t] \notin InitialStates /\ pc'[t] \notin InitialStates
    /\ initial' = initial \/ initial' = "Finished"
    /\ pc[t] = "idle" /\ t \notin Diffs => initial' # "Idle"
    /\ warm'.completed = warm.completed

Inside(t) ==
    /\ pc[t] \in InitialStates \ {"completed"} /\ pc'[t] \in InitialStates \ {"completed"}
    /\ initial' = initial /\ warm'.completed = warm.completed

Completes(t) ==
    /\ pc[t] = "eval" /\ pc'[t] = "completed"
    /\ initial' = initial /\ warm'.completed = TRUE

Leaves(t) ==
    /\ pc[t] \in InitialStates /\ pc'[t] \notin InitialStates
    /\ initial' = "Finished" /\ warm'.completed = warm.completed

TaskMoves(t) ==
    /\ \A u \in Tasks : u # t => pc'[u] = pc[u]
    /\ PcInv(t)'
    /\ Starts(t) \/ Outside(t) \/ Inside(t) \/ Completes(t) \/ Leaves(t)

(* A step of the environment leaves the tasks where they are. *)
TasksStay == UNCHANGED <<pc, initial, warm, error, base, item, last, replaced>>

LEMMA TasksMove ==
  ASSUME SessionInv, Next
  PROVE  \/ \E t \in Tasks : TaskMoves(t)
         \/ TasksStay
<1>t. /\ pc \in [Tasks -> Pcs] /\ (\A u \in Tasks : PcInv(u))
      /\ \A u \in Tasks : pc[u] = "reeval" => warm.completed = TRUE
      /\ warm \in [graph : Graphs, completed : BOOLEAN,
                    error : {"none", "failed", "cancelled", "no runtime"}]
      /\ initial \in {"Idle", "Running", "Finished"}
      /\ Tasks = Streams \union Watches \union Diffs
  BY DEF SessionInv, Typed, TypeOK, Tasks, WarmInv, LoopStates
<1>d. /\ \A t \in Streams : t \notin Watches /\ t \notin Diffs
      /\ \A t \in Watches : t \notin Diffs
  BY SessionAssumption
<1>1. ASSUME NEW t \in Streams, CallStream(t) PROVE t \in Tasks /\ TaskMoves(t)
  <2>1. t \in Tasks /\ \A u \in Tasks : u # t => pc'[u] = pc[u]
    BY <1>t, <1>1 DEF CallStream, Goto
  <2>2. Starts(t) \/ Outside(t)
    BY <1>t, <1>d, <1>1 DEF CallStream, Goto, Starts, Outside, InitialStates
  <2>3. PcInv(t)'
    BY <1>t, <1>d, <1>1 DEF CallStream, Goto, PcInv, InitialStates
  <2> QED BY <2>1, <2>2, <2>3 DEF TaskMoves
<1>2. ASSUME NEW t \in Watches, CallWatch(t) PROVE t \in Tasks /\ TaskMoves(t)
  <2>1. t \in Tasks /\ \A u \in Tasks : u # t => pc'[u] = pc[u]
    BY <1>t, <1>2 DEF CallWatch, Goto
  <2>2. Starts(t) \/ Outside(t)
    BY <1>t, <1>d, <1>2 DEF CallWatch, Goto, Starts, Outside, InitialStates
  <2>3. PcInv(t)'
    BY <1>t, <1>d, <1>2 DEF CallWatch, Goto, PcInv, InitialStates
  <2> QED BY <2>1, <2>2, <2>3 DEF TaskMoves
<1>3. ASSUME NEW t \in Diffs, CallDiff(t) PROVE t \in Tasks /\ TaskMoves(t)
  <2>1. t \in Tasks /\ \A u \in Tasks : u # t => pc'[u] = pc[u]
    BY <1>t, <1>3 DEF CallDiff, Goto
  <2>2. Outside(t)
    BY <1>t, <1>d, <1>3 DEF CallDiff, Goto, Outside, InitialStates
  <2>3. PcInv(t)'
    BY <1>t, <1>d, <1>3, ZenonT(60) DEF CallDiff, Goto, PcInv, InitialStates
  <2> QED BY <2>1, <2>2, <2>3 DEF TaskMoves
<1>4. ASSUME NEW t \in Tasks, SpawnFails(t) PROVE t \in Tasks /\ TaskMoves(t)
  <2>1. t \in Tasks /\ \A u \in Tasks : u # t => pc'[u] = pc[u]
    BY <1>t, <1>4 DEF SpawnFails, Goto
  <2>2. Outside(t)
    BY <1>t, <1>d, <1>4 DEF SpawnFails, Goto, Outside, InitialStates
  <2>3. PcInv(t)'
    BY <1>t, <1>d, <1>4 DEF SpawnFails, Goto, PcInv, InitialStates
  <2> QED BY <2>1, <2>2, <2>3 DEF TaskMoves
<1>5. ASSUME NEW t \in Tasks, EmitEvent(t) PROVE t \in Tasks /\ TaskMoves(t)
  <2>1. t \in Tasks /\ \A u \in Tasks : u # t => pc'[u] = pc[u]
    BY <1>t, <1>5 DEF EmitEvent, Goto
  <2>2. Inside(t)
    BY <1>t, <1>d, <1>5 DEF EmitEvent, Goto, Inside, InitialStates
  <2>3. PcInv(t)'
    BY <1>t, <1>d, <1>5 DEF EmitEvent, Goto, PcInv, InitialStates
  <2> QED BY <2>1, <2>2, <2>3 DEF TaskMoves
<1>6. ASSUME NEW t \in Tasks, SendEvent(t) PROVE t \in Tasks /\ TaskMoves(t)
  <2>1. t \in Tasks /\ \A u \in Tasks : u # t => pc'[u] = pc[u]
    BY <1>t, <1>6 DEF SendEvent, Goto
  <2>2. Inside(t)
    BY <1>t, <1>d, <1>6 DEF SendEvent, Goto, Inside, InitialStates
  <2>3. PcInv(t)'
    <3>1. pc[t] = "emit" /\ pc'[t] \in {"eval", "record"}
      BY <1>t, <1>6 DEF SendEvent, Goto
    <3> QED BY <1>t, <1>d, <3>1 DEF PcInv, InitialStates
  <2> QED BY <2>1, <2>2, <2>3 DEF TaskMoves
<1>7. ASSUME NEW t \in Tasks, EvalCompletes(t) PROVE t \in Tasks /\ TaskMoves(t)
  <2>1. t \in Tasks /\ \A u \in Tasks : u # t => pc'[u] = pc[u]
    BY <1>t, <1>7 DEF EvalCompletes, Goto
  <2>2. Completes(t)
    <3>1. warm'.completed = TRUE
      BY <1>7 DEF EvalCompletes, StoreGraph
    <3> QED BY <1>t, <1>d, <1>7, <3>1 DEF EvalCompletes, Goto, Completes, InitialStates
  <2>3. PcInv(t)'
    BY <1>t, <1>d, <1>7 DEF EvalCompletes, Goto, PcInv, InitialStates
  <2> QED BY <2>1, <2>2, <2>3 DEF TaskMoves
<1>8. ASSUME NEW t \in Tasks, EvalCancelled(t) PROVE t \in Tasks /\ TaskMoves(t)
  <2>1. t \in Tasks /\ \A u \in Tasks : u # t => pc'[u] = pc[u]
    BY <1>t, <1>8 DEF EvalCancelled, Goto
  <2>2. Inside(t)
    BY <1>t, <1>d, <1>8 DEF EvalCancelled, Goto, Inside, InitialStates
  <2>3. PcInv(t)'
    BY <1>t, <1>d, <1>8 DEF EvalCancelled, Goto, PcInv, InitialStates
  <2> QED BY <2>1, <2>2, <2>3 DEF TaskMoves
<1>9. ASSUME NEW t \in Tasks, EvalFails(t) PROVE t \in Tasks /\ TaskMoves(t)
  <2>1. t \in Tasks /\ \A u \in Tasks : u # t => pc'[u] = pc[u]
    BY <1>t, <1>9 DEF EvalFails, Goto
  <2>2. Inside(t)
    BY <1>t, <1>d, <1>9 DEF EvalFails, Goto, Inside, InitialStates
  <2>3. PcInv(t)'
    BY <1>t, <1>d, <1>9 DEF EvalFails, Goto, PcInv, InitialStates
  <2> QED BY <2>1, <2>2, <2>3 DEF TaskMoves
<1>10. ASSUME NEW t \in Tasks, RecordError(t) PROVE t \in Tasks /\ TaskMoves(t)
  <2>1. t \in Tasks /\ \A u \in Tasks : u # t => pc'[u] = pc[u]
    BY <1>t, <1>10 DEF RecordError, Goto
  <2>2. Inside(t)
    BY <1>t, <1>d, <1>10 DEF RecordError, Goto, Inside, InitialStates
  <2>3. PcInv(t)'
    BY <1>t, <1>d, <1>10 DEF RecordError, Goto, PcInv, InitialStates
  <2> QED BY <2>1, <2>2, <2>3 DEF TaskMoves
<1>11. ASSUME NEW t \in Tasks, FinishFailed(t) PROVE t \in Tasks /\ TaskMoves(t)
  <2>1. t \in Tasks /\ \A u \in Tasks : u # t => pc'[u] = pc[u]
    BY <1>t, <1>11 DEF FinishFailed, Goto
  <2>2. Leaves(t)
    BY <1>t, <1>d, <1>11 DEF FinishFailed, Goto, Leaves, InitialStates
  <2>3. PcInv(t)'
    BY <1>t, <1>d, <1>11 DEF FinishFailed, Goto, PcInv, InitialStates
  <2> QED BY <2>1, <2>2, <2>3 DEF TaskMoves
<1>12. ASSUME NEW t \in Tasks, FinishCompleted(t) PROVE t \in Tasks /\ TaskMoves(t)
  <2>1. t \in Tasks /\ \A u \in Tasks : u # t => pc'[u] = pc[u]
    BY <1>t, <1>12 DEF FinishCompleted, Goto
  <2>2. Leaves(t)
    BY <1>t, <1>d, <1>12 DEF FinishCompleted, Goto, Leaves, InitialStates
  <2>3. PcInv(t)'
    BY <1>t, <1>d, <1>12 DEF FinishCompleted, Goto, PcInv, InitialStates
  <2> QED BY <2>1, <2>2, <2>3 DEF TaskMoves
<1>13. ASSUME NEW t \in Tasks, ReportError(t) PROVE t \in Tasks /\ TaskMoves(t)
  <2>1. t \in Tasks /\ \A u \in Tasks : u # t => pc'[u] = pc[u]
    BY <1>t, <1>13 DEF ReportError, Goto
  <2>2. Outside(t)
    BY <1>t, <1>d, <1>13 DEF ReportError, Goto, Outside, InitialStates
  <2>3. PcInv(t)'
    BY <1>t, <1>d, <1>13 DEF ReportError, Goto, PcInv, InitialStates
  <2> QED BY <2>1, <2>2, <2>3 DEF TaskMoves
<1>14. ASSUME NEW t \in Tasks, WaitCheck(t) PROVE t \in Tasks /\ TaskMoves(t)
  <2>1. t \in Tasks /\ \A u \in Tasks : u # t => pc'[u] = pc[u]
    BY <1>t, <1>14 DEF WaitCheck, Goto
  <2>2. Outside(t)
    BY <1>t, <1>d, <1>14 DEF WaitCheck, Goto, Outside, InitialStates
  <2>3. PcInv(t)'
    BY <1>t, <1>d, <1>14 DEF WaitCheck, Goto, PcInv, InitialStates
  <2> QED BY <2>1, <2>2, <2>3 DEF TaskMoves
<1>15. ASSUME NEW t \in Tasks, WaitRegister(t) PROVE t \in Tasks /\ TaskMoves(t)
  <2>1. t \in Tasks /\ \A u \in Tasks : u # t => pc'[u] = pc[u]
    BY <1>t, <1>15 DEF WaitRegister, Goto
  <2>2. Outside(t)
    BY <1>t, <1>d, <1>15 DEF WaitRegister, Goto, Outside, InitialStates
  <2>3. PcInv(t)'
    BY <1>t, <1>d, <1>15 DEF WaitRegister, Goto, PcInv, InitialStates
  <2> QED BY <2>1, <2>2, <2>3 DEF TaskMoves
<1>16. ASSUME NEW t \in Tasks, WaitRead(t) PROVE t \in Tasks /\ TaskMoves(t)
  <2>1. t \in Tasks /\ \A u \in Tasks : u # t => pc'[u] = pc[u]
    BY <1>t, <1>16 DEF WaitRead, Goto
  <2>2. Outside(t)
    BY <1>t, <1>d, <1>16 DEF WaitRead, Goto, Outside, InitialStates
  <2>3. PcInv(t)'
    BY <1>t, <1>d, <1>16 DEF WaitRead, Goto, PcInv, InitialStates
  <2> QED BY <2>1, <2>2, <2>3 DEF TaskMoves
<1>17. ASSUME NEW t \in Tasks, Wake(t) PROVE t \in Tasks /\ TaskMoves(t)
  <2>1. t \in Tasks /\ \A u \in Tasks : u # t => pc'[u] = pc[u]
    BY <1>t, <1>17 DEF Wake, Goto
  <2>2. Outside(t)
    BY <1>t, <1>d, <1>17 DEF Wake, Goto, Outside, InitialStates
  <2>3. PcInv(t)'
    BY <1>t, <1>d, <1>17 DEF Wake, Goto, PcInv, InitialStates
  <2> QED BY <2>1, <2>2, <2>3 DEF TaskMoves
<1>18. ASSUME NEW t \in Tasks, Setup(t) PROVE t \in Tasks /\ TaskMoves(t)
  <2>1. t \in Tasks /\ \A u \in Tasks : u # t => pc'[u] = pc[u]
    BY <1>t, <1>18 DEF Setup, Goto
  <2>2. Outside(t)
    BY <1>t, <1>d, <1>18 DEF Setup, Goto, Outside, InitialStates
  <2>3. PcInv(t)'
    BY <1>t, <1>d, <1>18 DEF Setup, Goto, PcInv, InitialStates
  <2> QED BY <2>1, <2>2, <2>3 DEF TaskMoves
<1>19. ASSUME NEW t \in Tasks, LoopCheck(t) PROVE t \in Tasks /\ TaskMoves(t)
  <2>1. t \in Tasks /\ \A u \in Tasks : u # t => pc'[u] = pc[u]
    BY <1>t, <1>19 DEF LoopCheck, Goto
  <2>2. Outside(t)
    BY <1>t, <1>d, <1>19 DEF LoopCheck, Goto, Outside, InitialStates
  <2>3. PcInv(t)'
    BY <1>t, <1>d, <1>19 DEF LoopCheck, Goto, PcInv, InitialStates
  <2> QED BY <2>1, <2>2, <2>3 DEF TaskMoves
<1>20. ASSUME NEW t \in Tasks, RecvTimeout(t) PROVE t \in Tasks /\ TaskMoves(t)
  <2>1. t \in Tasks /\ \A u \in Tasks : u # t => pc'[u] = pc[u]
    BY <1>t, <1>20 DEF RecvTimeout, Goto
  <2>2. Outside(t)
    BY <1>t, <1>d, <1>20 DEF RecvTimeout, Goto, Outside, InitialStates
  <2>3. PcInv(t)'
    BY <1>t, <1>d, <1>20 DEF RecvTimeout, Goto, PcInv, InitialStates
  <2> QED BY <2>1, <2>2, <2>3 DEF TaskMoves
<1>21. ASSUME NEW t \in Tasks, LoopEvent(t) PROVE t \in Tasks /\ TaskMoves(t)
  <2>1. t \in Tasks /\ \A u \in Tasks : u # t => pc'[u] = pc[u]
    BY <1>t, <1>21 DEF LoopEvent, Goto
  <2>2. Outside(t)
    BY <1>t, <1>d, <1>21 DEF LoopEvent, Goto, Outside, InitialStates
  <2>3. PcInv(t)'
    <3>1. pc[t] = "recv" /\ pc'[t] \in {"debounce", "deliver"}
      BY <1>t, <1>21 DEF LoopEvent, Goto
    <3> QED BY <1>t, <1>d, <3>1 DEF PcInv, InitialStates
  <2> QED BY <2>1, <2>2, <2>3 DEF TaskMoves
<1>22. ASSUME NEW t \in Tasks, Debounce(t) PROVE t \in Tasks /\ TaskMoves(t)
  <2>1. t \in Tasks /\ \A u \in Tasks : u # t => pc'[u] = pc[u]
    BY <1>t, <1>22 DEF Debounce, Goto
  <2>2. Outside(t)
    BY <1>t, <1>d, <1>22 DEF Debounce, Goto, Outside, InitialStates
  <2>3. PcInv(t)'
    BY <1>t, <1>d, <1>22 DEF Debounce, Goto, PcInv, InitialStates
  <2> QED BY <2>1, <2>2, <2>3 DEF TaskMoves
<1>23. ASSUME NEW t \in Tasks, Snapshot(t) PROVE t \in Tasks /\ TaskMoves(t)
  <2>1. t \in Tasks /\ \A u \in Tasks : u # t => pc'[u] = pc[u]
    BY <1>t, <1>23 DEF Snapshot, Goto
  <2>2. Outside(t)
    BY <1>t, <1>d, <1>23 DEF Snapshot, Goto, Outside, InitialStates
  <2>3. PcInv(t)'
    BY <1>t, <1>d, <1>23 DEF Snapshot, Goto, PcInv, InitialStates
  <2> QED BY <2>1, <2>2, <2>3 DEF TaskMoves
<1>24. ASSUME NEW t \in Tasks, ReevalCompletes(t) PROVE t \in Tasks /\ TaskMoves(t)
  <2>1. t \in Tasks /\ \A u \in Tasks : u # t => pc'[u] = pc[u]
    BY <1>t, <1>24 DEF ReevalCompletes, Goto
  <2>2. Outside(t)
    <3>1. warm'.completed = TRUE
      BY <1>24 DEF ReevalCompletes, StoreGraph
    <3> QED BY <1>t, <1>d, <1>24, <3>1 DEF ReevalCompletes, Goto, Outside, InitialStates
  <2>3. PcInv(t)'
    BY <1>t, <1>d, <1>24 DEF ReevalCompletes, Goto, PcInv, InitialStates
  <2> QED BY <2>1, <2>2, <2>3 DEF TaskMoves
<1>25. ASSUME NEW t \in Tasks, ReevalCancelled(t) PROVE t \in Tasks /\ TaskMoves(t)
  <2>1. t \in Tasks /\ \A u \in Tasks : u # t => pc'[u] = pc[u]
    BY <1>t, <1>25 DEF ReevalCancelled, Goto
  <2>2. Outside(t)
    BY <1>t, <1>d, <1>25 DEF ReevalCancelled, Goto, Outside, InitialStates
  <2>3. PcInv(t)'
    BY <1>t, <1>d, <1>25 DEF ReevalCancelled, Goto, PcInv, InitialStates
  <2> QED BY <2>1, <2>2, <2>3 DEF TaskMoves
<1>26. ASSUME NEW t \in Tasks, ReevalFails(t) PROVE t \in Tasks /\ TaskMoves(t)
  <2>1. t \in Tasks /\ \A u \in Tasks : u # t => pc'[u] = pc[u]
    BY <1>t, <1>26 DEF ReevalFails, Goto
  <2>2. Outside(t)
    BY <1>t, <1>d, <1>26 DEF ReevalFails, Goto, Outside, InitialStates
  <2>3. PcInv(t)'
    BY <1>t, <1>d, <1>26 DEF ReevalFails, Goto, PcInv, InitialStates
  <2> QED BY <2>1, <2>2, <2>3 DEF TaskMoves
<1>27. ASSUME NEW t \in Tasks, Deliver(t) PROVE t \in Tasks /\ TaskMoves(t)
  <2>1. t \in Tasks /\ \A u \in Tasks : u # t => pc'[u] = pc[u]
    BY <1>t, <1>27 DEF Deliver, Goto
  <2>2. Outside(t)
    BY <1>t, <1>d, <1>27 DEF Deliver, Goto, Outside, InitialStates
  <2>3. PcInv(t)'
    BY <1>t, <1>d, <1>27 DEF Deliver, Goto, PcInv, InitialStates
  <2> QED BY <2>1, <2>2, <2>3 DEF TaskMoves
<1> QED
  BY <1>1, <1>2, <1>3, <1>4, <1>5, <1>6, <1>7, <1>8, <1>9, <1>10, <1>11, <1>12, <1>13, <1>14, <1>15, <1>16, <1>17, <1>18, <1>19, <1>20, <1>21, <1>22, <1>23, <1>24, <1>25, <1>26, <1>27
  DEF Next, TaskStep, Consume, DropReceiver, WatcherNotifies, Cancel, Edit, TasksStay, channelVars

LEMMA PlacesKept ==
  ASSUME SessionInv, Next
  PROVE  (\A t \in Tasks : PcInv(t)') /\ StartInv'
<1>t. (\A u \in Tasks : PcInv(u)) /\ StartInv
      /\ Streams \subseteq Tasks /\ Watches \subseteq Tasks /\ Tasks = Streams \union Watches \union Diffs
  BY DEF SessionInv, Tasks
<1>c. warm.completed \in BOOLEAN
  BY DEF SessionInv, Typed, TypeOK
<1>1. CASE TasksStay
  BY <1>t, <1>1 DEF TasksStay, PcInv, StartInv
<1>2. ASSUME NEW t \in Tasks, TaskMoves(t)
      PROVE  (\A u \in Tasks : PcInv(u)') /\ StartInv'
  <2>f. \A u \in Tasks : u # t => pc'[u] = pc[u]
    BY <1>2 DEF TaskMoves
  <2>1. \A u \in Tasks : PcInv(u)'
    BY <1>t, <1>2, <2>f DEF TaskMoves, PcInv
  <2>2. StartInv'
    <3>1. CASE Starts(t)
      <4>1. \A u \in Tasks : pc[u] \notin InitialStates
        BY <1>t, <3>1 DEF StartInv, Starts, PcInv, InitialStates
      <4>2. warm'.completed = FALSE
        BY <1>t, <1>c, <3>1 DEF StartInv, Starts
      <4> QED BY <2>f, <3>1, <4>1, <4>2 DEF StartInv, Starts
    <3>2. CASE Outside(t)
      <4>1. \A u \in Tasks : pc'[u] \in InitialStates => pc'[u] = pc[u] /\ u # t
        BY <2>f, <3>2 DEF Outside
      <4>2. ASSUME initial' = "Idle"
            PROVE  ~warm'.completed /\ \A u \in Streams \union Watches : pc'[u] = "idle"
        <5>1. initial = "Idle" /\ warm'.completed = warm.completed
          BY <3>2, <4>2 DEF Outside
        <5>2. ~warm.completed /\ \A u \in Streams \union Watches : pc[u] = "idle"
          BY <1>t, <5>1 DEF StartInv
        <5>3. t \in Diffs
          BY <1>t, <3>2, <4>2, <5>2 DEF Outside
        <5>4. t \notin Streams \union Watches
          BY <5>3, SessionAssumption
        <5> QED BY <1>t, <2>f, <5>1, <5>2, <5>4
      <4>3. warm'.completed => \A u \in Tasks : pc'[u] \notin InitialStates \ {"completed"}
        BY <1>t, <3>2, <4>1 DEF StartInv, Outside
      <4> QED BY <1>t, <4>1, <4>2, <4>3 DEF StartInv
    <3>3. CASE Inside(t)
      <4>1. initial' # "Idle"
        BY <1>t, <3>3 DEF StartInv, Inside, PcInv, InitialStates
      <4> QED BY <1>t, <2>f, <3>3, <4>1 DEF StartInv, Inside
    <3>4. CASE Completes(t)
      <4>1. initial' # "Idle"
        BY <1>t, <3>4 DEF StartInv, Completes, PcInv, InitialStates
      <4>2. \A u \in Tasks : u # t => pc[u] \notin InitialStates
        BY <1>t, <3>4 DEF StartInv, Completes, InitialStates
      <4> QED BY <2>f, <3>4, <4>1, <4>2 DEF StartInv, Completes
    <3>5. CASE Leaves(t)
      <4>1. \A u \in Tasks : pc'[u] \notin InitialStates
        BY <1>t, <2>f, <3>5 DEF StartInv, Leaves
      <4> QED BY <3>5, <4>1 DEF StartInv, Leaves
    <3> QED BY <1>2, <3>1, <3>2, <3>3, <3>4, <3>5 DEF TaskMoves
  <2> QED BY <2>1, <2>2
<1> QED BY <1>1, <1>2, TasksMove


------------------------------------------------------------------------------
(* Types. *)

LEMMA ItemsTyped ==
  /\ Empty \in Graphs /\ Versions \subseteq Graphs /\ 1 \in Versions
  /\ Err \in Items /\ Event \in Items /\ Nothing \in Items
  /\ \A a, b \in Graphs : Diff(a, b) \in Items
BY SessionAssumption DEF Graphs, Empty, Versions, Items, Item, Err, Event, Nothing, Diff

LEMMA PutTyped ==
  ASSUME Typed, NEW t \in Tasks, NEW i \in Items, Put(t, i)
  PROVE  /\ out' \in [Tasks -> Seq(Items)] /\ \A u \in Tasks : Len(out'[u]) <= Capacity
         /\ last' \in [Tasks -> Items] /\ open' = open
         /\ \A u \in Tasks : u # t => last'[u] = last[u]
         /\ last'[t] = IF open[t] THEN i ELSE last[t]
<1>t. /\ out \in [Tasks -> Seq(Items)] /\ last \in [Tasks -> Items] /\ open \in [Tasks -> BOOLEAN]
      /\ \A u \in Tasks : Len(out[u]) <= Capacity
      /\ Capacity \in Nat
  BY SessionAssumption DEF Typed, TypeOK
<1>1. CASE ~open[t]
  BY <1>t, <1>1 DEF Put
<1>2. CASE open[t]
  <2>1. /\ out' = [out EXCEPT ![t] = Append(out[t], i)] /\ last' = [last EXCEPT ![t] = i]
        /\ open' = open /\ Len(out[t]) < Capacity
    BY <1>2 DEF Put, MaySend
  <2>2. out[t] \in Seq(Items)
    BY <1>t
  <2>3. Append(out[t], i) \in Seq(Items) /\ Len(Append(out[t], i)) <= Capacity
    BY <1>t, <2>1, <2>2
  <2>4. out' \in [Tasks -> Seq(Items)] /\ \A u \in Tasks : Len(out'[u]) <= Capacity
    BY <1>t, <2>1, <2>3
  <2> QED BY <1>t, <1>2, <2>1, <2>4
<1> QED BY <1>1, <1>2

LEMMA StoreTyped ==
  ASSUME Typed, NEW t \in Tasks, NEW v \in began[t]..inputs, StoreGraph(t, v)
  PROVE  /\ v \in Versions /\ replaced' \in [Tasks -> Graphs]
         /\ warm' = [graph |-> v, completed |-> TRUE, error |-> "none"]
         /\ warm' \in [graph : Graphs, completed : BOOLEAN,
                       error : {"none", "failed", "cancelled", "no runtime"}]
         /\ replaced'[t] = warm.graph /\ \A u \in Tasks : u # t => replaced'[u] = replaced[u]
<1>t. /\ replaced \in [Tasks -> Graphs] /\ warm.graph \in Graphs
      /\ began[t] \in 1..MaxVersion /\ inputs \in 1..MaxVersion /\ MaxVersion \in Nat
  BY SessionAssumption DEF Typed, TypeOK, Versions
<1>1. v \in Versions /\ v \in Graphs
  BY <1>t, ItemsTyped DEF Versions
<1> QED BY <1>t, <1>1 DEF StoreGraph

LEMMA TypesKept ==
  ASSUME SessionInv, Next
  PROVE  Typed'
<1>t. Typed /\ (\A u \in Tasks : PcInv(u)) /\ Tasks = Streams \union Watches \union Diffs
  BY DEF SessionInv, Tasks
<1>T. /\ inputs \in Versions /\ pc \in [Tasks -> Pcs] /\ waiters \subseteq Watches
      /\ warm \in [graph : Graphs, completed : BOOLEAN,
                    error : {"none", "failed", "cancelled", "no runtime"}]
      /\ base \in [Tasks -> Graphs] /\ began \in [Tasks -> Versions] /\ item \in [Tasks -> Items]
      /\ error \in [Tasks -> {"none", "failed", "cancelled"}]
      /\ fs \in [Watches -> Seq({"change", "error"})] /\ initial \in {"Idle", "Running", "Finished"}
  BY <1>t DEF Typed, TypeOK
<1>P. /\ "eval" \in Pcs /\ "done" \in Pcs /\ "reeval" \in Pcs /\ "record" \in Pcs /\ "read" \in Pcs
      /\ "setup" \in Pcs /\ "report" \in Pcs /\ "sleep" \in Pcs /\ "debounce" \in Pcs /\ "deliver" \in Pcs
  BY DEF Pcs, InitialStates, LoopStates
<1>m. MaxVersion \in Nat /\ Capacity \in Nat
  BY SessionAssumption
<1>p. \A u \in Tasks : pc[u] \in {"register", "recv", "debounce"} => u \in Watches
  BY <1>t DEF PcInv, InitialStates
<1>1. ASSUME NEW t \in Streams, CallStream(t) PROVE Typed'
  <2>1. /\ out' \in [Tasks -> Seq(Items)] /\ \A u \in Tasks : Len(out'[u]) <= Capacity
        /\ last' \in [Tasks -> Items] /\ open' = open
    <3>1. Err \in Items /\ t \in Tasks
      BY <1>t, ItemsTyped DEF Typed, TypeOK
    <3> QED BY <1>t, <1>1, <3>1, PutTyped DEF CallStream, channelVars, Typed, TypeOK
  <2>2. began' \in [Tasks -> Versions] /\ initial' \in {"Idle", "Running", "Finished"} /\ pc' \in [Tasks -> Pcs]
    <3>1. t \in Tasks
      BY <1>t
    <3>2. \/ /\ initial' = "Running" /\ pc' = [pc EXCEPT ![t] = "eval"]
             /\ began' = [began EXCEPT ![t] = inputs]
          \/ pc' = [pc EXCEPT ![t] = "done"] /\ UNCHANGED <<initial, began>>
      BY <1>1 DEF CallStream, Goto
    <3>3. CASE pc' = [pc EXCEPT ![t] = "done"] /\ UNCHANGED <<initial, began>>
      BY <1>T, <1>P, <3>1, <3>3
    <3>4. CASE /\ initial' = "Running" /\ pc' = [pc EXCEPT ![t] = "eval"]
               /\ began' = [began EXCEPT ![t] = inputs]
      BY <1>T, <1>P, <3>1, <3>4
    <3> QED BY <3>2, <3>3, <3>4
  <2> QED BY <1>t, <1>1, <2>1, <2>2 DEF CallStream, Typed, TypeOK
<1>2. ASSUME NEW t \in Watches, CallWatch(t) PROVE Typed'
  BY <1>t, <1>p, <1>2, ItemsTyped DEF CallWatch, Goto, channelVars, Pcs, InitialStates, LoopStates, Typed, TypeOK
<1>3. ASSUME NEW t \in Diffs, CallDiff(t) PROVE Typed'
  <2>1. began' \in [Tasks -> Versions] /\ base' \in [Tasks -> Graphs] /\ pc' \in [Tasks -> Pcs]
    <3>1. t \in Tasks /\ warm.graph \in Graphs
      BY <1>t, <1>T
    <3>2. \/ /\ base' = [base EXCEPT ![t] = warm.graph] /\ began' = [began EXCEPT ![t] = inputs]
             /\ pc' = [pc EXCEPT ![t] = "reeval"]
          \/ pc' = [pc EXCEPT ![t] = "done"] /\ UNCHANGED <<base, began>>
      BY <1>3 DEF CallDiff, Goto
    <3>3. CASE pc' = [pc EXCEPT ![t] = "done"] /\ UNCHANGED <<base, began>>
      BY <1>T, <1>P, <3>1, <3>3
    <3>4. CASE /\ base' = [base EXCEPT ![t] = warm.graph] /\ began' = [began EXCEPT ![t] = inputs]
               /\ pc' = [pc EXCEPT ![t] = "reeval"]
      BY <1>T, <1>P, <3>1, <3>4
    <3> QED BY <3>2, <3>3, <3>4
  <2> QED BY <1>t, <1>3, <2>1 DEF CallDiff, channelVars, Typed, TypeOK
<1>4. ASSUME NEW t \in Tasks, SpawnFails(t) PROVE Typed'
  <2>1. /\ out' \in [Tasks -> Seq(Items)] /\ \A u \in Tasks : Len(out'[u]) <= Capacity
        /\ last' \in [Tasks -> Items] /\ open' = open
    <3>1. Err \in Items /\ t \in Tasks
      BY <1>t, ItemsTyped DEF Typed, TypeOK
    <3> QED BY <1>t, <1>4, <3>1, PutTyped DEF SpawnFails, channelVars, Typed, TypeOK
  <2> QED BY <1>t, <1>4, <2>1, ItemsTyped DEF SpawnFails, Goto, notify_waiters, Pcs, InitialStates, LoopStates, Typed, TypeOK
<1>5. ASSUME NEW t \in Tasks, EmitEvent(t) PROVE Typed'
  BY <1>t, <1>p, <1>5, ItemsTyped DEF EmitEvent, Goto, channelVars, Pcs, InitialStates, LoopStates, Typed, TypeOK
<1>6. ASSUME NEW t \in Tasks, SendEvent(t) PROVE Typed'
  <2>1. /\ out' \in [Tasks -> Seq(Items)] /\ \A u \in Tasks : Len(out'[u]) <= Capacity
        /\ last' \in [Tasks -> Items] /\ open' = open
    <3>1. Event \in Items /\ t \in Tasks
      BY <1>t, ItemsTyped DEF Typed, TypeOK
    <3> QED BY <1>t, <1>6, <3>1, PutTyped DEF SendEvent, channelVars, Typed, TypeOK
  <2>2. /\ warm' \in [graph : Graphs, completed : BOOLEAN,
                      error : {"none", "failed", "cancelled", "no runtime"}]
        /\ waiters' \subseteq Watches
    BY <1>T, <1>6 DEF SendEvent, notify_waiters
  <2>3. pc' \in [Tasks -> Pcs] /\ error' \in [Tasks -> {"none", "failed", "cancelled"}]
    <3>1. \/ pc' = [pc EXCEPT ![t] = "eval"] /\ error' = error
          \/ pc' = [pc EXCEPT ![t] = "record"] /\ error' = [error EXCEPT ![t] = "failed"]
      BY <1>6 DEF SendEvent, Goto
    <3>3. CASE pc' = [pc EXCEPT ![t] = "eval"] /\ error' = error
      BY <1>T, <1>P, <3>3
    <3>4. CASE pc' = [pc EXCEPT ![t] = "record"] /\ error' = [error EXCEPT ![t] = "failed"]
      BY <1>T, <1>P, <3>4
    <3> QED BY <3>1, <3>3, <3>4
  <2> QED BY <1>t, <1>6, <2>1, <2>2, <2>3 DEF SendEvent, Typed, TypeOK
<1>7. ASSUME NEW t \in Tasks, EvalCompletes(t) PROVE Typed'
  <2>1. PICK v \in began[t]..inputs : StoreGraph(t, v)
    BY <1>7 DEF EvalCompletes
  <2>2. /\ v \in Versions /\ replaced' \in [Tasks -> Graphs]
        /\ warm' \in [graph : Graphs, completed : BOOLEAN,
                      error : {"none", "failed", "cancelled", "no runtime"}]
    BY <1>t, <2>1, StoreTyped
  <2>3. item' \in [Tasks -> Items]
    BY <1>t, <1>7, <2>1, <2>2, ItemsTyped DEF EvalCompletes, Typed, TypeOK
  <2> QED BY <1>t, <1>7, <2>2, <2>3, ItemsTyped
    DEF EvalCompletes, Goto, Drop, notify_waiters, channelVars, Pcs, InitialStates, LoopStates, Typed, TypeOK
<1>8. ASSUME NEW t \in Tasks, EvalCancelled(t) PROVE Typed'
  BY <1>t, <1>p, <1>8, ItemsTyped DEF EvalCancelled, Goto, Drop, notify_waiters, channelVars, Pcs, InitialStates, LoopStates, Typed, TypeOK
<1>9. ASSUME NEW t \in Tasks, EvalFails(t) PROVE Typed'
  BY <1>t, <1>p, <1>9, ItemsTyped DEF EvalFails, Goto, Drop, notify_waiters, channelVars, Pcs, InitialStates, LoopStates, Typed, TypeOK
<1>10. ASSUME NEW t \in Tasks, RecordError(t) PROVE Typed'
  BY <1>t, <1>p, <1>10, ItemsTyped DEF RecordError, Goto, notify_waiters, channelVars, Pcs, InitialStates, LoopStates, Typed, TypeOK
<1>11. ASSUME NEW t \in Tasks, FinishFailed(t) PROVE Typed'
  BY <1>t, <1>p, <1>11, ItemsTyped DEF FinishFailed, Goto, channelVars, Pcs, InitialStates, LoopStates, Typed, TypeOK
<1>12. ASSUME NEW t \in Tasks, FinishCompleted(t) PROVE Typed'
  BY <1>t, <1>p, <1>12, ItemsTyped DEF FinishCompleted, Goto, channelVars, Pcs, InitialStates, LoopStates, Typed, TypeOK
<1>13. ASSUME NEW t \in Tasks, ReportError(t) PROVE Typed'
  <2>1. /\ out' \in [Tasks -> Seq(Items)] /\ \A u \in Tasks : Len(out'[u]) <= Capacity
        /\ last' \in [Tasks -> Items] /\ open' = open
    <3>1. Err \in Items /\ t \in Tasks
      BY <1>t, ItemsTyped DEF Typed, TypeOK
    <3> QED BY <1>t, <1>13, <3>1, PutTyped DEF ReportError, channelVars, Typed, TypeOK
  <2> QED BY <1>t, <1>13, <2>1, ItemsTyped DEF ReportError, Goto, Pcs, InitialStates, LoopStates, Typed, TypeOK
<1>14. ASSUME NEW t \in Tasks, WaitCheck(t) PROVE Typed'
  BY <1>t, <1>p, <1>14, ItemsTyped DEF WaitCheck, Goto, channelVars, Pcs, InitialStates, LoopStates, Typed, TypeOK
<1>15. ASSUME NEW t \in Tasks, WaitRegister(t) PROVE Typed'
  <2>1. waiters' \subseteq Watches
    <3>1. t \in Watches /\ waiters' = waiters \union {t}
      BY <1>p, <1>15 DEF WaitRegister
    <3> QED BY <1>T, <3>1
  <2>2. pc' \in [Tasks -> Pcs]
    BY <1>T, <1>P, <1>15 DEF WaitRegister, Goto
  <2> QED BY <1>t, <1>15, <2>1, <2>2 DEF WaitRegister, channelVars, Typed, TypeOK
<1>16. ASSUME NEW t \in Tasks, WaitRead(t) PROVE Typed'
  <2>1. waiters' \subseteq Watches
    BY <1>T, <1>p, <1>16 DEF WaitRead
  <2>2. pc' \in [Tasks -> Pcs]
    BY <1>T, <1>P, <1>16 DEF WaitRead, Goto
  <2> QED BY <1>t, <1>16, <2>1, <2>2 DEF WaitRead, channelVars, Typed, TypeOK
<1>17. ASSUME NEW t \in Tasks, Wake(t) PROVE Typed'
  BY <1>t, <1>p, <1>17, ItemsTyped DEF Wake, Goto, channelVars, Pcs, InitialStates, LoopStates, Typed, TypeOK
<1>18. ASSUME NEW t \in Tasks, Setup(t) PROVE Typed'
  BY <1>t, <1>p, <1>18, ItemsTyped DEF Setup, Goto, channelVars, Pcs, InitialStates, LoopStates, Typed, TypeOK
<1>19. ASSUME NEW t \in Tasks, LoopCheck(t) PROVE Typed'
  BY <1>t, <1>p, <1>19, ItemsTyped DEF LoopCheck, Goto, channelVars, Pcs, InitialStates, LoopStates, Typed, TypeOK
<1>20. ASSUME NEW t \in Tasks, RecvTimeout(t) PROVE Typed'
  BY <1>t, <1>p, <1>20, ItemsTyped DEF RecvTimeout, Goto, channelVars, Pcs, InitialStates, LoopStates, Typed, TypeOK
<1>21. ASSUME NEW t \in Tasks, LoopEvent(t) PROVE Typed'
  <2>1. fs[t] \in Seq({"change", "error"}) /\ fs[t] # <<>>
    BY <1>T, <1>p, <1>21 DEF LoopEvent
  <2>2. Tail(fs[t]) \in Seq({"change", "error"})
    BY <2>1
  <2>3. fs' \in [Watches -> Seq({"change", "error"})]
    BY <1>T, <1>21, <2>2 DEF LoopEvent
  <2>4. pc' \in [Tasks -> Pcs] /\ item' \in [Tasks -> Items]
    <3>1. \/ pc' = [pc EXCEPT ![t] = "debounce"] /\ item' = item
          \/ pc' = [pc EXCEPT ![t] = "deliver"] /\ item' = [item EXCEPT ![t] = Err]
      BY <1>21 DEF LoopEvent, Goto
    <3>3. CASE pc' = [pc EXCEPT ![t] = "debounce"] /\ item' = item
      BY <1>T, <1>P, ItemsTyped, <3>3
    <3>4. CASE pc' = [pc EXCEPT ![t] = "deliver"] /\ item' = [item EXCEPT ![t] = Err]
      BY <1>T, <1>P, ItemsTyped, <3>4
    <3> QED BY <3>1, <3>3, <3>4
  <2> QED BY <1>t, <1>21, <2>3, <2>4 DEF LoopEvent, channelVars, Typed, TypeOK
<1>22. ASSUME NEW t \in Tasks, Debounce(t) PROVE Typed'
  <2>1. fs' \in [Watches -> Seq({"change", "error"})] /\ pc' \in [Tasks -> Pcs]
    <3>1. <<>> \in Seq({"change", "error"})
      OBVIOUS
    <3>2. fs' = [fs EXCEPT ![t] = <<>>] /\ pc' = [pc EXCEPT ![t] = "snapshot"] /\ "snapshot" \in Pcs
      BY <1>22 DEF Debounce, Goto, Pcs, LoopStates
    <3> QED BY <1>T, <3>1, <3>2
  <2> QED BY <1>t, <1>22, <2>1 DEF Debounce, channelVars, Typed, TypeOK
<1>23. ASSUME NEW t \in Tasks, Snapshot(t) PROVE Typed'
  BY <1>t, <1>p, <1>23, ItemsTyped DEF Snapshot, Goto, channelVars, Pcs, InitialStates, LoopStates, Typed, TypeOK
<1>24. ASSUME NEW t \in Tasks, ReevalCompletes(t) PROVE Typed'
  <2>1. PICK v \in began[t]..inputs : StoreGraph(t, v) /\ item' = [item EXCEPT ![t] = Diff(base[t], v)]
    BY <1>24 DEF ReevalCompletes
  <2>2. /\ v \in Versions /\ replaced' \in [Tasks -> Graphs]
        /\ warm' \in [graph : Graphs, completed : BOOLEAN,
                      error : {"none", "failed", "cancelled", "no runtime"}]
    BY <1>t, <2>1, StoreTyped
  <2>3. item' \in [Tasks -> Items]
    BY <1>t, <1>24, <2>1, <2>2, ItemsTyped DEF ReevalCompletes, Typed, TypeOK
  <2> QED BY <1>t, <1>24, <2>2, <2>3, ItemsTyped
    DEF ReevalCompletes, Goto, Drop, notify_waiters, channelVars, Pcs, InitialStates, LoopStates, Typed, TypeOK
<1>25. ASSUME NEW t \in Tasks, ReevalCancelled(t) PROVE Typed'
  BY <1>t, <1>p, <1>25, ItemsTyped DEF ReevalCancelled, Goto, Drop, channelVars, Pcs, InitialStates, LoopStates, Typed, TypeOK
<1>26. ASSUME NEW t \in Tasks, ReevalFails(t) PROVE Typed'
  BY <1>t, <1>p, <1>26, ItemsTyped DEF ReevalFails, Goto, Drop, channelVars, Pcs, InitialStates, LoopStates, Typed, TypeOK
<1>27. ASSUME NEW t \in Tasks, Deliver(t) PROVE Typed'
  <2>1. /\ out' \in [Tasks -> Seq(Items)] /\ \A u \in Tasks : Len(out'[u]) <= Capacity
        /\ last' \in [Tasks -> Items] /\ open' = open
    <3>1. item[t] \in Items /\ t \in Tasks
      BY <1>t, ItemsTyped DEF Typed, TypeOK
    <3> QED BY <1>t, <1>27, <3>1, PutTyped DEF Deliver, channelVars, Typed, TypeOK
  <2> QED BY <1>t, <1>27, <2>1, ItemsTyped DEF Deliver, Goto, Pcs, InitialStates, LoopStates, Typed, TypeOK
<1>28. ASSUME NEW t \in Tasks, Consume(t) PROVE Typed'
  <2>1. out[t] \in Seq(Items) /\ out[t] # <<>> /\ Len(out[t]) <= Capacity
    BY <1>t, <1>28 DEF Consume, Typed, TypeOK
  <2>2. Tail(out[t]) \in Seq(Items) /\ Len(Tail(out[t])) <= Capacity
    BY <1>m, <2>1
  <2>3. out' \in [Tasks -> Seq(Items)] /\ \A u \in Tasks : Len(out'[u]) <= Capacity
    BY <1>t, <1>28, <2>2 DEF Consume, Typed, TypeOK
  <2> QED BY <1>t, <1>28, <2>3 DEF Consume, Typed, TypeOK
<1>29. ASSUME NEW t \in Tasks, DropReceiver(t) PROVE Typed'
  <2>1. <<>> \in Seq(Items) /\ Len(<<>>) <= Capacity
    BY <1>m
  <2>2. out' \in [Tasks -> Seq(Items)] /\ open' \in [Tasks -> BOOLEAN]
    BY <1>t, <1>29, <2>1 DEF DropReceiver, Typed
  <2>3. \A u \in Tasks : Len(out'[u]) <= Capacity
    BY <1>t, <1>29, <2>1 DEF DropReceiver, Typed, TypeOK
  <2> QED BY <1>t, <1>29, <2>2, <2>3 DEF DropReceiver, Typed, TypeOK
<1>30. ASSUME NEW t \in Watches, WatcherNotifies(t) PROVE Typed'
  <2>1. PICK what \in {"error", "change"} : fs' = [fs EXCEPT ![t] = <<what>>]
    BY <1>30 DEF WatcherNotifies
  <2>2. <<what>> \in Seq({"change", "error"})
    OBVIOUS
  <2>3. fs' \in [Watches -> Seq({"change", "error"})]
    BY <1>t, <2>1, <2>2 DEF Typed
  <2> QED BY <1>t, <1>30, <2>3 DEF WatcherNotifies, channelVars, Typed, TypeOK
<1>31. CASE Cancel \/ Edit
  <2>1. CASE Cancel
    BY <1>t, <2>1 DEF Cancel, notify_waiters, channelVars, Typed, TypeOK
  <2>2. CASE Edit
    <3>1. inputs' \in Versions
      <4>1. inputs \in 1..MaxVersion /\ inputs < MaxVersion /\ inputs' = inputs + 1
        BY <1>T, <2>2 DEF Edit, Versions
      <4> QED BY <1>m, <4>1 DEF Versions
    <3>2. \A t \in Watches : Append(fs[t], "change") \in Seq({"change", "error"})
      BY <1>t DEF Typed
    <3>3. fs' \in [Watches -> Seq({"change", "error"})]
      BY <1>t, <2>2, <3>2 DEF Edit, Typed
    <3> QED BY <1>t, <2>2, <3>1, <3>3 DEF Edit, channelVars, Typed, TypeOK
  <2> QED BY <1>31, <2>1, <2>2
<1> QED BY <1>1, <1>2, <1>3, <1>4, <1>5, <1>6, <1>7, <1>8, <1>9, <1>10, <1>11, <1>12, <1>13, <1>14, <1>15, <1>16, <1>17, <1>18, <1>19, <1>20, <1>21, <1>22, <1>23, <1>24, <1>25, <1>26, <1>27, <1>28, <1>29, <1>30, <1>31 DEF Next, TaskStep

------------------------------------------------------------------------------
(* The warm graph and the diffs. *)

(* A step of a task leaves the other tasks alone. *)
Frame(t) ==
    \A u \in Tasks : u # t =>
        /\ pc'[u] = pc[u] /\ base'[u] = base[u] /\ item'[u] = item[u]
        /\ last'[u] = last[u] /\ replaced'[u] = replaced[u]

(* The initial evaluation or a re-evaluation stores its graph. *)
Stores(t) ==
    /\ warm'.graph \in Versions /\ warm'.completed = TRUE
    /\ replaced'[t] = warm.graph /\ last'[t] = last[t]

Evaluates(t) ==
    /\ pc[t] = "eval" /\ pc'[t] = "completed"
    /\ Stores(t) /\ item'[t] = item[t]

Reevaluates(t) ==
    /\ pc[t] = "reeval" /\ pc'[t] = IF t \in Watches THEN "deliver" ELSE "done"
    /\ Stores(t) /\ item'[t] = Diff(base[t], warm'.graph)

(* A re-evaluation starts with a clone of the warm graph. *)
Clones(t) ==
    /\ pc[t] \in {"idle", "snapshot"} /\ pc'[t] = "reeval" /\ (pc[t] = "idle" => t \in Diffs)
    /\ warm.completed /\ base'[t] = warm.graph /\ warm' = warm
    /\ item'[t] = item[t] /\ last'[t] = last[t] /\ replaced'[t] = replaced[t]

(* Any other step leaves the graph alone. *)
Proceeds(t) ==
    /\ warm'.graph = warm.graph /\ warm'.completed = warm.completed /\ replaced'[t] = replaced[t]
    /\ pc'[t] \notin {"reeval", "completed"}
    /\ pc'[t] \in LoopStates \union {"setup"} => pc[t] \in LoopStates \union {"setup"} \/ warm.completed
    /\ pc'[t] \in LoopStates => pc[t] \in LoopStates \union {"setup"}
    /\ pc'[t] \notin LoopStates \union {"done"} => pc[t] \notin LoopStates \union {"done"}
    /\ item'[t] = item[t] \/ item'[t] = Err \/ item'[t] = Nothing
    /\ pc'[t] = "deliver" => item'[t] = Err
    /\ \/ last'[t] = last[t] /\ (pc[t] = "deliver" => pc'[t] = "done")
       \/ last'[t] = Err \/ last'[t] = Event
       \/ pc[t] = "deliver" /\ pc'[t] = "loop" /\ last'[t] = item[t]

Effect(t) == Frame(t) /\ (Evaluates(t) \/ Reevaluates(t) \/ Clones(t) \/ Proceeds(t))

LEMMA TasksEffect ==
  ASSUME SessionInv, Next
  PROVE  \/ \E t \in Tasks : Effect(t)
         \/ TasksStay
<1>t. /\ Typed /\ pc \in [Tasks -> Pcs] /\ base \in [Tasks -> Graphs] /\ item \in [Tasks -> Items]
      /\ last \in [Tasks -> Items] /\ replaced \in [Tasks -> Graphs]
      /\ Tasks = Streams \union Watches \union Diffs
  BY DEF SessionInv, Typed, TypeOK, Tasks
<1>w. warm \in [graph : Graphs, completed : BOOLEAN,
                error : {"none", "failed", "cancelled", "no runtime"}]
  BY <1>t DEF Typed, TypeOK
<1>c. \A u \in Tasks : pc[u] = "snapshot" => warm.completed
  BY DEF SessionInv, WarmInv, LoopStates
<1>1. ASSUME NEW t \in Streams, CallStream(t) PROVE t \in Tasks /\ Effect(t)
  <2>1. /\ \A u \in Tasks : u # t => last'[u] = last[u]
        /\ last'[t] = last[t] \/ last'[t] = Err
    <3>1. Err \in Items /\ t \in Tasks
      BY <1>t, ItemsTyped
    <3> QED BY <1>t, <1>1, <3>1, PutTyped DEF CallStream, channelVars
  <2>2. t \in Tasks /\ Frame(t)
    BY <1>t, <1>1, <2>1 DEF CallStream, Goto, channelVars, Frame
  <2>3. Proceeds(t)
    BY <1>t, <1>w, <1>1, <2>1, <2>2 DEF CallStream, Goto, channelVars, Proceeds, LoopStates
  <2> QED BY <2>2, <2>3 DEF Effect
<1>2. ASSUME NEW t \in Watches, CallWatch(t) PROVE t \in Tasks /\ Effect(t)
  <2>1. t \in Tasks /\ Frame(t)
    BY <1>t, <1>2 DEF CallWatch, Goto, channelVars, Frame
  <2>2. Proceeds(t)
    BY <1>t, <1>w, <1>2, <2>1 DEF CallWatch, Goto, channelVars, Proceeds, LoopStates
  <2> QED BY <2>1, <2>2 DEF Effect
<1>3. ASSUME NEW t \in Diffs, CallDiff(t) PROVE t \in Tasks /\ Effect(t)
  <2>1. t \in Tasks /\ Frame(t)
    BY <1>t, <1>3 DEF CallDiff, Goto, channelVars, Frame
  <2>2. UNCHANGED <<warm, item, last, replaced>> /\ pc[t] = "idle"
    BY <1>3 DEF CallDiff, channelVars
  <2>3. CASE warm.completed
    <3>1. pc'[t] = "reeval" /\ base'[t] = warm.graph
      BY <1>t, <1>3, <2>3 DEF CallDiff, Goto
    <3> QED BY <1>3, <2>1, <2>2, <2>3, <3>1 DEF Clones, Effect
  <2>4. CASE ~warm.completed
    <3>1. pc'[t] = "done"
      BY <1>t, <1>3, <2>4 DEF CallDiff, Goto
    <3> QED BY <2>1, <2>2, <3>1 DEF Proceeds, Effect, LoopStates
  <2> QED BY <2>3, <2>4
<1>4. ASSUME NEW t \in Tasks, SpawnFails(t) PROVE t \in Tasks /\ Effect(t)
  <2>1. /\ \A u \in Tasks : u # t => last'[u] = last[u]
        /\ last'[t] = last[t] \/ last'[t] = Err
    <3>1. Err \in Items /\ t \in Tasks
      BY <1>t, ItemsTyped
    <3> QED BY <1>t, <1>4, <3>1, PutTyped DEF SpawnFails, channelVars
  <2>2. t \in Tasks /\ Frame(t)
    BY <1>t, <1>4, <2>1 DEF SpawnFails, Goto, Frame
  <2>3. Proceeds(t)
    BY <1>t, <1>w, <1>4, <2>1, <2>2 DEF SpawnFails, Goto, Proceeds, LoopStates
  <2> QED BY <2>2, <2>3 DEF Effect
<1>5. ASSUME NEW t \in Tasks, EmitEvent(t) PROVE t \in Tasks /\ Effect(t)
  <2>1. t \in Tasks /\ Frame(t)
    BY <1>t, <1>5 DEF EmitEvent, Goto, channelVars, Frame
  <2>2. Proceeds(t)
    BY <1>t, <1>w, <1>5, <2>1 DEF EmitEvent, Goto, channelVars, Proceeds, LoopStates
  <2> QED BY <2>1, <2>2 DEF Effect
<1>6. ASSUME NEW t \in Tasks, SendEvent(t) PROVE t \in Tasks /\ Effect(t)
  <2>1. /\ \A u \in Tasks : u # t => last'[u] = last[u]
        /\ last'[t] = last[t] \/ last'[t] = Event
    <3>1. Event \in Items /\ t \in Tasks
      BY <1>t, ItemsTyped
    <3> QED BY <1>t, <1>6, <3>1, PutTyped DEF SendEvent, channelVars
  <2>2. t \in Tasks /\ Frame(t)
    BY <1>t, <1>6, <2>1 DEF SendEvent, Goto, Frame
  <2>3. Proceeds(t)
    BY <1>t, <1>w, <1>6, <2>1, <2>2 DEF SendEvent, Goto, Proceeds, LoopStates
  <2> QED BY <2>2, <2>3 DEF Effect
<1>7. ASSUME NEW t \in Tasks, EvalCompletes(t) PROVE t \in Tasks /\ Effect(t)
  <2>1. PICK v \in began[t]..inputs : StoreGraph(t, v)
    BY <1>7 DEF EvalCompletes
  <2>2. /\ warm'.graph = v /\ v \in Versions /\ warm'.completed = TRUE
        /\ replaced'[t] = warm.graph /\ \A u \in Tasks : u # t => replaced'[u] = replaced[u]
    <3>1. /\ warm' = [graph |-> v, completed |-> TRUE, error |-> "none"] /\ v \in Versions
          /\ replaced'[t] = warm.graph /\ \A u \in Tasks : u # t => replaced'[u] = replaced[u]
      BY <1>t, <2>1, StoreTyped
    <3> QED BY <3>1
  <2>3. Frame(t)
    BY <1>t, <1>7, <2>1, <2>2 DEF EvalCompletes, Goto, Drop, channelVars, Frame
  <2>4. Evaluates(t)
    BY <1>t, <1>7, <2>1, <2>2 DEF EvalCompletes, Goto, channelVars, Evaluates, Stores
  <2> QED BY <2>3, <2>4 DEF Effect
<1>8. ASSUME NEW t \in Tasks, EvalCancelled(t) PROVE t \in Tasks /\ Effect(t)
  <2>1. t \in Tasks /\ Frame(t)
    BY <1>t, <1>8 DEF EvalCancelled, Goto, Drop, channelVars, Frame
  <2>2. Proceeds(t)
    BY <1>t, <1>w, <1>8, <2>1 DEF EvalCancelled, Goto, Drop, channelVars, Proceeds, LoopStates
  <2> QED BY <2>1, <2>2 DEF Effect
<1>9. ASSUME NEW t \in Tasks, EvalFails(t) PROVE t \in Tasks /\ Effect(t)
  <2>1. t \in Tasks /\ Frame(t)
    BY <1>t, <1>9 DEF EvalFails, Goto, Drop, channelVars, Frame
  <2>2. Proceeds(t)
    BY <1>t, <1>w, <1>9, <2>1 DEF EvalFails, Goto, Drop, channelVars, Proceeds, LoopStates
  <2> QED BY <2>1, <2>2 DEF Effect
<1>10. ASSUME NEW t \in Tasks, RecordError(t) PROVE t \in Tasks /\ Effect(t)
  <2>1. t \in Tasks /\ Frame(t)
    BY <1>t, <1>10 DEF RecordError, Goto, channelVars, Frame
  <2>2. Proceeds(t)
    BY <1>t, <1>w, <1>10, <2>1 DEF RecordError, Goto, channelVars, Proceeds, LoopStates
  <2> QED BY <2>1, <2>2 DEF Effect
<1>11. ASSUME NEW t \in Tasks, FinishFailed(t) PROVE t \in Tasks /\ Effect(t)
  <2>1. t \in Tasks /\ Frame(t)
    BY <1>t, <1>11 DEF FinishFailed, Goto, channelVars, Frame
  <2>2. Proceeds(t)
    BY <1>t, <1>w, <1>11, <2>1 DEF FinishFailed, Goto, channelVars, Proceeds, LoopStates
  <2> QED BY <2>1, <2>2 DEF Effect
<1>12. ASSUME NEW t \in Tasks, FinishCompleted(t) PROVE t \in Tasks /\ Effect(t)
  <2>1. t \in Tasks /\ Frame(t)
    BY <1>t, <1>12 DEF FinishCompleted, Goto, channelVars, Frame
  <2>2. Proceeds(t)
    BY <1>t, <1>w, <1>12, <2>1 DEF FinishCompleted, Goto, channelVars, Proceeds, LoopStates
  <2> QED BY <2>1, <2>2 DEF Effect
<1>13. ASSUME NEW t \in Tasks, ReportError(t) PROVE t \in Tasks /\ Effect(t)
  <2>1. /\ \A u \in Tasks : u # t => last'[u] = last[u]
        /\ last'[t] = last[t] \/ last'[t] = Err
    <3>1. Err \in Items /\ t \in Tasks
      BY <1>t, ItemsTyped
    <3> QED BY <1>t, <1>13, <3>1, PutTyped DEF ReportError, channelVars
  <2>2. t \in Tasks /\ Frame(t)
    BY <1>t, <1>13, <2>1 DEF ReportError, Goto, Frame
  <2>3. Proceeds(t)
    BY <1>t, <1>w, <1>13, <2>1, <2>2 DEF ReportError, Goto, Proceeds, LoopStates
  <2> QED BY <2>2, <2>3 DEF Effect
<1>14. ASSUME NEW t \in Tasks, WaitCheck(t) PROVE t \in Tasks /\ Effect(t)
  <2>1. t \in Tasks /\ Frame(t)
    BY <1>t, <1>14 DEF WaitCheck, Goto, channelVars, Frame
  <2>2. Proceeds(t)
    BY <1>t, <1>w, <1>14, <2>1 DEF WaitCheck, Goto, channelVars, Proceeds, LoopStates
  <2> QED BY <2>1, <2>2 DEF Effect
<1>15. ASSUME NEW t \in Tasks, WaitRegister(t) PROVE t \in Tasks /\ Effect(t)
  <2>1. t \in Tasks /\ Frame(t)
    BY <1>t, <1>15 DEF WaitRegister, Goto, channelVars, Frame
  <2>2. Proceeds(t)
    BY <1>t, <1>w, <1>15, <2>1 DEF WaitRegister, Goto, channelVars, Proceeds, LoopStates
  <2> QED BY <2>1, <2>2 DEF Effect
<1>16. ASSUME NEW t \in Tasks, WaitRead(t) PROVE t \in Tasks /\ Effect(t)
  <2>1. t \in Tasks /\ Frame(t)
    BY <1>t, <1>16 DEF WaitRead, Goto, channelVars, Frame
  <2>2. Proceeds(t)
    BY <1>t, <1>w, <1>16, <2>1 DEF WaitRead, Goto, channelVars, Proceeds, LoopStates
  <2> QED BY <2>1, <2>2 DEF Effect
<1>17. ASSUME NEW t \in Tasks, Wake(t) PROVE t \in Tasks /\ Effect(t)
  <2>1. t \in Tasks /\ Frame(t)
    BY <1>t, <1>17 DEF Wake, Goto, channelVars, Frame
  <2>2. Proceeds(t)
    BY <1>t, <1>w, <1>17, <2>1 DEF Wake, Goto, channelVars, Proceeds, LoopStates
  <2> QED BY <2>1, <2>2 DEF Effect
<1>18. ASSUME NEW t \in Tasks, Setup(t) PROVE t \in Tasks /\ Effect(t)
  <2>1. t \in Tasks /\ Frame(t)
    BY <1>t, <1>18 DEF Setup, Goto, channelVars, Frame
  <2>2. Proceeds(t)
    BY <1>t, <1>w, <1>18, <2>1 DEF Setup, Goto, channelVars, Proceeds, LoopStates
  <2> QED BY <2>1, <2>2 DEF Effect
<1>19. ASSUME NEW t \in Tasks, LoopCheck(t) PROVE t \in Tasks /\ Effect(t)
  <2>1. t \in Tasks /\ Frame(t)
    BY <1>t, <1>19 DEF LoopCheck, Goto, channelVars, Frame
  <2>2. Proceeds(t)
    BY <1>t, <1>w, <1>19, <2>1 DEF LoopCheck, Goto, channelVars, Proceeds, LoopStates
  <2> QED BY <2>1, <2>2 DEF Effect
<1>20. ASSUME NEW t \in Tasks, RecvTimeout(t) PROVE t \in Tasks /\ Effect(t)
  <2>1. t \in Tasks /\ Frame(t)
    BY <1>t, <1>20 DEF RecvTimeout, Goto, channelVars, Frame
  <2>2. Proceeds(t)
    BY <1>t, <1>w, <1>20, <2>1 DEF RecvTimeout, Goto, channelVars, Proceeds, LoopStates
  <2> QED BY <2>1, <2>2 DEF Effect
<1>21. ASSUME NEW t \in Tasks, LoopEvent(t) PROVE t \in Tasks /\ Effect(t)
  <2>1. t \in Tasks /\ Frame(t)
    BY <1>t, <1>21 DEF LoopEvent, Goto, channelVars, Frame
  <2>2. Proceeds(t)
    BY <1>t, <1>w, <1>21, <2>1 DEF LoopEvent, Goto, channelVars, Proceeds, LoopStates
  <2> QED BY <2>1, <2>2 DEF Effect
<1>22. ASSUME NEW t \in Tasks, Debounce(t) PROVE t \in Tasks /\ Effect(t)
  <2>1. t \in Tasks /\ Frame(t)
    BY <1>t, <1>22 DEF Debounce, Goto, channelVars, Frame
  <2>2. Proceeds(t)
    BY <1>t, <1>w, <1>22, <2>1 DEF Debounce, Goto, channelVars, Proceeds, LoopStates
  <2> QED BY <2>1, <2>2 DEF Effect
<1>23. ASSUME NEW t \in Tasks, Snapshot(t) PROVE t \in Tasks /\ Effect(t)
  <2>1. t \in Tasks /\ Frame(t)
    BY <1>t, <1>23 DEF Snapshot, Goto, channelVars, Frame
  <2>2. Clones(t)
    BY <1>t, <1>w, <1>c, <1>23, <2>1 DEF Snapshot, Goto, channelVars, Clones
  <2> QED BY <2>1, <2>2 DEF Effect
<1>24. ASSUME NEW t \in Tasks, ReevalCompletes(t) PROVE t \in Tasks /\ Effect(t)
  <2>1. PICK v \in began[t]..inputs : StoreGraph(t, v) /\ item' = [item EXCEPT ![t] = Diff(base[t], v)]
    BY <1>24 DEF ReevalCompletes
  <2>2. /\ warm'.graph = v /\ v \in Versions /\ warm'.completed = TRUE
        /\ replaced'[t] = warm.graph /\ \A u \in Tasks : u # t => replaced'[u] = replaced[u]
    <3>1. /\ warm' = [graph |-> v, completed |-> TRUE, error |-> "none"] /\ v \in Versions
          /\ replaced'[t] = warm.graph /\ \A u \in Tasks : u # t => replaced'[u] = replaced[u]
      BY <1>t, <2>1, StoreTyped
    <3> QED BY <3>1
  <2>3. Frame(t)
    BY <1>t, <1>24, <2>1, <2>2 DEF ReevalCompletes, Goto, Drop, channelVars, Frame
  <2>4. Reevaluates(t)
    BY <1>t, <1>24, <2>1, <2>2 DEF ReevalCompletes, Goto, channelVars, Reevaluates, Stores
  <2> QED BY <2>3, <2>4 DEF Effect
<1>25. ASSUME NEW t \in Tasks, ReevalCancelled(t) PROVE t \in Tasks /\ Effect(t)
  <2>1. t \in Tasks /\ Frame(t)
    BY <1>t, <1>25 DEF ReevalCancelled, Goto, Drop, channelVars, Frame
  <2>2. Proceeds(t)
    BY <1>t, <1>w, <1>25, <2>1 DEF ReevalCancelled, Goto, Drop, channelVars, Proceeds, LoopStates
  <2> QED BY <2>1, <2>2 DEF Effect
<1>26. ASSUME NEW t \in Tasks, ReevalFails(t) PROVE t \in Tasks /\ Effect(t)
  <2>1. t \in Tasks /\ Frame(t)
    BY <1>t, <1>26 DEF ReevalFails, Goto, Drop, channelVars, Frame
  <2>2. Proceeds(t)
    BY <1>t, <1>w, <1>26, <2>1 DEF ReevalFails, Goto, Drop, channelVars, Proceeds, LoopStates
  <2> QED BY <2>1, <2>2 DEF Effect
<1>27. ASSUME NEW t \in Tasks, Deliver(t) PROVE t \in Tasks /\ Effect(t)
  <2>1. /\ \A u \in Tasks : u # t => last'[u] = last[u]
        /\ last'[t] = last[t] \/ last'[t] = item[t]
    <3>1. item[t] \in Items /\ t \in Tasks
      BY <1>t, ItemsTyped
    <3> QED BY <1>t, <1>27, <3>1, PutTyped DEF Deliver, channelVars
  <2>2. t \in Tasks /\ Frame(t)
    BY <1>t, <1>27, <2>1 DEF Deliver, Goto, Frame
  <2>3. Proceeds(t)
    <3>1. item[t] \in Items
      BY <1>t
    <3>2. /\ pc[t] = "deliver" /\ UNCHANGED <<warm, replaced>> /\ item'[t] = Nothing
          /\ pc'[t] = IF open[t] THEN "loop" ELSE "done"
      BY <1>t, <1>27 DEF Deliver, Goto
    <3>3. last'[t] = IF open[t] THEN item[t] ELSE last[t]
      BY <1>t, <1>27, <3>1, PutTyped DEF Deliver
    <3> QED BY <3>2, <3>3 DEF Proceeds, LoopStates
  <2> QED BY <2>2, <2>3 DEF Effect
<1> QED
  BY <1>1, <1>2, <1>3, <1>4, <1>5, <1>6, <1>7, <1>8, <1>9, <1>10, <1>11, <1>12, <1>13, <1>14, <1>15, <1>16, <1>17, <1>18, <1>19, <1>20, <1>21, <1>22, <1>23, <1>24, <1>25, <1>26, <1>27
  DEF Next, TaskStep, Consume, DropReceiver, WatcherNotifies, Cancel, Edit, TasksStay, channelVars

(* A whole graph stays, and nothing but a whole graph is compared or sent. *)
LEMMA WarmKept ==
  ASSUME SessionInv, Next
  PROVE  WarmInv'
<1>t. WarmInv /\ StartInv /\ warm.completed \in BOOLEAN
  BY DEF SessionInv, Typed, TypeOK
<1>v. \A v \in Versions : v # Empty
  BY SessionAssumption DEF Versions, Empty
<1>k. Err.kind # "diff" /\ Nothing.kind # "diff" /\ \A a, b : Diff(a, b).from = a
  BY DEF Err, Nothing, Diff, Item
<1>1. CASE TasksStay
  BY <1>t, <1>1 DEF TasksStay, WarmInv
<1>2. ASSUME NEW t \in Tasks, Effect(t) PROVE WarmInv'
  <2>f. Frame(t)
    BY <1>2 DEF Effect
  <2>1. CASE Evaluates(t) \/ Reevaluates(t)
    <3>1. Stores(t) /\ pc'[t] # "reeval"
      BY <2>1 DEF Evaluates, Reevaluates
    <3>2. item'[t].kind = "diff" => item'[t].from \in Versions
      BY <1>t, <1>k, <2>1 DEF Evaluates, Reevaluates, WarmInv
    <3> QED BY <1>t, <2>f, <3>1, <3>2 DEF WarmInv, Frame, Stores
  <2>2. CASE Clones(t)
    <3>1. base'[t] \in Versions /\ warm' = warm /\ warm.completed
      BY <1>t, <2>2 DEF Clones, WarmInv
    <3> QED BY <1>t, <2>f, <2>2, <3>1 DEF WarmInv, Frame, Clones
  <2>3. CASE Proceeds(t)
    <3>1. warm'.graph = warm.graph /\ warm'.completed = warm.completed /\ replaced'[t] = replaced[t]
      BY <2>3 DEF Proceeds
    <3>2. pc'[t] # "reeval" /\ (pc'[t] \in LoopStates \union {"setup", "completed"} => warm.completed)
      BY <1>t, <2>3 DEF Proceeds, WarmInv
    <3>3. item'[t].kind = "diff" => item'[t] = item[t]
      BY <1>k, <2>3 DEF Proceeds
    <3> QED BY <1>t, <2>f, <3>1, <3>2, <3>3 DEF WarmInv, Frame
  <2> QED BY <1>2, <2>1, <2>2, <2>3 DEF Effect
<1> QED BY <1>1, <1>2, TasksEffect

(* Another writer is another task whose replaced graph is not the empty one. *)
LEMMA ChainKept ==
  ASSUME SessionInv, Next
  PROVE  ChainInv'
<1>t. WarmInv /\ StartInv /\ ChainInv /\ warm.completed \in BOOLEAN /\ Watches \subseteq Tasks
      /\ \A u \in Tasks : PcInv(u)
  BY DEF SessionInv, Typed, TypeOK, Tasks
<1>v. \A v \in Versions : v # Empty
  BY SessionAssumption DEF Versions, Empty
<1>k. /\ Err.kind # "diff" /\ Nothing.kind # "diff" /\ Event.kind # "diff"
      /\ \A a, b : Diff(a, b).to = b
  BY DEF Err, Nothing, Event, Diff, Item
<1>1. CASE TasksStay
  BY <1>t, <1>1 DEF TasksStay, ChainInv, OnlyWriter
<1>2. ASSUME NEW t \in Tasks, Effect(t) PROVE ChainInv'
  <2>f. Frame(t)
    BY <1>2 DEF Effect
  <2>g. \A u \in Watches \ {t} : OnlyWriter(u)' /\ replaced'[t] = replaced[t] => OnlyWriter(u)
    BY <2>f DEF OnlyWriter, Frame
  <2>o. OnlyWriter(t)' => OnlyWriter(t)
    BY <2>f DEF OnlyWriter, Frame
  <2>r. \A u \in Watches : pc[u] \in LoopStates => warm.completed
    BY <1>t DEF WarmInv
  <2>1. CASE Evaluates(t)
    <3>1. ~warm.completed
      BY <1>t, <2>1 DEF Evaluates, StartInv, InitialStates
    <3>2. \A u \in Watches : pc'[u] \notin LoopStates
      BY <1>t, <2>1, <2>f, <2>r, <3>1 DEF Evaluates, Frame, LoopStates
    <3>3. \A u \in Watches : pc'[u] \notin LoopStates \union {"done"} => last'[u].kind # "diff"
      BY <1>t, <2>1, <2>f DEF Evaluates, Stores, Frame, ChainInv, LoopStates
    <3> QED BY <3>2, <3>3 DEF ChainInv, LoopStates
  <2>2. CASE Reevaluates(t)
    <3>1. warm.graph \in Versions
      BY <1>t, <2>2 DEF Reevaluates, WarmInv, LoopStates
    <3>2. \A u \in Watches : OnlyWriter(u)' => u = t
      BY <1>t, <1>v, <2>2, <3>1 DEF Reevaluates, Stores, OnlyWriter
    <3>3. \A u \in Watches : pc'[u] \notin LoopStates \union {"done"} => last'[u].kind # "diff"
      BY <1>t, <2>2, <2>f DEF Reevaluates, Stores, Frame, ChainInv, LoopStates
    <3>4. t \in Watches => item'[t].to = warm'.graph /\ item'[t].kind = "diff" /\ pc'[t] = "deliver"
      BY <1>k, <2>2 DEF Reevaluates, Diff, Item
    <3> QED BY <3>2, <3>3, <3>4 DEF ChainInv
  <2>3. CASE Clones(t)
    <3>1. \A u \in Watches : pc'[u] \notin LoopStates \union {"done"} => last'[u].kind # "diff"
      BY <1>t, <2>3, <2>f DEF Clones, Frame, ChainInv, LoopStates
    <3>2. ASSUME NEW u \in Watches, OnlyWriter(u)'
          PROVE  /\ pc'[u] = "reeval" => base'[u] = warm'.graph
                 /\ pc'[u] = "deliver" /\ item'[u].kind = "diff" => item'[u].to = warm'.graph
                 /\ /\ pc'[u] \in LoopStates /\ last'[u].kind = "diff"
                    /\ ~(pc'[u] = "deliver" /\ item'[u].kind = "diff")
                    => last'[u].to = warm'.graph
      <4>1. CASE u = t
        <5>1. OnlyWriter(t) /\ pc[t] = "snapshot"
          BY <2>3, <2>o, <3>2, <4>1, SessionAssumption DEF Clones
        <5> QED BY <1>t, <2>3, <4>1, <5>1 DEF Clones, ChainInv, LoopStates
      <4>2. CASE u # t
        <5>1. OnlyWriter(u)
          BY <2>3, <2>g, <3>2, <4>2 DEF Clones
        <5>2. warm' = warm /\ pc'[u] = pc[u] /\ base'[u] = base[u] /\ item'[u] = item[u] /\ last'[u] = last[u]
          BY <1>t, <2>3, <2>f, <4>2 DEF Clones, Frame
        <5> QED BY <1>t, <5>1, <5>2 DEF ChainInv
      <4> QED BY <4>1, <4>2
    <3> QED BY <3>1, <3>2 DEF ChainInv
  <2>4. CASE Proceeds(t)
    <3>w. warm'.graph = warm.graph
      BY <2>4 DEF Proceeds
    <3>1. \A u \in Watches : pc'[u] \notin LoopStates \union {"done"} => last'[u].kind # "diff"
      <4>1. ASSUME t \in Watches, pc'[t] \notin LoopStates \union {"done"} PROVE last'[t].kind # "diff"
        <5>1. last[t].kind # "diff" /\ pc[t] # "deliver"
          BY <1>t, <2>4, <4>1 DEF Proceeds, ChainInv, LoopStates
        <5> QED BY <1>k, <2>4, <5>1 DEF Proceeds
      <4> QED BY <1>t, <2>f, <4>1 DEF Frame, ChainInv
    <3>2. ASSUME NEW u \in Watches, OnlyWriter(u)'
          PROVE  /\ pc'[u] = "reeval" => base'[u] = warm'.graph
                 /\ pc'[u] = "deliver" /\ item'[u].kind = "diff" => item'[u].to = warm'.graph
                 /\ /\ pc'[u] \in LoopStates /\ last'[u].kind = "diff"
                    /\ ~(pc'[u] = "deliver" /\ item'[u].kind = "diff")
                    => last'[u].to = warm'.graph
      <4>1. CASE u = t
        <5>1. OnlyWriter(t) /\ pc'[t] # "reeval" /\ (pc'[t] = "deliver" => item'[t].kind # "diff")
          BY <1>k, <2>4, <2>o, <3>2, <4>1 DEF Proceeds
        <5>2. ASSUME pc'[t] \in LoopStates, last'[t].kind = "diff" PROVE last'[t].to = warm.graph
          <6>1. CASE pc[t] = "deliver" /\ last'[t] = item[t]
            BY <1>t, <4>1, <5>1, <5>2, <6>1 DEF ChainInv
          <6>2. CASE ~(pc[t] = "deliver" /\ last'[t] = item[t])
            <7>1. last'[t] = last[t] /\ pc[t] # "deliver" /\ pc[t] \in LoopStates \union {"setup"}
              BY <1>k, <2>4, <5>2, <6>2 DEF Proceeds, LoopStates
            <7>2. pc[t] \in LoopStates
              BY <1>t, <4>1, <5>2, <7>1 DEF ChainInv, LoopStates
            <7> QED BY <1>t, <4>1, <5>1, <5>2, <7>1, <7>2 DEF ChainInv
          <6> QED BY <6>1, <6>2
        <5> QED BY <3>w, <4>1, <5>1, <5>2
      <4>2. CASE u # t
        <5>1. OnlyWriter(u)
          BY <2>4, <2>g, <3>2, <4>2 DEF Proceeds
        <5>2. pc'[u] = pc[u] /\ base'[u] = base[u] /\ item'[u] = item[u] /\ last'[u] = last[u]
          BY <1>t, <2>f, <4>2 DEF Frame
        <5> QED BY <1>t, <3>w, <5>1, <5>2 DEF ChainInv
      <4> QED BY <4>1, <4>2
    <3> QED BY <3>1, <3>2 DEF ChainInv
  <2> QED BY <1>2, <2>1, <2>2, <2>3, <2>4 DEF Effect
<1> QED BY <1>1, <1>2, TasksEffect

------------------------------------------------------------------------------
(* Failures. *)

(* What a step of a task does to the failure that is told. *)
Tells(t) ==
    /\ \A u \in Tasks : u # t => pc'[u] = pc[u] /\ error'[u] = error[u] /\ last'[u] = last[u]
    /\ pc[t] # "unspawned"
    /\ warm.completed => warm'.completed
    /\ warm.error # "none" => warm'.error # "none" \/ warm'.completed
    /\ pc'[t] = "record" => error'[t] # "none"
    /\ pc'[t] = "finish" => error'[t] # "none" /\ warm'.error # "none"
    /\ initial' = "Finished" => \/ initial = "Finished" \/ pc'[t] = "unspawned"
                               \/ warm'.completed \/ warm'.error # "none"
    /\ t \in Streams /\ pc'[t] \in {"done", "unspawned"} /\ open[t] =>
          last'[t].kind = "err" \/ warm'.completed

LEMMA TasksTell ==
  ASSUME SessionInv, Next
  PROVE  \/ \E t \in Tasks : Tells(t) /\ open' = open
         \/ TasksStay /\ \A u \in Tasks : open'[u] => open[u]
<1>t. /\ Typed /\ pc \in [Tasks -> Pcs] /\ item \in [Tasks -> Items]
      /\ last \in [Tasks -> Items] /\ open \in [Tasks -> BOOLEAN]
      /\ error \in [Tasks -> {"none", "failed", "cancelled"}]
      /\ Tasks = Streams \union Watches \union Diffs
  BY DEF SessionInv, Typed, TypeOK, Tasks
<1>w. warm \in [graph : Graphs, completed : BOOLEAN,
                error : {"none", "failed", "cancelled", "no runtime"}]
  BY <1>t DEF Typed, TypeOK
<1>f. /\ \A u \in Tasks : pc[u] \in {"record", "finish"} => error[u] # "none"
      /\ \A u \in Tasks : pc[u] = "finish" => warm.error # "none"
      /\ \A u \in Tasks : pc[u] = "completed" => warm.completed
      /\ \A u \in Tasks : pc[u] = "reeval" => u \notin Streams
      /\ \A u \in Tasks : pc[u] \in {"loop", "deliver"} => u \notin Streams
  BY DEF SessionInv, FailInv, WarmInv, PcInv, InitialStates
<1>k. Err.kind = "err"
  BY DEF Err, Item
<1>1. ASSUME NEW t \in Streams, CallStream(t) PROVE t \in Tasks /\ Tells(t) /\ open' = open
  <2>1. t \in Tasks /\ Err \in Items
    BY <1>t, ItemsTyped
  <2>2. /\ open' = open /\ \A u \in Tasks : u # t => last'[u] = last[u]
        /\ Put(t, Err) => last'[t] = IF open[t] THEN Err ELSE last[t]
    BY <1>t, <1>1, <2>1, PutTyped DEF CallStream, channelVars
  <2>3. Tells(t)
    BY <1>t, <1>w, <1>f, <1>k, <1>1, <2>1, <2>2 DEF CallStream, Goto, Tells
  <2> QED BY <2>1, <2>2, <2>3
<1>2. ASSUME NEW t \in Watches, CallWatch(t) PROVE t \in Tasks /\ Tells(t) /\ open' = open
  <2>1. t \in Tasks /\ open' = open /\ last' = last
    BY <1>t, <1>2 DEF CallWatch, channelVars
  <2>2. Tells(t)
    BY <1>t, <1>w, <1>f, <1>2, <2>1 DEF CallWatch, Goto, Tells
  <2> QED BY <2>1, <2>2
<1>3. ASSUME NEW t \in Diffs, CallDiff(t) PROVE t \in Tasks /\ Tells(t) /\ open' = open
  <2>1. t \in Tasks /\ open' = open /\ last' = last
    BY <1>t, <1>3 DEF CallDiff, channelVars
  <2>2. Tells(t)
    <3>1. pc[t] = "idle" /\ pc'[t] \in {"reeval", "done"} /\ \A u \in Tasks : u # t => pc'[u] = pc[u]
      BY <1>t, <1>3 DEF CallDiff, Goto
    <3>2. UNCHANGED <<warm, error, initial, last>> /\ t \notin Streams
      BY <1>3, <2>1, SessionAssumption DEF CallDiff
    <3> QED BY <3>1, <3>2 DEF Tells
  <2> QED BY <2>1, <2>2
<1>4. ASSUME NEW t \in Tasks, SpawnFails(t) PROVE t \in Tasks /\ Tells(t) /\ open' = open
  <2>1. t \in Tasks /\ Err \in Items
    BY <1>t, ItemsTyped
  <2>2. /\ open' = open /\ \A u \in Tasks : u # t => last'[u] = last[u]
        /\ Put(t, Err) => last'[t] = IF open[t] THEN Err ELSE last[t]
    BY <1>t, <1>4, <2>1, PutTyped DEF SpawnFails, channelVars
  <2>3. Tells(t)
    BY <1>t, <1>w, <1>f, <1>k, <1>4, <2>1, <2>2 DEF SpawnFails, Goto, Tells
  <2> QED BY <2>1, <2>2, <2>3
<1>5. ASSUME NEW t \in Tasks, EmitEvent(t) PROVE t \in Tasks /\ Tells(t) /\ open' = open
  <2>1. t \in Tasks /\ open' = open /\ last' = last
    BY <1>t, <1>5 DEF EmitEvent, channelVars
  <2>2. Tells(t)
    BY <1>t, <1>w, <1>f, <1>5, <2>1 DEF EmitEvent, Goto, Tells
  <2> QED BY <2>1, <2>2
<1>6. ASSUME NEW t \in Tasks, SendEvent(t) PROVE t \in Tasks /\ Tells(t) /\ open' = open
  <2>1. t \in Tasks /\ Event \in Items
    BY <1>t, ItemsTyped
  <2>2. /\ open' = open /\ \A u \in Tasks : u # t => last'[u] = last[u]
        /\ Put(t, Event) => last'[t] = IF open[t] THEN Event ELSE last[t]
    BY <1>t, <1>6, <2>1, PutTyped DEF SendEvent, channelVars
  <2>3. Tells(t)
    BY <1>t, <1>w, <1>f, <1>k, <1>6, <2>1, <2>2, ZenonT(60) DEF SendEvent, Goto, Tells
  <2> QED BY <2>1, <2>2, <2>3
<1>7. ASSUME NEW t \in Tasks, EvalCompletes(t) PROVE t \in Tasks /\ Tells(t) /\ open' = open
  <2>1. warm'.completed = TRUE /\ open' = open /\ last' = last
    BY <1>7 DEF EvalCompletes, StoreGraph, channelVars
  <2>2. Tells(t)
    BY <1>t, <1>f, <1>7, <2>1 DEF EvalCompletes, Goto, Tells
  <2> QED BY <2>1, <2>2
<1>8. ASSUME NEW t \in Tasks, EvalCancelled(t) PROVE t \in Tasks /\ Tells(t) /\ open' = open
  <2>1. t \in Tasks /\ open' = open /\ last' = last
    BY <1>t, <1>8 DEF EvalCancelled, channelVars
  <2>2. Tells(t)
    BY <1>t, <1>w, <1>f, <1>8, <2>1 DEF EvalCancelled, Goto, Tells
  <2> QED BY <2>1, <2>2
<1>9. ASSUME NEW t \in Tasks, EvalFails(t) PROVE t \in Tasks /\ Tells(t) /\ open' = open
  <2>1. t \in Tasks /\ open' = open /\ last' = last
    BY <1>t, <1>9 DEF EvalFails, channelVars
  <2>2. Tells(t)
    BY <1>t, <1>w, <1>f, <1>9, <2>1 DEF EvalFails, Goto, Tells
  <2> QED BY <2>1, <2>2
<1>10. ASSUME NEW t \in Tasks, RecordError(t) PROVE t \in Tasks /\ Tells(t) /\ open' = open
  <2>1. t \in Tasks /\ open' = open /\ last' = last
    BY <1>t, <1>10 DEF RecordError, channelVars
  <2>2. Tells(t)
    BY <1>t, <1>w, <1>f, <1>10, <2>1 DEF RecordError, Goto, Tells
  <2> QED BY <2>1, <2>2
<1>11. ASSUME NEW t \in Tasks, FinishFailed(t) PROVE t \in Tasks /\ Tells(t) /\ open' = open
  <2>1. t \in Tasks /\ open' = open /\ last' = last
    BY <1>t, <1>11 DEF FinishFailed, channelVars
  <2>2. Tells(t)
    BY <1>t, <1>w, <1>f, <1>11, <2>1 DEF FinishFailed, Goto, Tells
  <2> QED BY <2>1, <2>2
<1>12. ASSUME NEW t \in Tasks, FinishCompleted(t) PROVE t \in Tasks /\ Tells(t) /\ open' = open
  <2>1. t \in Tasks /\ open' = open /\ last' = last
    BY <1>t, <1>12 DEF FinishCompleted, channelVars
  <2>2. Tells(t)
    BY <1>t, <1>w, <1>f, <1>12, <2>1 DEF FinishCompleted, Goto, Tells
  <2> QED BY <2>1, <2>2
<1>13. ASSUME NEW t \in Tasks, ReportError(t) PROVE t \in Tasks /\ Tells(t) /\ open' = open
  <2>1. t \in Tasks /\ Err \in Items
    BY <1>t, ItemsTyped
  <2>2. /\ open' = open /\ \A u \in Tasks : u # t => last'[u] = last[u]
        /\ Put(t, Err) => last'[t] = IF open[t] THEN Err ELSE last[t]
    BY <1>t, <1>13, <2>1, PutTyped DEF ReportError, channelVars
  <2>3. Tells(t)
    BY <1>t, <1>w, <1>f, <1>k, <1>13, <2>1, <2>2 DEF ReportError, Goto, Tells
  <2> QED BY <2>1, <2>2, <2>3
<1>14. ASSUME NEW t \in Tasks, WaitCheck(t) PROVE t \in Tasks /\ Tells(t) /\ open' = open
  <2>1. t \in Tasks /\ open' = open /\ last' = last
    BY <1>t, <1>14 DEF WaitCheck, channelVars
  <2>2. Tells(t)
    BY <1>t, <1>w, <1>f, <1>14, <2>1 DEF WaitCheck, Goto, Tells
  <2> QED BY <2>1, <2>2
<1>15. ASSUME NEW t \in Tasks, WaitRegister(t) PROVE t \in Tasks /\ Tells(t) /\ open' = open
  <2>1. t \in Tasks /\ open' = open /\ last' = last
    BY <1>t, <1>15 DEF WaitRegister, channelVars
  <2>2. Tells(t)
    BY <1>t, <1>w, <1>f, <1>15, <2>1 DEF WaitRegister, Goto, Tells
  <2> QED BY <2>1, <2>2
<1>16. ASSUME NEW t \in Tasks, WaitRead(t) PROVE t \in Tasks /\ Tells(t) /\ open' = open
  <2>1. t \in Tasks /\ open' = open /\ last' = last
    BY <1>t, <1>16 DEF WaitRead, channelVars
  <2>2. Tells(t)
    BY <1>t, <1>w, <1>f, <1>16, <2>1 DEF WaitRead, Goto, Tells
  <2> QED BY <2>1, <2>2
<1>17. ASSUME NEW t \in Tasks, Wake(t) PROVE t \in Tasks /\ Tells(t) /\ open' = open
  <2>1. t \in Tasks /\ open' = open /\ last' = last
    BY <1>t, <1>17 DEF Wake, channelVars
  <2>2. Tells(t)
    BY <1>t, <1>w, <1>f, <1>17, <2>1 DEF Wake, Goto, Tells
  <2> QED BY <2>1, <2>2
<1>18. ASSUME NEW t \in Tasks, Setup(t) PROVE t \in Tasks /\ Tells(t) /\ open' = open
  <2>1. t \in Tasks /\ open' = open /\ last' = last
    BY <1>t, <1>18 DEF Setup, channelVars
  <2>2. Tells(t)
    BY <1>t, <1>w, <1>f, <1>18, <2>1 DEF Setup, Goto, Tells
  <2> QED BY <2>1, <2>2
<1>19. ASSUME NEW t \in Tasks, LoopCheck(t) PROVE t \in Tasks /\ Tells(t) /\ open' = open
  <2>1. t \in Tasks /\ open' = open /\ last' = last
    BY <1>t, <1>19 DEF LoopCheck, channelVars
  <2>2. Tells(t)
    BY <1>t, <1>w, <1>f, <1>19, <2>1 DEF LoopCheck, Goto, Tells
  <2> QED BY <2>1, <2>2
<1>20. ASSUME NEW t \in Tasks, RecvTimeout(t) PROVE t \in Tasks /\ Tells(t) /\ open' = open
  <2>1. t \in Tasks /\ open' = open /\ last' = last
    BY <1>t, <1>20 DEF RecvTimeout, channelVars
  <2>2. Tells(t)
    BY <1>t, <1>w, <1>f, <1>20, <2>1 DEF RecvTimeout, Goto, Tells
  <2> QED BY <2>1, <2>2
<1>21. ASSUME NEW t \in Tasks, LoopEvent(t) PROVE t \in Tasks /\ Tells(t) /\ open' = open
  <2>1. t \in Tasks /\ open' = open /\ last' = last
    BY <1>t, <1>21 DEF LoopEvent, channelVars
  <2>2. Tells(t)
    <3>1. pc[t] = "recv" /\ pc'[t] \in {"debounce", "deliver"} /\ \A u \in Tasks : u # t => pc'[u] = pc[u]
      BY <1>t, <1>21 DEF LoopEvent, Goto
    <3>2. UNCHANGED <<warm, error, initial, last>>
      BY <1>21, <2>1 DEF LoopEvent
    <3> QED BY <3>1, <3>2 DEF Tells
  <2> QED BY <2>1, <2>2
<1>22. ASSUME NEW t \in Tasks, Debounce(t) PROVE t \in Tasks /\ Tells(t) /\ open' = open
  <2>1. t \in Tasks /\ open' = open /\ last' = last
    BY <1>t, <1>22 DEF Debounce, channelVars
  <2>2. Tells(t)
    BY <1>t, <1>w, <1>f, <1>22, <2>1 DEF Debounce, Goto, Tells
  <2> QED BY <2>1, <2>2
<1>23. ASSUME NEW t \in Tasks, Snapshot(t) PROVE t \in Tasks /\ Tells(t) /\ open' = open
  <2>1. t \in Tasks /\ open' = open /\ last' = last
    BY <1>t, <1>23 DEF Snapshot, channelVars
  <2>2. Tells(t)
    BY <1>t, <1>w, <1>f, <1>23, <2>1 DEF Snapshot, Goto, Tells
  <2> QED BY <2>1, <2>2
<1>24. ASSUME NEW t \in Tasks, ReevalCompletes(t) PROVE t \in Tasks /\ Tells(t) /\ open' = open
  <2>1. warm'.completed = TRUE /\ open' = open /\ last' = last
    BY <1>24 DEF ReevalCompletes, StoreGraph, channelVars
  <2>2. Tells(t)
    BY <1>t, <1>f, <1>24, <2>1 DEF ReevalCompletes, Goto, Tells
  <2> QED BY <2>1, <2>2
<1>25. ASSUME NEW t \in Tasks, ReevalCancelled(t) PROVE t \in Tasks /\ Tells(t) /\ open' = open
  <2>1. t \in Tasks /\ open' = open /\ last' = last
    BY <1>t, <1>25 DEF ReevalCancelled, channelVars
  <2>2. Tells(t)
    BY <1>t, <1>w, <1>f, <1>25, <2>1 DEF ReevalCancelled, Goto, Tells
  <2> QED BY <2>1, <2>2
<1>26. ASSUME NEW t \in Tasks, ReevalFails(t) PROVE t \in Tasks /\ Tells(t) /\ open' = open
  <2>1. t \in Tasks /\ open' = open /\ last' = last
    BY <1>t, <1>26 DEF ReevalFails, channelVars
  <2>2. Tells(t)
    BY <1>t, <1>w, <1>f, <1>26, <2>1 DEF ReevalFails, Goto, Tells
  <2> QED BY <2>1, <2>2
<1>27. ASSUME NEW t \in Tasks, Deliver(t) PROVE t \in Tasks /\ Tells(t) /\ open' = open
  <2>1. t \in Tasks /\ item[t] \in Items
    BY <1>t, ItemsTyped
  <2>2. /\ open' = open /\ \A u \in Tasks : u # t => last'[u] = last[u]
        /\ Put(t, item[t]) => last'[t] = IF open[t] THEN item[t] ELSE last[t]
    BY <1>t, <1>27, <2>1, PutTyped DEF Deliver, channelVars
  <2>3. Tells(t)
    BY <1>t, <1>w, <1>f, <1>k, <1>27, <2>1, <2>2 DEF Deliver, Goto, Tells
  <2> QED BY <2>1, <2>2, <2>3
<1>28. ASSUME NEW t \in Tasks, Consume(t) \/ DropReceiver(t) \/ WatcherNotifies(t)
      PROVE  TasksStay /\ \A u \in Tasks : open'[u] => open[u]
  BY <1>t, <1>28 DEF Consume, DropReceiver, WatcherNotifies, TasksStay, channelVars
<1>29. CASE Cancel \/ Edit
  BY <1>29 DEF Cancel, Edit, TasksStay, channelVars
<1>30. Watches \subseteq Tasks
  BY <1>t
<1> QED
  BY <1>1, <1>2, <1>3, <1>4, <1>5, <1>6, <1>7, <1>8, <1>9, <1>10, <1>11, <1>12, <1>13, <1>14, <1>15, <1>16, <1>17, <1>18, <1>19, <1>20, <1>21, <1>22, <1>23, <1>24, <1>25, <1>26, <1>27, <1>28, <1>29, <1>30 DEF Next, TaskStep

LEMMA FailuresKept ==
  ASSUME SessionInv, Next
  PROVE  FailInv'
<1>t. FailInv /\ Streams \subseteq Tasks
  BY DEF SessionInv, Tasks
<1>s. \A u \in Tasks : warm'.completed => pc'[u] # "finish"
  BY PlacesKept DEF StartInv, InitialStates
<1>1. CASE TasksStay /\ \A u \in Tasks : open'[u] => open[u]
  BY <1>t, <1>1 DEF TasksStay, FailInv, FinishedIsExplained, StreamEndHonest, CalledInRuntime, QueryAnswer
<1>2. ASSUME NEW t \in Tasks, Tells(t), open' = open PROVE FailInv'
  <2>f. \A u \in Tasks : u # t => pc'[u] = pc[u] /\ error'[u] = error[u] /\ last'[u] = last[u]
    BY <1>2 DEF Tells
  <2>1. \A u \in Tasks : pc'[u] \in {"record", "finish"} => error'[u] # "none"
    BY <1>t, <1>2, <2>f DEF Tells, FailInv
  <2>2. ASSUME NEW u \in Tasks, pc'[u] = "finish" PROVE warm'.error # "none"
    <3>1. CASE u = t
      BY <1>2, <2>2, <3>1 DEF Tells
    <3>2. CASE u # t
      BY <1>t, <1>s, <1>2, <2>f, <2>2, <3>2 DEF Tells, FailInv
    <3> QED BY <3>1, <3>2
  <2>3. FinishedIsExplained'
    <3> SUFFICES ASSUME initial' = "Finished", CalledInRuntime'
                 PROVE  warm'.completed \/ warm'.error # "none"
      BY DEF FinishedIsExplained, QueryAnswer
    <3>1. pc'[t] # "unspawned" /\ CalledInRuntime
      BY <1>2, <2>f DEF CalledInRuntime, Tells
    <3>2. CASE initial = "Finished"
      <4>1. warm.completed \/ warm.error # "none"
        BY <1>t, <3>1, <3>2 DEF FailInv, FinishedIsExplained, QueryAnswer
      <4> QED BY <1>2, <4>1 DEF Tells
    <3>3. CASE initial # "Finished"
      BY <1>2, <3>1, <3>3 DEF Tells
    <3> QED BY <3>2, <3>3
  <2>4. StreamEndHonest'
    <3> SUFFICES ASSUME NEW u \in Streams, pc'[u] \in {"done", "unspawned"}, open[u], last'[u].kind # "err"
                 PROVE  warm'.completed
      BY <1>2 DEF StreamEndHonest
    <3>1. CASE u = t
      BY <1>2, <3>1 DEF Tells
    <3>2. CASE u # t
      <4>1. warm.completed
        BY <1>t, <2>f, <3>2 DEF FailInv, StreamEndHonest
      <4> QED BY <1>2, <4>1 DEF Tells
    <3> QED BY <3>1, <3>2
  <2> QED BY <2>1, <2>2, <2>3, <2>4 DEF FailInv
<1> QED BY <1>1, <1>2, TasksTell

------------------------------------------------------------------------------
(* The invariant holds at the start and no step breaks it. *)

LEMMA InitHolds == Init => SessionInv
<1> SUFFICES ASSUME Init PROVE SessionInv
  OBVIOUS
<1>c. MaxVersion \in Nat /\ Capacity \in Nat /\ <<>> \in Seq(Items) /\ Len(<<>>) = 0
      /\ <<>> \in Seq({"change", "error"})
  BY SessionAssumption
<1>1. Typed
  <2>1. fs \in [Watches -> Seq({"change", "error"})] /\ out \in [Tasks -> Seq(Items)]
        /\ \A t \in Tasks : Len(out[t]) <= Capacity
    BY <1>c DEF Init
  <2>2. warm \in [graph : Graphs, completed : BOOLEAN,
                  error : {"none", "failed", "cancelled", "no runtime"}]
    BY ItemsTyped DEF Init
  <2>3. pc \in [Tasks -> Pcs]
    BY DEF Init, Pcs
  <2> QED BY <2>1, <2>2, <2>3, ItemsTyped DEF Init, Typed, TypeOK
<1>2. \A t \in Tasks : PcInv(t)
  BY DEF Init, PcInv
<1>3. StartInv
  BY DEF Init, StartInv, InitialStates, Tasks
<1>4. WarmInv
  BY DEF Init, WarmInv, LoopStates, Nothing, Item
<1>5. FailInv
  BY DEF Init, FailInv, FinishedIsExplained, StreamEndHonest, Tasks
<1>6. ChainInv
  BY DEF Init, ChainInv, LoopStates, Nothing, Item, Tasks
<1> QED BY <1>1, <1>2, <1>3, <1>4, <1>5, <1>6 DEF SessionInv

LEMMA StutterKeeps ==
  ASSUME SessionInv, UNCHANGED vars
  PROVE  SessionInv'
<1>1. Typed'
  BY DEF vars, SessionInv, Typed, TypeOK
<1>2. (\A t \in Tasks : PcInv(t)') /\ StartInv' /\ WarmInv'
  BY DEF vars, SessionInv, PcInv, StartInv, WarmInv
<1>3. FailInv'
  BY DEF vars, SessionInv, FailInv, FinishedIsExplained, StreamEndHonest, CalledInRuntime, QueryAnswer
<1>4. ChainInv'
  BY DEF vars, SessionInv, ChainInv, OnlyWriter
<1> QED BY <1>1, <1>2, <1>3, <1>4 DEF SessionInv

LEMMA InvariantHolds == Spec => []SessionInv
<1>1. SessionInv /\ [Next]_vars => SessionInv'
  BY StutterKeeps, TypesKept, PlacesKept, WarmKept, FailuresKept, ChainKept DEF SessionInv
<1> QED BY <1>1, InitHolds, PTL DEF Spec

LEMMA InitialIsOnce ==
  ASSUME SessionInv
  PROVE  InitialOnce
<1> DEFINE R == {t \in Tasks : pc[t] \in InitialStates}
<1>1. \A t, u \in R : t = u
  BY DEF SessionInv, StartInv
<1>2. Cardinality(R) <= 1
  <2>1. CASE R = {}
    BY <2>1, FS_EmptySet
  <2>2. CASE R # {}
    <3>1. PICK t : R = {t}
      BY <1>1, <2>2
    <3>2. Cardinality({t}) = 1
      BY FS_Singleton
    <3> HIDE DEF R
    <3> QED BY <3>1, <3>2
  <2> QED BY <2>1, <2>2
<1> QED BY <1>2 DEF SessionInv, StartInv, InitialOnce

(* Whatever calls of stream, watch and diff_once interleave, one initial   *)
(* evaluation runs at most, and queries and diffs only ever see the graph  *)
(* of a whole evaluation (session.rs).                                     *)
THEOREM SessionIsSound == Spec => []SessionSound
<1>1. SessionInv => SessionSound
  <2> SUFFICES ASSUME SessionInv PROVE TypeOK /\ WholeGraphs
    BY InitialIsOnce DEF SessionSound
  <2> QED BY DEF SessionInv, Typed, WarmInv, WholeGraphs, QueryAnswer
<1> QED BY <1>1, InvariantHolds, PTL

(* An initial evaluation that failed or was cancelled is told to later     *)
(* callers and to the reader of its stream (record_initial_error, stream). *)
THEOREM FailuresAreTold == Spec => []FailureIsTold
<1>1. SessionInv => FailureIsTold
  BY DEF SessionInv, FailInv, FailureIsTold
<1> QED BY <1>1, InvariantHolds, PTL

(* The diffs of a watch that is the only writer of the warm graph chain    *)
(* without a gap (watch_loop_with_sender, apply_watch_evaluation_result).  *)
THEOREM DeliveredDiffsChain == Spec => []DeliveredChain
<1>1. SessionInv => DeliveredChain
  BY DEF SessionInv, ChainInv, DeliveredChain, LoopStates
<1> QED BY <1>1, InvariantHolds, PTL
==============================================================================
