------------------------- MODULE BotLifecycleProofs -------------------------
(***************************************************************************)
(* Theorems about BotLifecycle, for every number of bots, tasks, runs of   *)
(* syncTaskStatus, faults and crashes, with and without the retry worker.  *)
(***************************************************************************)
EXTENDS BotLifecycle, FiniteSetTheorems, SequenceTheorems, TLAPS

-----------------------------------------------------------------------------
(* Type correctness.  TypeOK alone is not inductive: a handler that is at  *)
(* work must hold the bot and the tasks its next step uses.                *)

InitBusy ==
    \A i \in Initiator :
        /\ init[i].pc # "idle" => init[i].bot \in Bot
        /\ init[i].pc = "record" => init[i].task \in TaskId

SyncBusy == \A s \in Syncer : sync[s].pc # "idle" => sync[s].bot \in Bot

WorkerBusy ==
    /\ worker.pc # "idle" => worker.bot \in Bot /\ worker.task \in TaskId
    /\ worker.pc = "record" => worker.new \in TaskId

TypeInv == TypeOK /\ InitBusy /\ SyncBusy /\ WorkerBusy

\* Every action keeps every variable in its type, and every handler supplied.
LEMMA TypeStep == TypeInv /\ [Next]_vars => TypeInv'
<1> SUFFICES ASSUME TypeInv, [Next]_vars PROVE TypeInv'
  OBVIOUS
<1>bots. bots \in [Bot -> BotRow]
  BY DEF TypeInv, TypeOK
<1>due. due \in [Bot -> {"later", "window", "past"}]
  BY DEF TypeInv, TypeOK
<1>today. today \in [Bot -> BOOLEAN]
  BY DEF TypeInv, TypeOK
<1>ecs. ecs \in [TaskId -> Task]
  BY DEF TypeInv, TypeOK
<1>queue. queue \in Seq(Bot)
  BY DEF TypeInv, TypeOK
<1>fileLogs. fileLogs \in SUBSET TaskId
  BY DEF TypeInv, TypeOK
<1>init. init \in [Initiator -> InitState] /\ InitBusy
  BY DEF TypeInv, TypeOK
<1>cronTodo. cronTodo \in SUBSET Bot
  BY DEF TypeInv, TypeOK
<1>leave. leave \in [Bot -> LeaveState]
  BY DEF TypeInv, TypeOK
<1>sync. sync \in [Syncer -> SyncState] /\ SyncBusy
  BY DEF TypeInv, TypeOK
<1>worker. worker \in WorkerState /\ WorkerBusy
  BY DEF TypeInv, TypeOK
<1>faults. faults \in Nat
  BY DEF TypeInv, TypeOK
<1>crashes. crashes \in Nat
  BY DEF TypeInv, TypeOK
<1>orphans. orphans \in SUBSET TaskId
  BY DEF TypeInv, TypeOK
<1>overlapped. overlapped \in SUBSET Bot
  BY DEF TypeInv, TypeOK
<1>1. ASSUME NEW b \in Bot, CreateBot(b) PROVE TypeInv'
  <2>1. bots' \in [Bot -> BotRow]
    BY <1>1, <1>bots, ConstantsAssumption DEF CreateBot, BotRow, Status
  <2>2. due' \in [Bot -> {"later", "window", "past"}]
    BY <1>1, <1>due DEF CreateBot
  <2>3. today' \in [Bot -> BOOLEAN]
    BY <1>1, <1>today DEF CreateBot
  <2>4. init' \in [Initiator -> InitState] /\ InitBusy'
    BY <1>1, <1>init, ConstantsAssumption DEF CreateBot, InitBusy, InitState, InitIdle, Status, Initiator
  <2> QED
    BY <1>1, <2>1, <2>2, <2>3, <2>4 DEF CreateBot, TypeInv, TypeOK, rowVars, outVars, handlerVars, boundVars, noteVars, SyncBusy, WorkerBusy
<1>2. ASSUME NEW b \in Bot, CreateCheck(b) PROVE TypeInv'
  <2>1. init' \in [Initiator -> InitState] /\ InitBusy'
    BY <1>2, <1>init, ConstantsAssumption DEF CreateCheck, InitBusy, InitState, InitIdle, Status, Initiator
  <2> QED
    BY <1>2, <2>1 DEF CreateCheck, TypeInv, TypeOK, rowVars, outVars, handlerVars, boundVars, noteVars, SyncBusy, WorkerBusy
<1>3. ASSUME NEW b \in Bot, CronNext(b) PROVE TypeInv'
  <2>1. cronTodo' \in SUBSET Bot
    BY <1>3, <1>cronTodo, ConstantsAssumption DEF CronNext
  <2>2. init' \in [Initiator -> InitState] /\ InitBusy'
    BY <1>3, <1>init, <1>cronTodo, ConstantsAssumption DEF CronNext, InitBusy, InitState, InitIdle, Status, Initiator
  <2> QED
    BY <1>3, <2>1, <2>2 DEF CronNext, TypeInv, TypeOK, rowVars, outVars, handlerVars, boundVars, noteVars, SyncBusy, WorkerBusy
<1>4. ASSUME NEW b \in Bot, LeaveRead(b) PROVE TypeInv'
  <2>1. leave' \in [Bot -> LeaveState]
    BY <1>4, <1>leave, <1>bots DEF LeaveRead, LeaveState, LeaveIdle, Status, BotRow
  <2> QED
    BY <1>4, <2>1 DEF LeaveRead, TypeInv, TypeOK, rowVars, outVars, handlerVars, boundVars, noteVars, InitBusy, SyncBusy, WorkerBusy
<1>5. ASSUME NEW b \in Bot, LeaveStop(b) PROVE TypeInv'
  <2>1. ecs' \in [TaskId -> Task]
    BY <1>5, <1>ecs, <1>leave, ConstantsAssumption DEF LeaveStop, Task, TaskState, LeaveState
  <2>2. leave' \in [Bot -> LeaveState]
    BY <1>5, <1>leave DEF LeaveStop, LeaveState, LeaveIdle, Status
  <2> QED
    BY <1>5, <2>1, <2>2 DEF LeaveStop, TypeInv, TypeOK, rowVars, outVars, handlerVars, boundVars, noteVars, InitBusy, SyncBusy, WorkerBusy
<1>6. ASSUME NEW b \in Bot, LeaveFail(b) PROVE TypeInv'
  <2>1. leave' \in [Bot -> LeaveState]
    BY <1>6, <1>leave DEF LeaveFail, LeaveState, LeaveIdle, Status
  <2>2. faults' \in Nat
    BY <1>6, <1>faults DEF LeaveFail, Fault
  <2> QED
    BY <1>6, <2>1, <2>2 DEF LeaveFail, TypeInv, TypeOK, rowVars, outVars, handlerVars, boundVars, noteVars, InitBusy, SyncBusy, WorkerBusy
<1>7. ASSUME NEW b \in Bot, LeaveMark(b) PROVE TypeInv'
  <2>1. bots' \in [Bot -> BotRow]
    BY <1>7, <1>bots, <1>leave, ConstantsAssumption DEF LeaveMark, BotRow, Status
  <2>2. leave' \in [Bot -> LeaveState]
    BY <1>7, <1>leave DEF LeaveMark, LeaveState, LeaveIdle, Status
  <2> QED
    BY <1>7, <2>1, <2>2 DEF LeaveMark, TypeInv, TypeOK, rowVars, outVars, handlerVars, boundVars, noteVars, InitBusy, SyncBusy, WorkerBusy
<1>8. ASSUME NEW b \in Bot, Elapse(b) PROVE TypeInv'
  <2>1. due' \in [Bot -> {"later", "window", "past"}]
    BY <1>8, <1>due DEF Elapse
  <2> QED
    BY <1>8, <2>1 DEF Elapse, TypeInv, TypeOK, rowVars, outVars, handlerVars, boundVars, noteVars, InitBusy, SyncBusy, WorkerBusy
<1>9. ASSUME NEW i \in Initiator, InitiateRead(i) PROVE TypeInv'
  <2>1. init' \in [Initiator -> InitState] /\ InitBusy'
    BY <1>9, <1>init, <1>bots, ConstantsAssumption DEF InitiateRead, InitBusy, InitState, InitIdle, Status, BotRow
  <2> QED
    BY <1>9, <2>1 DEF InitiateRead, TypeInv, TypeOK, rowVars, outVars, handlerVars, boundVars, noteVars, SyncBusy, WorkerBusy
<1>10. ASSUME NEW i \in Initiator, InitiateRun(i) PROVE TypeInv'
  <2>1. ecs' \in [TaskId -> Task]
    BY <1>10, <1>ecs, <1>init, ConstantsAssumption DEF InitiateRun, Task, TaskState, InitBusy, InitState
  <2>2. init' \in [Initiator -> InitState] /\ InitBusy'
    <3>1. PICK t \in TaskId :
             init' = [init EXCEPT ![i].pc = "record", ![i].task = t]
      BY <1>10 DEF InitiateRun
    <3>2. init[i].pc = "run"
      BY <1>10 DEF InitiateRun
    <3>3. [init[i] EXCEPT !.pc = "record", !.task = t] \in InitState
      BY <1>init DEF InitState
    <3> QED
      BY <1>init, <3>1, <3>2, <3>3 DEF InitBusy, InitState
  <2> QED
    BY <1>10, <2>1, <2>2 DEF InitiateRun, TypeInv, TypeOK, rowVars, outVars, handlerVars, boundVars, noteVars, SyncBusy, WorkerBusy
<1>11. ASSUME NEW i \in Initiator, InitiateFail(i) PROVE TypeInv'
  <2>1. init' \in [Initiator -> InitState] /\ InitBusy'
    BY <1>11, <1>init, ConstantsAssumption DEF InitiateFail, InitBusy, InitState, InitIdle, Status
  <2>2. cronTodo' \in SUBSET Bot
    BY <1>11, <1>cronTodo, ConstantsAssumption DEF InitiateFail
  <2>3. faults' \in Nat
    BY <1>11, <1>faults DEF InitiateFail, Fault
  <2>4. orphans' \in SUBSET TaskId
    BY <1>11, <1>init, <1>orphans DEF InitiateFail, InitState
  <2> QED
    BY <1>11, <2>1, <2>2, <2>3, <2>4 DEF InitiateFail, TypeInv, TypeOK, rowVars, outVars, handlerVars, boundVars, noteVars, SyncBusy, WorkerBusy
<1>12. ASSUME NEW i \in Initiator, InitiateRecord(i) PROVE TypeInv'
  <2>1. bots' \in [Bot -> BotRow]
    BY <1>12, <1>bots, <1>init, ConstantsAssumption DEF InitiateRecord, BotRow, Status, InitBusy, InitState, StartedRow
  <2>2. init' \in [Initiator -> InitState] /\ InitBusy'
    BY <1>12, <1>init, ConstantsAssumption DEF InitiateRecord, InitBusy, InitState, InitIdle, Status
  <2> QED
    BY <1>12, <2>1, <2>2 DEF InitiateRecord, TypeInv, TypeOK, rowVars, outVars, handlerVars, boundVars, noteVars, SyncBusy, WorkerBusy
<1>13. CASE CronFindAll
  <2>1. cronTodo' \in SUBSET Bot
    BY <1>13, <1>cronTodo, ConstantsAssumption DEF CronFindAll, ToStart
  <2> QED
    BY <1>13, <2>1 DEF CronFindAll, TypeInv, TypeOK, rowVars, outVars, handlerVars, boundVars, noteVars, InitBusy, SyncBusy, WorkerBusy
<1>14. ASSUME NEW s \in Syncer, SyncFindAll(s) PROVE TypeInv'
  <2>1. sync' \in [Syncer -> SyncState] /\ SyncBusy'
    BY <1>14, <1>sync DEF SyncFindAll, SyncBusy, SyncState, SyncIdle, ToSync
  <2>2. overlapped' \in SUBSET Bot
    BY <1>14, <1>overlapped DEF SyncFindAll
  <2> QED
    BY <1>14, <2>1, <2>2 DEF SyncFindAll, TypeInv, TypeOK, rowVars, outVars, handlerVars, boundVars, noteVars, InitBusy, WorkerBusy
<1>15. ASSUME NEW s \in Syncer, SyncCheck(s) PROVE TypeInv'
  <2>1. sync' \in [Syncer -> SyncState] /\ SyncBusy'
    BY <1>15, <1>sync DEF SyncCheck, SyncBusy, SyncState, SyncIdle, Verdict
  <2>2. faults' \in Nat
    BY <1>15, <1>faults DEF SyncCheck, Fault
  <2> QED
    BY <1>15, <2>1, <2>2 DEF SyncCheck, TypeInv, TypeOK, rowVars, outVars, handlerVars, boundVars, noteVars, InitBusy, WorkerBusy
<1>16. ASSUME NEW s \in Syncer, SyncMark(s) PROVE TypeInv'
  <2>1. bots' \in [Bot -> BotRow]
    BY <1>16, <1>bots, ConstantsAssumption DEF SyncMark, BotRow, Status, MarkedStatus
  <2>2. sync' \in [Syncer -> SyncState] /\ SyncBusy'
    BY <1>16, <1>sync DEF SyncMark, SyncBusy, SyncState, SyncIdle, AfterMark
  <2> QED
    BY <1>16, <2>1, <2>2 DEF SyncMark, TypeInv, TypeOK, rowVars, outVars, handlerVars, boundVars, noteVars, InitBusy, WorkerBusy
<1>17. ASSUME NEW s \in Syncer, SyncEnqueue(s) PROVE TypeInv'
  <2>1. queue' \in Seq(Bot)
    BY <1>17, <1>queue, <1>sync, ConstantsAssumption DEF SyncEnqueue, SyncBusy
  <2>2. sync' \in [Syncer -> SyncState] /\ SyncBusy'
    BY <1>17, <1>sync DEF SyncEnqueue, SyncBusy, SyncState, SyncIdle
  <2>3. faults' \in Nat
    BY <1>17, <1>faults DEF SyncEnqueue, Fault
  <2> QED
    BY <1>17, <2>1, <2>2, <2>3 DEF SyncEnqueue, TypeInv, TypeOK, rowVars, outVars, handlerVars, boundVars, noteVars, InitBusy, WorkerBusy
<1>18. ASSUME NEW s \in Syncer, SyncTrigger(s) PROVE TypeInv'
  <2>1. fileLogs' \in SUBSET TaskId
    BY <1>18, <1>fileLogs, <1>bots, <1>sync DEF SyncTrigger, SyncBusy, BotRow
  <2>2. faults' \in Nat
    BY <1>18, <1>faults DEF SyncTrigger, Fault
  <2>3. sync' \in [Syncer -> SyncState] /\ SyncBusy'
    BY <1>18, <1>sync DEF SyncTrigger, SyncBusy, SyncState, SyncIdle
  <2> QED
    BY <1>18, <2>1, <2>2, <2>3 DEF SyncTrigger, TypeInv, TypeOK, rowVars, outVars, handlerVars, boundVars, noteVars, InitBusy, WorkerBusy
<1>19. CASE WorkerTake
  <2>1. queue' \in Seq(Bot)
    BY <1>19, <1>queue, ConstantsAssumption DEF WorkerTake
  <2>2. worker' \in WorkerState /\ WorkerBusy'
    BY <1>19, <1>worker, <1>bots, <1>queue, ConstantsAssumption DEF WorkerTake, WorkerBusy, WorkerState, WorkerIdle, BotRow, Retryable
  <2> QED
    BY <1>19, <2>1, <2>2 DEF WorkerTake, TypeInv, TypeOK, rowVars, outVars, handlerVars, boundVars, noteVars, InitBusy, SyncBusy
<1>20. CASE WorkerRun
  <2>1. ecs' \in [TaskId -> Task]
    BY <1>20, <1>ecs, <1>worker, ConstantsAssumption DEF WorkerRun, Task, TaskState, WorkerBusy, WorkerState
  <2>2. worker' \in WorkerState /\ WorkerBusy'
    BY <1>20, <1>worker, ConstantsAssumption DEF WorkerRun, WorkerBusy, WorkerState, WorkerIdle
  <2> QED
    BY <1>20, <2>1, <2>2 DEF WorkerRun, TypeInv, TypeOK, rowVars, outVars, handlerVars, boundVars, noteVars, InitBusy, SyncBusy
<1>21. CASE WorkerFail
  <2>1. worker' \in WorkerState /\ WorkerBusy'
    BY <1>21, <1>worker, ConstantsAssumption DEF WorkerFail, WorkerBusy, WorkerState, WorkerIdle
  <2>2. faults' \in Nat
    BY <1>21, <1>faults DEF WorkerFail, Fault
  <2>3. orphans' \in SUBSET TaskId
    BY <1>21, <1>worker, <1>orphans DEF WorkerFail, WorkerState
  <2> QED
    BY <1>21, <2>1, <2>2, <2>3 DEF WorkerFail, TypeInv, TypeOK, rowVars, outVars, handlerVars, boundVars, noteVars, InitBusy, SyncBusy
<1>22. CASE WorkerRecord
  <2>1. bots' \in [Bot -> BotRow]
    <3>1. /\ worker.bot \in Bot /\ worker.new \in TaskId /\ worker.retry \in Nat
          /\ bots' = [bots EXCEPT ![worker.bot] =
                       RetriedRow(@, worker.new, worker.retry)]
      BY <1>22, <1>worker DEF WorkerRecord, WorkerBusy, WorkerState
    <3>2. RetriedRow(bots[worker.bot], worker.new, worker.retry) \in BotRow
      <4>1. bots[worker.bot] \in BotRow /\ worker.retry + 1 \in Nat
        BY <1>bots, <3>1
      <4> QED
        BY <3>1, <4>1 DEF RetriedRow, BotRow, Status
    <3> QED
      BY <1>bots, <3>1, <3>2
  <2>2. worker' \in WorkerState /\ WorkerBusy'
    BY <1>22, <1>worker, ConstantsAssumption DEF WorkerRecord, WorkerBusy, WorkerState, WorkerIdle
  <2> QED
    BY <1>22, <2>1, <2>2 DEF WorkerRecord, TypeInv, TypeOK, rowVars, outVars, handlerVars, boundVars, noteVars, InitBusy, SyncBusy
<1>23. ASSUME NEW t \in TaskId, TaskEnds(t) PROVE TypeInv'
  <2>1. ecs' \in [TaskId -> Task]
    BY <1>23, <1>ecs, ConstantsAssumption DEF TaskEnds, Task, TaskState
  <2> QED
    BY <1>23, <2>1 DEF TaskEnds, TypeInv, TypeOK, rowVars, outVars, handlerVars, boundVars, noteVars, InitBusy, SyncBusy, WorkerBusy
<1>24. CASE Crash
  <2>1. init' \in [Initiator -> InitState] /\ InitBusy'
    BY <1>24, <1>init, ConstantsAssumption DEF Crash, InitBusy, InitState, InitIdle, Status, Initiator
  <2>2. cronTodo' \in SUBSET Bot
    BY <1>24, <1>cronTodo, ConstantsAssumption DEF Crash
  <2>3. leave' \in [Bot -> LeaveState]
    BY <1>24, <1>leave DEF Crash, LeaveState, LeaveIdle, Status
  <2>4. sync' \in [Syncer -> SyncState] /\ SyncBusy'
    BY <1>24, <1>sync DEF Crash, SyncBusy, SyncState, SyncIdle
  <2>5. worker' \in WorkerState /\ WorkerBusy'
    BY <1>24, <1>worker, ConstantsAssumption DEF Crash, WorkerBusy, WorkerState, WorkerIdle
  <2>6. queue' \in Seq(Bot)
    <3>1. CASE worker.pc # "idle" /\ queue' = <<worker.bot>> \o queue
      <4>1. worker.bot \in Bot
        BY <1>worker, <3>1 DEF WorkerBusy
      <4> QED
        BY <1>queue, <3>1, <4>1
    <3> QED
      BY <1>24, <1>queue, <3>1 DEF Crash
  <2>7. crashes' \in Nat
    BY <1>24, <1>crashes DEF Crash
  <2>8. orphans' \in SUBSET TaskId
    BY <1>24, <1>init, <1>worker, <1>orphans DEF Crash, InitState, WorkerState
  <2> QED
    BY <1>24, <2>1, <2>2, <2>3, <2>4, <2>5, <2>6, <2>7, <2>8 DEF Crash, TypeInv, TypeOK, rowVars, outVars, handlerVars, boundVars, noteVars
<1>25. CASE Midnight
  <2>1. today' \in [Bot -> BOOLEAN]
    BY <1>25, <1>today DEF Midnight
  <2> QED
    BY <1>25, <2>1 DEF Midnight, TypeInv, TypeOK, rowVars, outVars, handlerVars, boundVars, noteVars, InitBusy, SyncBusy, WorkerBusy
<1>27. ASSUME NEW s \in Syncer, SyncMarkFail(s) PROVE TypeInv'
  <2>1. bots' \in [Bot -> BotRow]
    BY <1>27, <1>bots, ConstantsAssumption DEF SyncMarkFail, BotRow, Status, MarkedStatus
  <2>2. sync' \in [Syncer -> SyncState] /\ SyncBusy'
    BY <1>27, <1>sync DEF SyncMarkFail, SyncBusy, SyncState, SyncIdle
  <2>3. faults' \in Nat
    BY <1>27, <1>faults DEF SyncMarkFail, Fault
  <2> QED
    BY <1>27, <2>1, <2>2, <2>3 DEF SyncMarkFail, TypeInv, TypeOK, rowVars, outVars, handlerVars, boundVars, noteVars, InitBusy, WorkerBusy
<1>26. CASE UNCHANGED vars
  BY <1>26 DEF vars, TypeInv, TypeOK, InitBusy, SyncBusy, WorkerBusy
<1> QED
  BY <1>1, <1>2, <1>3, <1>4, <1>5, <1>6, <1>7, <1>8, <1>9, <1>10, <1>11, <1>12, <1>13, <1>14, <1>15, <1>16, <1>17, <1>18, <1>19, <1>20, <1>21, <1>22, <1>23, <1>24, <1>25, <1>26, <1>27
  DEF Next, InitiateStep, LeaveStep, SyncStep, WorkerStep

\* Nothing is at work in the beginning.
LEMMA TypeInit == Init => TypeInv
<1> SUFFICES ASSUME Init PROVE TypeInv
  OBVIOUS
<1>1. bots \in [Bot -> BotRow] /\ ecs \in [TaskId -> Task]
  BY ConstantsAssumption DEF Init, BotRow, Status, Task, TaskState
<1>2. init \in [Initiator -> InitState] /\ InitBusy
  BY DEF Init, InitState, InitIdle, Status, InitBusy
<1>3. leave \in [Bot -> LeaveState]
  BY DEF Init, LeaveState, LeaveIdle, Status
<1>4. sync \in [Syncer -> SyncState] /\ SyncBusy
  BY DEF Init, SyncState, SyncIdle, SyncBusy
<1>5. worker \in WorkerState /\ WorkerBusy
  BY DEF Init, WorkerState, WorkerIdle, WorkerBusy
<1>6. /\ queue \in Seq(Bot) /\ fileLogs \in SUBSET TaskId
      /\ due \in [Bot -> {"later", "window", "past"}]
      /\ today \in [Bot -> BOOLEAN] /\ cronTodo \in SUBSET Bot
      /\ faults \in Nat /\ crashes \in Nat
      /\ orphans \in SUBSET TaskId /\ overlapped \in SUBSET Bot
  BY DEF Init
<1> QED
  BY <1>1, <1>2, <1>3, <1>4, <1>5, <1>6 DEF TypeInv, TypeOK

\* The table, the cluster and every handler hold values of their types, and a
\* handler at work holds the bot and the tasks it goes on with.
THEOREM TypeInvariant == Spec => []TypeInv
  BY TypeInit, TypeStep, PTL DEF Spec

\* The type invariant that the runs check.
THEOREM TypeCorrect == Spec => []TypeOK
<1>1. TypeInv => TypeOK
  BY DEF TypeInv
<1> QED
  BY <1>1, TypeInvariant, PTL

-----------------------------------------------------------------------------
(* Who writes what: the actions that can change a variable.                *)

\* The update that syncTaskStatus makes of its verdict; it may be written
\* though it throws.
Marks(s) ==
    /\ SyncMark(s) \/ SyncMarkFail(s)
    /\ sync[s].pc = "mark" /\ UNCHANGED ecs
    /\ bots' = [bots EXCEPT ![sync[s].bot].status = MarkedStatus(sync[s].verdict)]

\* The actions that save a row of the table.
LEMMA WritersOfBots ==
    ASSUME [Next]_vars
    PROVE  \/ UNCHANGED bots
           \/ \E b \in Bot : CreateBot(b) \/ LeaveMark(b)
           \/ \E i \in Initiator : InitiateRecord(i)
           \/ \E s \in Syncer : Marks(s)
           \/ WorkerRecord
  BY DEF Next, InitiateStep, LeaveStep, SyncStep, WorkerStep, vars, rowVars,
         CreateCheck, CronNext, LeaveRead, LeaveStop, LeaveFail, Elapse,
         InitiateRead, InitiateRun, InitiateFail, CronFindAll, SyncFindAll,
         SyncCheck, SyncMark, SyncMarkFail, Marks, SyncEnqueue, SyncTrigger,
         WorkerTake, WorkerRun, WorkerFail, TaskEnds, Crash, Midnight

\* The actions that launch or stop a task.
LEMMA WritersOfEcs ==
    ASSUME [Next]_vars
    PROVE  \/ UNCHANGED ecs
           \/ \E b \in Bot : LeaveStop(b)
           \/ \E i \in Initiator : InitiateRun(i)
           \/ WorkerRun
           \/ \E t \in TaskId : TaskEnds(t)
  BY DEF Next, InitiateStep, LeaveStep, SyncStep, WorkerStep, vars, CreateBot,
         CreateCheck, CronNext, LeaveRead, LeaveFail, LeaveMark, Elapse,
         InitiateRead, InitiateFail, InitiateRecord, CronFindAll, SyncFindAll,
         SyncCheck, SyncMark, SyncMarkFail, SyncEnqueue, SyncTrigger, WorkerTake, WorkerFail,
         WorkerRecord, Crash, Midnight

\* The steps of the retry worker; a crash ends its job.
LEMMA WritersOfWorker ==
    ASSUME [Next]_vars
    PROVE  \/ UNCHANGED worker
           \/ WorkerTake \/ WorkerRun \/ WorkerFail \/ WorkerRecord \/ Crash
  BY DEF Next, InitiateStep, LeaveStep, SyncStep, WorkerStep, vars, boundVars, noteVars,
         handlerVars, CreateBot, CreateCheck, CronNext, LeaveRead, LeaveStop,
         LeaveFail, LeaveMark, Elapse, InitiateRead, InitiateRun, InitiateFail,
         InitiateRecord, CronFindAll, SyncFindAll, SyncCheck, SyncMark,
         SyncMarkFail, SyncEnqueue, SyncTrigger, TaskEnds, Midnight

\* The steps of initiateBot and of what calls it.
LEMMA WritersOfInit ==
    ASSUME [Next]_vars
    PROVE  \/ UNCHANGED init
           \/ \E b \in Bot : CreateBot(b) \/ CreateCheck(b) \/ CronNext(b)
           \/ \E i \in Initiator : \/ InitiateRead(i) \/ InitiateRun(i)
                                  \/ InitiateFail(i) \/ InitiateRecord(i)
           \/ Crash
  BY DEF Next, InitiateStep, LeaveStep, SyncStep, WorkerStep, vars,
         handlerVars, LeaveRead, LeaveStop, LeaveFail, LeaveMark, Elapse,
         CronFindAll, SyncFindAll, SyncCheck, SyncMark, SyncMarkFail, SyncEnqueue,
         SyncTrigger, WorkerTake, WorkerRun, WorkerFail, WorkerRecord,
         TaskEnds, Midnight

\* The steps of leaveCall.
LEMMA WritersOfLeave ==
    ASSUME [Next]_vars
    PROVE  \/ UNCHANGED leave
           \/ \E b \in Bot : LeaveStep(b)
           \/ Crash
  BY DEF Next, InitiateStep, SyncStep, WorkerStep, vars,
         handlerVars, CreateBot, CreateCheck, CronNext, Elapse, InitiateRead,
         InitiateRun, InitiateFail, InitiateRecord, CronFindAll, SyncFindAll,
         SyncCheck, SyncMark, SyncMarkFail, SyncEnqueue, SyncTrigger, WorkerTake, WorkerRun,
         WorkerFail, WorkerRecord, TaskEnds, Midnight

\* The steps of syncTaskStatus.
LEMMA WritersOfSync ==
    ASSUME [Next]_vars
    PROVE  \/ UNCHANGED sync
           \/ \E s \in Syncer : SyncStep(s)
           \/ Crash
  BY DEF Next, InitiateStep, LeaveStep, WorkerStep, vars,
         handlerVars, CreateBot, CreateCheck, CronNext, LeaveRead, LeaveStop,
         LeaveFail, LeaveMark, Elapse, InitiateRead, InitiateRun, InitiateFail,
         InitiateRecord, CronFindAll, WorkerTake, WorkerRun, WorkerFail,
         WorkerRecord, TaskEnds, Midnight

\* The handlers that can lose the record of a task.
LEMMA WritersOfOrphans ==
    ASSUME [Next]_vars
    PROVE  \/ UNCHANGED orphans
           \/ \E i \in Initiator : InitiateFail(i)
           \/ WorkerFail
           \/ Crash
  BY DEF Next, InitiateStep, LeaveStep, SyncStep, WorkerStep, vars, boundVars,
         noteVars, CreateBot, CreateCheck, CronNext, LeaveRead, LeaveStop,
         LeaveFail, LeaveMark, Elapse, InitiateRead, InitiateRun,
         InitiateRecord, CronFindAll, SyncFindAll, SyncCheck, SyncMark,
         SyncMarkFail, SyncEnqueue, SyncTrigger, WorkerTake, WorkerRun,
         WorkerRecord, TaskEnds, Midnight

\* What was lost stays lost.
LEMMA OrphansGrow == [Next]_vars => orphans \subseteq orphans'
  BY WritersOfOrphans DEF InitiateFail, WorkerFail, Crash

-----------------------------------------------------------------------------
(* The row and its task.  RowNamesOwnTask needs to know what the handlers  *)
(* hold: whoever is about to write an ended or started status works on a   *)
(* bot that has a task already, and a task id in the hands of a handler is *)
(* that of a task launched for its bot.                                    *)

Launched(b) == bots[b].status \notin {"ABSENT", "PENDING"}

UsedTasks == \A t \in TaskId : ecs[t].bot \in Bot => ecs[t].state # "unused"

InitHolds ==
    \A i \in Initiator :
        /\ init[i].pc = "record" => ecs[init[i].task].bot = init[i].bot
        /\ init[i].pc \in {"run", "record"} /\ init[i].was = "STARTED"
              => Launched(init[i].bot)

LeaveHolds ==
    \A b \in Bot :
        /\ leave[b].pc = "mark" => leave[b].task # None
        /\ leave[b].pc # "idle" /\ leave[b].task # None => Launched(b)

SyncHolds ==
    \A s \in Syncer :
        /\ \A p \in sync[s].todo : Launched(p[1])
        /\ sync[s].pc # "idle" => Launched(sync[s].bot)

WorkerHolds ==
    /\ worker.pc # "idle" => Launched(worker.bot)
    /\ worker.pc = "record" => ecs[worker.new].bot = worker.bot

RowInv == /\ RowNamesOwnTask /\ UsedTasks
          /\ InitHolds /\ LeaveHolds /\ SyncHolds /\ WorkerHolds

\* No tasks, and rows in PENDING only, in the beginning.
LEMMA RowInit == Init => RowInv
<1> SUFFICES ASSUME Init PROVE RowInv
  OBVIOUS
<1>1. RowNamesOwnTask /\ UsedTasks
  BY ConstantsAssumption DEF Init, RowNamesOwnTask, UsedTasks
<1>2. InitHolds /\ LeaveHolds /\ SyncHolds /\ WorkerHolds
  BY DEF Init, InitHolds, LeaveHolds, SyncHolds, WorkerHolds, InitIdle, LeaveIdle,
         SyncIdle, WorkerIdle
<1> QED
  BY <1>1, <1>2 DEF RowInv

\* A launched task stays with its bot.
LEMMA TaskKeepsBot ==
    ASSUME TypeInv, RowInv, [Next]_vars, NEW t \in TaskId, ecs[t].bot \in Bot
    PROVE  ecs'[t].bot = ecs[t].bot
<1>t. ecs \in [TaskId -> Task] /\ ecs[t].state # "unused"
  BY DEF TypeInv, TypeOK, RowInv, UsedTasks
<1>1. ASSUME NEW c \in Bot, LeaveStop(c) PROVE ecs'[t].bot = ecs[t].bot
  BY <1>1, <1>t DEF LeaveStop, Task
<1>2. ASSUME NEW i \in Initiator, InitiateRun(i) PROVE ecs'[t].bot = ecs[t].bot
  BY <1>2, <1>t DEF InitiateRun
<1>3. ASSUME NEW u \in TaskId, TaskEnds(u) PROVE ecs'[t].bot = ecs[t].bot
  BY <1>3, <1>t DEF TaskEnds, Task
<1>4. CASE WorkerRun
  BY <1>4, <1>t DEF WorkerRun
<1> QED
  BY <1>1, <1>2, <1>3, <1>4, WritersOfEcs

\* A launch takes an unused task, so a used one stays used.
LEMMA UsedStep == ASSUME TypeInv, RowInv, [Next]_vars PROVE UsedTasks'
<1>t. ecs \in [TaskId -> Task] /\ UsedTasks
  BY DEF TypeInv, TypeOK, RowInv
<1>1. ASSUME NEW c \in Bot, LeaveStop(c) PROVE UsedTasks'
  BY <1>1, <1>t DEF LeaveStop, Task, UsedTasks
<1>2. ASSUME NEW i \in Initiator, InitiateRun(i) PROVE UsedTasks'
  BY <1>2, <1>t DEF InitiateRun, UsedTasks
<1>3. ASSUME NEW u \in TaskId, TaskEnds(u) PROVE UsedTasks'
  BY <1>3, <1>t DEF TaskEnds, Task, UsedTasks
<1>4. CASE WorkerRun
  BY <1>4, <1>t DEF WorkerRun, UsedTasks
<1>5. CASE UNCHANGED ecs
  BY <1>5, <1>t DEF UsedTasks
<1> QED
  BY <1>1, <1>2, <1>3, <1>4, <1>5, WritersOfEcs

\* What the writers of the table do to one row, given what they hold: a row
\* that has a task keeps one of its own, and a row never gets back to PENDING.
LEMMA RowsStep ==
    ASSUME TypeInv, RowInv, [Next]_vars, NEW b \in Bot
    PROVE  /\ Launched(b) => Launched(b)'
           /\ \/ UNCHANGED bots[b].taskId /\ (Launched(b) <=> Launched(b)')
              \/ /\ Launched(b)' /\ bots'[b].taskId \in TaskId
                 /\ ecs[bots'[b].taskId].bot = b
<1> DEFINE Goal ==
      /\ Launched(b) => Launched(b)'
      /\ \/ UNCHANGED bots[b].taskId /\ (Launched(b) <=> Launched(b)')
         \/ /\ Launched(b)' /\ bots'[b].taskId \in TaskId
            /\ ecs[bots'[b].taskId].bot = b
<1>t. /\ bots \in [Bot -> BotRow] /\ init \in [Initiator -> InitState]
      /\ worker \in WorkerState
      /\ InitBusy /\ SyncBusy /\ WorkerBusy
      /\ RowNamesOwnTask /\ InitHolds /\ LeaveHolds /\ SyncHolds /\ WorkerHolds
  BY DEF TypeInv, TypeOK, RowInv
<1>1. ASSUME NEW c \in Bot, CreateBot(c) PROVE Goal
  BY <1>1, <1>t DEF CreateBot, BotRow, Launched
<1>2. ASSUME NEW c \in Bot, LeaveMark(c) PROVE Goal
  <2>1. Launched(c)
    BY <1>2, <1>t DEF LeaveMark, LeaveHolds
  <2> QED
    BY <1>2, <1>t, <2>1 DEF LeaveMark, BotRow, Launched
<1>3. ASSUME NEW i \in Initiator, InitiateRecord(i) PROVE Goal
  <2>1. /\ init[i].bot \in Bot /\ init[i].task \in TaskId
        /\ ecs[init[i].task].bot = init[i].bot
        /\ init[i].was = "STARTED" => Launched(init[i].bot)
        /\ bots' = [bots EXCEPT ![init[i].bot] =
                      StartedRow(@, init[i].task, init[i].was)]
    BY <1>3, <1>t DEF InitiateRecord, InitBusy, InitHolds
  <2>2. CASE b = init[i].bot
    <3>1. bots'[b] = StartedRow(bots[b], init[i].task, init[i].was)
      BY <2>1, <2>2, <1>t
    <3>2. bots'[b].taskId = init[i].task /\ Launched(b)'
      BY <3>1, <2>1, <2>2, <1>t DEF StartedRow, BotRow, Launched
    <3> QED
      BY <3>2, <2>1, <2>2
  <2>3. CASE b # init[i].bot
    BY <2>1, <2>3, <1>t DEF Launched
  <2> QED
    BY <2>2, <2>3
<1>4. ASSUME NEW s \in Syncer, Marks(s) PROVE Goal
  <2>1. sync[s].bot \in Bot /\ Launched(sync[s].bot)
    BY <1>4, <1>t DEF Marks, SyncBusy, SyncHolds
  <2> QED
    BY <1>4, <2>1, <1>t DEF Marks, MarkedStatus, BotRow, Launched
<1>6. CASE WorkerRecord
  <2>1. /\ worker.bot \in Bot /\ worker.new \in TaskId
        /\ ecs[worker.new].bot = worker.bot
        /\ bots' = [bots EXCEPT ![worker.bot] =
                      RetriedRow(@, worker.new, worker.retry)]
    BY <1>6, <1>t DEF WorkerRecord, WorkerBusy, WorkerHolds
  <2>2. CASE b = worker.bot
    <3>1. bots'[b] = RetriedRow(bots[b], worker.new, worker.retry)
      BY <2>1, <2>2, <1>t
    <3>2. bots'[b].taskId = worker.new /\ Launched(b)'
      BY <3>1, <2>1, <2>2, <1>t DEF RetriedRow, BotRow, Launched
    <3> QED
      BY <3>2, <2>1, <2>2
  <2>3. CASE b # worker.bot
    BY <2>1, <2>3, <1>t DEF Launched
  <2> QED
    BY <2>2, <2>3
<1>7. CASE UNCHANGED bots
  BY <1>7 DEF Launched
<1> QED
  BY <1>1, <1>2, <1>3, <1>4, <1>6, <1>7, WritersOfBots

\* A row names a launched task of its bot after the step too.
LEMMA NamesStep ==
    ASSUME TypeInv, TypeInv', RowInv, [Next]_vars
    PROVE  RowNamesOwnTask'
<1> SUFFICES ASSUME NEW b \in Bot
             PROVE  /\ (bots[b].taskId = None <=> ~Launched(b))'
                    /\ (bots[b].taskId # None => bots[b].taskId \in Launches(b))'
  BY DEF RowNamesOwnTask, Launched
<1>t. /\ bots[b] \in BotRow /\ bots'[b] \in BotRow
      /\ bots[b].taskId = None <=> ~Launched(b)
      /\ bots[b].taskId # None => bots[b].taskId \in Launches(b)
  BY DEF TypeInv, TypeOK, RowInv, RowNamesOwnTask, Launched
<1>1. CASE UNCHANGED bots[b].taskId /\ (Launched(b) <=> Launched(b)')
  BY <1>1, <1>t, TaskKeepsBot DEF Launches
<1>2. CASE /\ Launched(b)' /\ bots'[b].taskId \in TaskId
           /\ ecs[bots'[b].taskId].bot = b
  BY <1>2, <1>t, TaskKeepsBot, ConstantsAssumption DEF Launches
<1> QED
  BY <1>1, <1>2, RowsStep

\* What initiateBot holds stays true while others write.
LEMMA InitHoldsStep ==
    ASSUME TypeInv, TypeInv', RowInv, [Next]_vars PROVE InitHolds'
<1> SUFFICES ASSUME NEW i \in Initiator
             PROVE  /\ (init[i].pc = "record" => ecs[init[i].task].bot = init[i].bot)'
                    /\ (init[i].pc \in {"run", "record"} /\ init[i].was = "STARTED"
                           => Launched(init[i].bot))'
  BY DEF InitHolds
<1> DEFINE Same == init'[i] = init[i] \/ init'[i].pc \notin {"run", "record"}
<1>t. /\ init \in [Initiator -> InitState] /\ InitBusy /\ InitHolds
      /\ ecs \in [TaskId -> Task] /\ bots \in [Bot -> BotRow]
  BY DEF TypeInv, TypeOK, RowInv
<1>1. CASE Same
  BY <1>1, <1>t, RowsStep, TaskKeepsBot DEF InitHolds, InitBusy
<1>2. ASSUME NEW b \in Bot, CreateBot(b) \/ CreateCheck(b) \/ CronNext(b) PROVE Same
  <2>1. CASE CreateBot(b)
    BY <2>1, <1>t DEF CreateBot, InitIdle, Initiator
  <2>2. CASE CreateCheck(b)
    BY <2>2, <1>t DEF CreateCheck, InitIdle, InitState, Initiator
  <2>3. CASE CronNext(b)
    BY <2>3, <1>t DEF CronNext, InitIdle, Initiator
  <2> QED
    BY <1>2, <2>1, <2>2, <2>3
<1>3. ASSUME NEW j \in Initiator, InitiateRead(j), ~Same
      PROVE  /\ init'[i].pc = "run" /\ init'[i].bot = init[i].bot
             /\ init[i].bot \in Bot
             /\ init'[i].was = "STARTED" => Launched(init[i].bot)
  BY <1>3, <1>t DEF InitiateRead, InitBusy, InitState, Launched
<1>4. ASSUME NEW j \in Initiator, InitiateRun(j), ~Same
      PROVE  /\ init'[i].pc = "record" /\ init'[i].bot = init[i].bot
             /\ init[i].bot \in Bot
             /\ init'[i].was = "STARTED" => Launched(init[i].bot)
             /\ ecs'[init'[i].task].bot = init[i].bot
  <2>1. PICK t \in TaskId :
           /\ ecs' = [ecs EXCEPT ![t] = [state |-> "running",
                                         bot |-> init[j].bot, key |-> t]]
           /\ init' = [init EXCEPT ![j].pc = "record", ![j].task = t]
    BY <1>4 DEF InitiateRun
  <2>2. i = j /\ init[j].pc = "run"
    BY <1>4, <2>1, <1>t DEF InitiateRun
  <2>3. /\ init'[i].pc = "record" /\ init'[i].bot = init[i].bot
        /\ init'[i].was = init[i].was /\ init'[i].task = t
    BY <2>1, <2>2, <1>t DEF InitState
  <2>4. ecs'[t].bot = init[i].bot
    BY <2>1, <2>2, <1>t
  <2> QED
    BY <2>2, <2>3, <2>4, <1>t DEF InitBusy, InitHolds
<1>5. ASSUME NEW j \in Initiator, InitiateFail(j) \/ InitiateRecord(j) PROVE Same
  BY <1>5, <1>t DEF InitiateFail, InitiateRecord, InitIdle
<1>6. ASSUME Crash PROVE Same
  BY <1>6 DEF Crash, InitIdle
<1>7. CASE UNCHANGED init
  BY <1>7, <1>1
<1> HIDE DEF Same
<1>8. CASE ~Same /\ \E j \in Initiator : InitiateRead(j)
  BY <1>8, <1>3, RowsStep
<1>9. CASE ~Same /\ \E j \in Initiator : InitiateRun(j)
  BY <1>9, <1>4, RowsStep
<1> QED
  BY <1>1, <1>2, <1>5, <1>6, <1>7, <1>8, <1>9, WritersOfInit

\* What leaveCall holds stays true while others write.
LEMMA LeaveHoldsStep ==
    ASSUME TypeInv, RowInv, [Next]_vars PROVE LeaveHolds'
<1> SUFFICES ASSUME NEW b \in Bot
             PROVE  /\ (leave[b].pc = "mark" => leave[b].task # None)'
                    /\ (leave[b].pc # "idle" /\ leave[b].task # None
                           => Launched(b))'
  BY DEF LeaveHolds
<1>t. /\ leave \in [Bot -> LeaveState] /\ LeaveHolds
      /\ RowNamesOwnTask /\ (Launched(b) => Launched(b)')
  BY RowsStep DEF TypeInv, TypeOK, RowInv
<1>1. CASE leave'[b] = leave[b]
  BY <1>1, <1>t DEF LeaveHolds
<1>2. CASE leave'[b] = LeaveIdle
  BY <1>2 DEF LeaveIdle
<1>3. ASSUME NEW c \in Bot, LeaveRead(c), c = b
      PROVE  /\ leave'[b].pc = "stop"
             /\ leave'[b].task # None => Launched(b)
  BY <1>3, <1>t DEF LeaveRead, RowNamesOwnTask, Launched
<1>4. ASSUME NEW c \in Bot, LeaveStop(c), c = b
      PROVE  leave'[b].task # None /\ Launched(b)
  BY <1>4, <1>t DEF LeaveStop, LeaveHolds, LeaveState
<1>5. ASSUME NEW c \in Bot, LeaveFail(c) \/ LeaveMark(c)
      PROVE  leave'[b] = leave[b] \/ leave'[b] = LeaveIdle
  BY <1>5, <1>t DEF LeaveFail, LeaveMark
<1>6. ASSUME NEW c \in Bot, LeaveRead(c) \/ LeaveStop(c), c # b
      PROVE  leave'[b] = leave[b]
  BY <1>6, <1>t DEF LeaveRead, LeaveStop
<1>7. ASSUME Crash PROVE leave'[b] = LeaveIdle
  BY <1>7 DEF Crash
<1>8. CASE \E c \in Bot : LeaveStep(c)
  <2> PICK c \in Bot : LeaveStep(c)
    BY <1>8
  <2> QED
    BY <1>1, <1>2, <1>3, <1>4, <1>5, <1>6, <1>t DEF LeaveStep
<1> QED
  BY <1>1, <1>2, <1>7, <1>8, WritersOfLeave

\* What syncTaskStatus holds stays true while others write.
LEMMA SyncHoldsStep ==
    ASSUME TypeInv, RowInv, [Next]_vars PROVE SyncHolds'
<1> SUFFICES ASSUME NEW s \in Syncer
             PROVE  /\ \A p \in sync'[s].todo : Launched(p[1])'
                    /\ (sync[s].pc # "idle" => Launched(sync[s].bot))'
  BY DEF SyncHolds
<1>t. /\ sync \in [Syncer -> SyncState] /\ SyncHolds /\ SyncBusy
      /\ \A b \in Bot : Launched(b) => Launched(b)'
  BY RowsStep DEF TypeInv, TypeOK, RowInv
<1>p. \A p \in sync[s].todo : p[1] \in Bot
  BY <1>t DEF SyncState
<1>1. CASE sync'[s] = sync[s]
  BY <1>1, <1>t, <1>p DEF SyncHolds, SyncBusy
<1>2. ASSUME NEW r \in Syncer, SyncFindAll(r), r = s
      PROVE  /\ sync'[s].pc = "idle"
             /\ \A p \in sync'[s].todo : p[1] \in Bot /\ Launched(p[1])
  BY <1>2, <1>t DEF SyncFindAll, ToSync, SyncState, Launched
<1>3. ASSUME NEW r \in Syncer, SyncCheck(r), r = s
      PROVE  /\ sync'[s].todo \subseteq sync[s].todo
             /\ sync'[s].pc # "idle" => \E p \in sync[s].todo : sync'[s].bot = p[1]
  BY <1>3, <1>t DEF SyncCheck, SyncState
<1>4. ASSUME NEW r \in Syncer, r = s,
             SyncMark(r) \/ SyncMarkFail(r) \/ SyncEnqueue(r) \/ SyncTrigger(r)
      PROVE  /\ sync'[s].todo \subseteq sync[s].todo
             /\ sync'[s].pc # "idle" => sync'[s].bot = sync[s].bot
             /\ sync[s].pc # "idle"
  BY <1>4, <1>t DEF SyncMark, SyncMarkFail, SyncEnqueue, SyncTrigger, AfterMark,
     SyncIdle, SyncState
<1>5. ASSUME NEW r \in Syncer, SyncStep(r), r # s PROVE sync'[s] = sync[s]
  BY <1>5, <1>t DEF SyncStep, SyncFindAll, SyncCheck, SyncMark, SyncMarkFail, SyncEnqueue, SyncTrigger
<1>6. CASE Crash
  BY <1>6 DEF Crash, SyncIdle
<1>7. CASE \E r \in Syncer : SyncStep(r)
  <2> PICK r \in Syncer : SyncStep(r)
    BY <1>7
  <2>1. CASE r = s /\ SyncFindAll(r)
    BY <2>1, <1>2, <1>t
  <2>2. CASE r = s /\ SyncCheck(r)
    BY <2>2, <1>3, <1>t, <1>p DEF SyncHolds
  <2>3. CASE r = s /\ (\/ SyncMark(r) \/ SyncMarkFail(r)
                       \/ SyncEnqueue(r) \/ SyncTrigger(r))
    BY <2>3, <1>4, <1>t, <1>p DEF SyncHolds, SyncBusy
  <2> QED
    BY <2>1, <2>2, <2>3, <1>1, <1>5 DEF SyncStep
<1> QED
  BY <1>1, <1>6, <1>7, WritersOfSync

\* What the retry worker holds stays true while others write.
LEMMA WorkerHoldsStep ==
    ASSUME TypeInv, RowInv, [Next]_vars PROVE WorkerHolds'
<1>t. /\ worker \in WorkerState /\ WorkerHolds /\ WorkerBusy
      /\ queue \in Seq(Bot) /\ ecs \in [TaskId -> Task]
      /\ \A b \in Bot : Launched(b) => Launched(b)'
  BY RowsStep DEF TypeInv, TypeOK, RowInv
<1>1. CASE UNCHANGED worker
  BY <1>1, <1>t, TaskKeepsBot DEF WorkerHolds, WorkerBusy
<1>2. CASE WorkerTake
  <2>1. CASE worker' = WorkerIdle
    BY <2>1 DEF WorkerHolds, WorkerIdle
  <2>2. CASE worker' # WorkerIdle
    <3>1. /\ worker'.pc = "run" /\ worker'.bot = Head(queue)
          /\ Retryable(bots[Head(queue)]) /\ Head(queue) \in Bot
      BY <1>2, <2>2, <1>t DEF WorkerTake
    <3>2. Launched(Head(queue))
      BY <3>1 DEF Retryable, Launched
    <3> QED
      BY <3>1, <3>2, <1>t DEF WorkerHolds
  <2> QED
    BY <2>1, <2>2
<1>3. CASE WorkerRun
  <2>1. PICK t \in TaskId :
           /\ ecs' = [ecs EXCEPT ![t] = [state |-> "running", bot |-> worker.bot,
                                         key   |-> ecs[worker.task].key]]
           /\ worker' = [worker EXCEPT !.pc = "record", !.new = t]
    BY <1>3 DEF WorkerRun
  <2>2. worker.pc = "run" /\ worker'.bot = worker.bot /\ worker'.new = t
    BY <1>3, <2>1, <1>t DEF WorkerRun, WorkerState
  <2>3. ecs'[t].bot = worker.bot
    BY <2>1, <1>t
  <2> QED
    BY <2>2, <2>3, <1>t DEF WorkerHolds, WorkerBusy
<1>4. CASE WorkerFail \/ WorkerRecord \/ Crash
  BY <1>4 DEF WorkerFail, WorkerRecord, Crash, WorkerHolds, WorkerIdle
<1> QED
  BY <1>1, <1>2, <1>3, <1>4, WritersOfWorker

\* Whatever order the handlers write in, a row that has left PENDING names a
\* task that was launched for it.
THEOREM RowNamesOwnTaskCorrect == Spec => []RowNamesOwnTask
<1>1. Init => TypeInv /\ RowInv
  BY TypeInit, RowInit
<1>2. TypeInv /\ RowInv /\ [Next]_vars => (TypeInv /\ RowInv)'
  <2> SUFFICES ASSUME TypeInv, RowInv, [Next]_vars PROVE (TypeInv /\ RowInv)'
    OBVIOUS
  <2>1. TypeInv'
    BY TypeStep
  <2> QED
    BY <2>1, NamesStep, UsedStep, InitHoldsStep, LeaveHoldsStep, SyncHoldsStep,
       WorkerHoldsStep DEF RowInv
<1>3. RowInv => RowNamesOwnTask
  BY DEF RowInv
<1> QED
  BY <1>1, <1>2, <1>3, PTL DEF Spec

-----------------------------------------------------------------------------
(* What the handlers hold, continued: a create request works on the bot it *)
(* has inserted, the scheduled job starts a bot of its list once, and the  *)
(* task ids that were read from a row are those of tasks of its bot.       *)

Created ==
    \A b \in Bot :
        init[b].pc # "idle" => init[b].bot = b /\ bots[b].status # "ABSENT"

CronOnce == init[Cron].pc # "idle" => init[Cron].bot \notin cronTodo

LeaveOwn ==
    \A b \in Bot : leave[b].pc # "idle" /\ leave[b].task # None
                      => ecs[leave[b].task].bot = b

SyncOwn == \A s \in Syncer : \A p \in sync[s].todo : ecs[p[2]].bot = p[1]

WorkerOwn ==
    worker.pc # "idle" => ProcessorRegistered /\ ecs[worker.task].bot = worker.bot

HeldInv == Created /\ CronOnce /\ LeaveOwn /\ SyncOwn /\ WorkerOwn

\* A row is never deleted.
LEMMA StaysCreated ==
    ASSUME TypeInv, [Next]_vars, NEW b \in Bot, bots[b].status # "ABSENT"
    PROVE  bots'[b].status # "ABSENT"
<1>t. bots \in [Bot -> BotRow]
  BY DEF TypeInv, TypeOK
<1>1. ASSUME NEW c \in Bot, CreateBot(c) \/ LeaveMark(c)
      PROVE  bots'[b].status # "ABSENT"
  BY <1>1, <1>t DEF CreateBot, LeaveMark, BotRow
<1>2. ASSUME NEW i \in Initiator, InitiateRecord(i)
      PROVE  bots'[b].status # "ABSENT"
  BY <1>2, <1>t DEF InitiateRecord, StartedRow, BotRow
<1>3. ASSUME NEW s \in Syncer, Marks(s)
      PROVE  bots'[b].status # "ABSENT"
  BY <1>3, <1>t DEF Marks, MarkedStatus, BotRow
<1>4. CASE WorkerRecord
  BY <1>4, <1>t DEF WorkerRecord, RetriedRow, BotRow
<1>5. CASE UNCHANGED bots
  BY <1>5
<1> QED
  BY <1>1, <1>2, <1>3, <1>4, <1>5, WritersOfBots

\* What a step does to one run of initiateBot: it begins, with the bot of its
\* create request or with one taken from the list, it goes on, or it ends.
LEMMA InitMoves ==
    ASSUME TypeInv, [Next]_vars, NEW i \in Initiator
    PROVE  \/ init'[i] = init[i] \/ init'[i] = InitIdle
           \/ /\ i \in Bot /\ init'[i].pc = "inserted" /\ init'[i].bot = i
              /\ CreateBot(i)
           \/ /\ i = Cron /\ init'[i].pc = "read" /\ init[i].pc = "idle"
              /\ CronNext(init'[i].bot) /\ init'[i].bot \in Bot
           \/ /\ init[i].pc = "inserted" /\ init'[i].pc = "read"
              /\ init'[i].bot = init[i].bot /\ i \in Bot /\ CreateCheck(i)
           \/ /\ init[i].pc = "read" /\ init'[i].pc = "run"
              /\ init'[i].bot = init[i].bot /\ InitiateRead(i)
           \/ /\ init[i].pc = "run" /\ init'[i].pc = "record"
              /\ init'[i].bot = init[i].bot /\ InitiateRun(i)
<1> DEFINE Goal ==
      \/ init'[i] = init[i] \/ init'[i] = InitIdle
      \/ /\ i \in Bot /\ init'[i].pc = "inserted" /\ init'[i].bot = i
         /\ CreateBot(i)
      \/ /\ i = Cron /\ init'[i].pc = "read" /\ init[i].pc = "idle"
         /\ CronNext(init'[i].bot) /\ init'[i].bot \in Bot
      \/ /\ init[i].pc = "inserted" /\ init'[i].pc = "read"
         /\ init'[i].bot = init[i].bot /\ i \in Bot /\ CreateCheck(i)
      \/ /\ init[i].pc = "read" /\ init'[i].pc = "run"
         /\ init'[i].bot = init[i].bot /\ InitiateRead(i)
      \/ /\ init[i].pc = "run" /\ init'[i].pc = "record"
         /\ init'[i].bot = init[i].bot /\ InitiateRun(i)
<1>t. init \in [Initiator -> InitState] /\ Initiator = Bot \cup {Cron}
  BY DEF TypeInv, TypeOK, Initiator
<1>1. ASSUME NEW b \in Bot, CreateBot(b) PROVE Goal
  <2>1. init' = [init EXCEPT ![b] = [InitIdle EXCEPT !.pc = "inserted", !.bot = b]]
    BY <1>1 DEF CreateBot
  <2>2. CASE i = b
    BY <2>1, <2>2, <1>1, <1>t DEF InitIdle
  <2> QED
    BY <2>1, <2>2, <1>t
<1>2. ASSUME NEW b \in Bot, CreateCheck(b) PROVE Goal
  <2>1. /\ init[b].pc = "inserted"
        /\ i # b => init'[i] = init[i]
        /\ init'[b] \in {[init[b] EXCEPT !.pc = "read"], InitIdle}
    BY <1>2, <1>t DEF CreateCheck
  <2>2. [init[b] EXCEPT !.pc = "read"].pc = "read"
        /\ [init[b] EXCEPT !.pc = "read"].bot = init[b].bot
    BY <1>t DEF InitState
  <2> QED
    BY <2>1, <2>2, <1>2
<1>3. ASSUME NEW b \in Bot, CronNext(b) PROVE Goal
  <2>1. /\ init[Cron].pc = "idle"
        /\ init' = [init EXCEPT ![Cron] = [InitIdle EXCEPT !.pc = "read", !.bot = b]]
    BY <1>3 DEF CronNext
  <2>2. CASE i = Cron
    BY <2>1, <2>2, <1>3, <1>t DEF InitIdle
  <2> QED
    BY <2>1, <2>2, <1>t
<1>4. ASSUME NEW j \in Initiator, InitiateRead(j) PROVE Goal
  <2>1. /\ init[j].pc = "read"
        /\ i # j => init'[i] = init[i]
        /\ init'[j].pc = "run" /\ init'[j].bot = init[j].bot
    BY <1>4, <1>t DEF InitiateRead, InitState
  <2>2. CASE i # j
    BY <2>1, <2>2
  <2>3. CASE i = j
    <3>1. InitiateRead(i)
      BY <1>4, <2>3
    <3>2. init[i].pc = "read" /\ init'[i].pc = "run" /\ init'[i].bot = init[i].bot
      BY <2>1, <2>3
    <3> QED
      BY <3>1, <3>2
  <2> QED
    BY <2>2, <2>3
<1>5. ASSUME NEW j \in Initiator, InitiateRun(j) PROVE Goal
  <2>1. PICK t \in TaskId :
           init' = [init EXCEPT ![j].pc = "record", ![j].task = t]
    BY <1>5 DEF InitiateRun
  <2>2. /\ init[j].pc = "run"
        /\ i # j => init'[i] = init[i]
        /\ init'[j].pc = "record" /\ init'[j].bot = init[j].bot
    BY <1>5, <2>1, <1>t DEF InitiateRun, InitState
  <2>3. CASE i # j
    BY <2>2, <2>3
  <2>4. CASE i = j
    <3>1. InitiateRun(i)
      BY <1>5, <2>4
    <3>2. init[i].pc = "run" /\ init'[i].pc = "record" /\ init'[i].bot = init[i].bot
      BY <2>2, <2>4
    <3> QED
      BY <3>1, <3>2
  <2> QED
    BY <2>3, <2>4
<1>6. ASSUME NEW j \in Initiator, InitiateFail(j) \/ InitiateRecord(j) PROVE Goal
  BY <1>6, <1>t DEF InitiateFail, InitiateRecord
<1>7. CASE Crash
  BY <1>7 DEF Crash
<1>8. CASE UNCHANGED init
  BY <1>8
<1> QED
  BY <1>1, <1>2, <1>3, <1>4, <1>5, <1>6, <1>7, <1>8, WritersOfInit

\* A create request begins with its row and keeps it.
LEMMA CreatedStep == ASSUME TypeInv, HeldInv, [Next]_vars PROVE Created'
<1> SUFFICES ASSUME NEW b \in Bot, init'[b].pc # "idle"
             PROVE  init'[b].bot = b /\ bots'[b].status # "ABSENT"
  BY DEF Created
<1>t. Created /\ b \in Initiator /\ b # Cron /\ bots \in [Bot -> BotRow]
  BY ConstantsAssumption DEF HeldInv, Initiator, TypeInv, TypeOK
<1>1. CASE CreateBot(b) /\ init'[b].bot = b
  BY <1>1, <1>t DEF CreateBot, BotRow
<1>2. CASE init[b].pc # "idle" /\ init'[b].bot = init[b].bot
  BY <1>2, <1>t, StaysCreated DEF Created
<1> QED
  BY <1>1, <1>2, <1>t, InitMoves DEF InitIdle

\* The steps that change the list of the scheduled job.
LEMMA CronTodoMoves ==
    ASSUME [Next]_vars
    PROVE  \/ cronTodo' \subseteq cronTodo
           \/ CronFindAll
  BY DEF Next, InitiateStep, LeaveStep, SyncStep, WorkerStep, vars, handlerVars,
         CreateBot, CreateCheck, CronNext, LeaveRead, LeaveStop, LeaveFail, LeaveMark,
         Elapse, InitiateRead, InitiateRun, InitiateFail, InitiateRecord, SyncFindAll,
         SyncCheck, SyncMark, SyncMarkFail, SyncEnqueue, SyncTrigger, WorkerTake, WorkerRun,
         WorkerFail, WorkerRecord, TaskEnds, Crash, Midnight

\* A bot at work is off the list: the query waits for the loop to end.
LEMMA CronOnceStep == ASSUME TypeInv, HeldInv, [Next]_vars PROVE CronOnce'
<1> SUFFICES ASSUME init'[Cron].pc # "idle" PROVE init'[Cron].bot \notin cronTodo'
  BY DEF CronOnce
<1>t. CronOnce /\ Cron \in Initiator /\ Cron \notin Bot
  BY ConstantsAssumption DEF HeldInv, Initiator
<1>1. CASE CronFindAll
  BY <1>1 DEF CronFindAll
<1>2. CASE cronTodo' \subseteq cronTodo /\ init[Cron].pc # "idle"
           /\ init'[Cron].bot = init[Cron].bot
  BY <1>2, <1>t DEF CronOnce
<1>3. CASE CronNext(init'[Cron].bot)
  BY <1>3 DEF CronNext
<1> QED
  BY <1>1, <1>2, <1>3, <1>t, InitMoves, CronTodoMoves DEF InitIdle

\* leaveCall reads a task id from a row, which names a task of its own.
LEMMA LeaveOwnStep ==
    ASSUME TypeInv, RowInv, HeldInv, [Next]_vars PROVE LeaveOwn'
<1> SUFFICES ASSUME NEW b \in Bot, leave'[b].pc # "idle", leave'[b].task # None
             PROVE  ecs'[leave'[b].task].bot = b
  BY DEF LeaveOwn
<1>t. /\ leave \in [Bot -> LeaveState] /\ LeaveOwn /\ RowNamesOwnTask
      /\ bots \in [Bot -> BotRow]
  BY DEF TypeInv, TypeOK, RowInv, HeldInv
<1>1. CASE leave[b].pc # "idle" /\ leave'[b].task = leave[b].task
  BY <1>1, <1>t, TaskKeepsBot DEF LeaveOwn, LeaveState
<1>2. CASE LeaveRead(b)
  <2>1. leave'[b].task = bots[b].taskId /\ bots[b].taskId \in Launches(b)
    BY <1>2, <1>t DEF LeaveRead, RowNamesOwnTask
  <2> QED
    BY <2>1, TaskKeepsBot DEF Launches
<1>3. CASE leave'[b] = LeaveIdle
  BY <1>3 DEF LeaveIdle
<1>4. ASSUME NEW c \in Bot, LeaveStep(c), c # b PROVE leave'[b] = leave[b]
  BY <1>4, <1>t DEF LeaveStep, LeaveRead, LeaveStop, LeaveFail, LeaveMark
<1>5. ASSUME LeaveStop(b)
      PROVE  leave[b].pc # "idle" /\ leave'[b].task = leave[b].task
  BY <1>5, <1>t DEF LeaveStop, LeaveState
<1>6. ASSUME LeaveFail(b) \/ LeaveMark(b) PROVE leave'[b] = LeaveIdle
  BY <1>6, <1>t DEF LeaveFail, LeaveMark
<1>7. ASSUME Crash PROVE leave'[b] = LeaveIdle
  BY <1>7 DEF Crash
<1>8. CASE leave'[b] = leave[b]
  BY <1>8, <1>1
<1>9. CASE \E c \in Bot : LeaveStep(c)
  <2> PICK c \in Bot : LeaveStep(c)
    BY <1>9
  <2> QED
    BY <1>1, <1>2, <1>3, <1>4, <1>5, <1>6, <1>8 DEF LeaveStep
<1> QED
  BY <1>3, <1>7, <1>8, <1>9, WritersOfLeave

\* The list of syncTaskStatus pairs bots with tasks of their own.
LEMMA SyncOwnStep ==
    ASSUME TypeInv, RowInv, HeldInv, [Next]_vars PROVE SyncOwn'
<1> SUFFICES ASSUME NEW s \in Syncer, NEW p \in sync'[s].todo
             PROVE  ecs'[p[2]].bot = p[1]
  BY DEF SyncOwn
<1>t. /\ sync \in [Syncer -> SyncState] /\ SyncOwn /\ RowNamesOwnTask
  BY DEF TypeInv, TypeOK, RowInv, HeldInv
<1>1. CASE p \in sync[s].todo
  <2>1. p[1] \in Bot /\ p[2] \in TaskId /\ ecs[p[2]].bot = p[1]
    BY <1>1, <1>t DEF SyncState, SyncOwn
  <2> QED
    BY <2>1, TaskKeepsBot
<1>2. CASE SyncFindAll(s)
  <2>1. p \in ToSync
    BY <1>2, <1>t DEF SyncFindAll, SyncState
  <2>2. p[1] \in Bot /\ p[2] \in TaskId /\ bots[p[1]].taskId = p[2]
    BY <2>1 DEF ToSync
  <2>3. p[2] \in Launches(p[1])
    BY <2>2, <1>t, ConstantsAssumption DEF RowNamesOwnTask
  <2> QED
    BY <2>2, <2>3, TaskKeepsBot DEF Launches
<1>3. ASSUME NEW r \in Syncer, SyncStep(r), r # s PROVE sync'[s] = sync[s]
  BY <1>3, <1>t DEF SyncStep, SyncFindAll, SyncCheck, SyncMark, SyncMarkFail, SyncEnqueue, SyncTrigger
<1>4. ASSUME SyncCheck(s) PROVE sync'[s].todo \subseteq sync[s].todo
  BY <1>4, <1>t DEF SyncCheck, SyncState
<1>5. ASSUME SyncMark(s) \/ SyncMarkFail(s) \/ SyncEnqueue(s) \/ SyncTrigger(s)
      PROVE  sync'[s].todo \subseteq sync[s].todo
  BY <1>5, <1>t DEF SyncMark, SyncMarkFail, SyncEnqueue, SyncTrigger, SyncIdle, SyncState
<1>6. CASE Crash
  BY <1>6 DEF Crash, SyncIdle
<1>7. CASE \E r \in Syncer : SyncStep(r)
  <2> PICK r \in Syncer : SyncStep(r)
    BY <1>7
  <2> QED
    BY <1>1, <1>2, <1>3, <1>4, <1>5 DEF SyncStep
<1> QED
  BY <1>1, <1>6, <1>7, WritersOfSync

\* The worker, where there is one, holds the task it read from the row.
LEMMA WorkerOwnStep ==
    ASSUME TypeInv, RowInv, HeldInv, [Next]_vars PROVE WorkerOwn'
<1>t. /\ worker \in WorkerState /\ WorkerBusy /\ WorkerOwn /\ queue \in Seq(Bot)
      /\ RowNamesOwnTask
  BY DEF TypeInv, TypeOK, RowInv, HeldInv
<1>1. CASE /\ worker.pc # "idle" /\ worker'.bot = worker.bot
           /\ worker'.task = worker.task
  BY <1>1, <1>t, TaskKeepsBot DEF WorkerOwn, WorkerBusy, ProcessorRegistered
<1>2. CASE worker' = WorkerIdle
  BY <1>2 DEF WorkerOwn, WorkerIdle
<1>3. CASE WorkerTake /\ worker' # WorkerIdle
  <2> DEFINE b == Head(queue)
  <2>1. /\ ProcessorRegistered /\ b \in Bot /\ bots[b].taskId # None
        /\ worker'.bot = b /\ worker'.task = bots[b].taskId
    BY <1>3, <1>t DEF WorkerTake, Retryable
  <2>2. bots[b].taskId \in Launches(b)
    BY <2>1, <1>t DEF RowNamesOwnTask
  <2>3. ecs'[bots[b].taskId].bot = b
    BY <2>1, <2>2, TaskKeepsBot DEF Launches
  <2> QED
    BY <2>1, <2>3 DEF WorkerOwn, ProcessorRegistered
<1>4. ASSUME WorkerRun
      PROVE  /\ worker.pc # "idle" /\ worker'.bot = worker.bot
             /\ worker'.task = worker.task
  BY <1>4, <1>t DEF WorkerRun, WorkerState
<1>5. ASSUME WorkerFail \/ WorkerRecord \/ Crash PROVE worker' = WorkerIdle
  BY <1>5 DEF WorkerFail, WorkerRecord, Crash
<1>6. CASE UNCHANGED worker
  BY <1>6, <1>1, <1>2, <1>t, TaskKeepsBot DEF WorkerOwn, WorkerBusy, ProcessorRegistered
<1> QED
  BY <1>1, <1>2, <1>3, <1>4, <1>5, <1>6, WritersOfWorker

\* The invariants of this module about rows, tasks and handlers, together.
LifeInv == TypeInv /\ RowInv /\ HeldInv

\* They hold in the beginning, when nobody holds anything, and after each step.
LEMMA LifeInvariant == Spec => []LifeInv
<1>1. Init => LifeInv
  <2> SUFFICES ASSUME Init PROVE LifeInv
    OBVIOUS
  <2>1. Created /\ CronOnce
    BY DEF Init, Created, CronOnce, InitIdle, Initiator
  <2>2. LeaveOwn /\ SyncOwn /\ WorkerOwn
    BY DEF Init, LeaveOwn, SyncOwn, WorkerOwn, LeaveIdle, SyncIdle, WorkerIdle
  <2> QED
    BY <2>1, <2>2, TypeInit, RowInit DEF LifeInv, HeldInv
<1>2. LifeInv /\ [Next]_vars => LifeInv'
  <2> SUFFICES ASSUME TypeInv, RowInv, HeldInv, [Next]_vars PROVE LifeInv'
    BY DEF LifeInv
  <2>1. TypeInv' /\ RowInv'
    BY TypeStep, NamesStep, UsedStep, InitHoldsStep, LeaveHoldsStep, SyncHoldsStep,
       WorkerHoldsStep DEF RowInv
  <2>2. HeldInv'
    BY CreatedStep, CronOnceStep, LeaveOwnStep, SyncOwnStep, WorkerOwnStep DEF HeldInv
  <2> QED
    BY <2>1, <2>2 DEF LifeInv
<1> QED
  BY <1>1, <1>2, PTL DEF Spec

\* What a step does to one task: it is launched, or it is stopped or ends.
LEMMA EcsMoves ==
    ASSUME TypeInv, [Next]_vars, NEW t \in TaskId
    PROVE  \/ ecs'[t] = ecs[t]
           \/ /\ ecs[t].state = "unused" /\ ecs'[t].key = t
              /\ ecs'[t].state = "running"
              /\ \E i \in Initiator : /\ InitiateRun(i) /\ ecs'[t].bot = init[i].bot
                                     /\ init'[i].pc = "record" /\ init'[i].task = t
           \/ /\ ecs[t].state = "unused" /\ ecs'[t].key = ecs[worker.task].key
              /\ ecs'[t].state = "running"
              /\ WorkerRun /\ ecs'[t].bot = worker.bot
           \/ /\ ecs[t].state \in {"running", "stopping"}
              /\ ecs'[t].state \in {"stopping", "done", "error"}
              /\ ecs'[t].bot = ecs[t].bot /\ ecs'[t].key = ecs[t].key
<1> DEFINE Goal ==
      \/ ecs'[t] = ecs[t]
      \/ /\ ecs[t].state = "unused" /\ ecs'[t].key = t
         /\ ecs'[t].state = "running"
         /\ \E i \in Initiator : /\ InitiateRun(i) /\ ecs'[t].bot = init[i].bot
                                /\ init'[i].pc = "record" /\ init'[i].task = t
      \/ /\ ecs[t].state = "unused" /\ ecs'[t].key = ecs[worker.task].key
         /\ ecs'[t].state = "running"
         /\ WorkerRun /\ ecs'[t].bot = worker.bot
      \/ /\ ecs[t].state \in {"running", "stopping"}
         /\ ecs'[t].state \in {"stopping", "done", "error"}
         /\ ecs'[t].bot = ecs[t].bot /\ ecs'[t].key = ecs[t].key
<1>t. ecs \in [TaskId -> Task] /\ init \in [Initiator -> InitState]
  BY DEF TypeInv, TypeOK
<1>1. ASSUME NEW b \in Bot, LeaveStop(b) PROVE Goal
  BY <1>1, <1>t DEF LeaveStop, Task
<1>2. ASSUME NEW i \in Initiator, InitiateRun(i) PROVE Goal
  <2>1. PICK u \in TaskId :
           /\ ecs[u].state = "unused"
           /\ ecs' = [ecs EXCEPT ![u] = [state |-> "running",
                                         bot |-> init[i].bot, key |-> u]]
           /\ init' = [init EXCEPT ![i].pc = "record", ![i].task = u]
    BY <1>2 DEF InitiateRun
  <2>2. CASE u = t
    <3>1. /\ ecs'[t].state = "running" /\ ecs'[t].key = t
          /\ ecs'[t].bot = init[i].bot
      BY <2>1, <2>2, <1>t
    <3>2. init'[i].pc = "record" /\ init'[i].task = t
      BY <2>1, <2>2, <1>t DEF InitState
    <3> QED
      BY <3>1, <3>2, <2>1, <2>2, <1>2
  <2> QED
    BY <2>1, <2>2, <1>t
<1>3. CASE WorkerRun
  <2>1. PICK u \in TaskId :
           /\ ecs[u].state = "unused"
           /\ ecs' = [ecs EXCEPT ![u] = [state |-> "running", bot |-> worker.bot,
                                         key   |-> ecs[worker.task].key]]
    BY <1>3 DEF WorkerRun
  <2>2. CASE u = t
    BY <2>1, <2>2, <1>3, <1>t
  <2> QED
    BY <2>1, <2>2, <1>t
<1>4. ASSUME NEW u \in TaskId, TaskEnds(u) PROVE Goal
  BY <1>4, <1>t DEF TaskEnds, Task
<1>5. CASE UNCHANGED ecs
  BY <1>5
<1> QED
  BY <1>1, <1>2, <1>3, <1>4, <1>5, WritersOfEcs

\* A task keeps its key, and one that has ended stays as it is.
LEMMA TaskStays ==
    ASSUME TypeInv, RowInv, [Next]_vars, NEW t \in TaskId, ecs[t].bot \in Bot
    PROVE  /\ ecs'[t].bot = ecs[t].bot /\ ecs'[t].key = ecs[t].key
           /\ ecs[t].state \in {"done", "error"} => ecs'[t].state = ecs[t].state
           /\ ecs[t].state # "running" => ecs'[t].state # "running"
<1>1. ecs[t].state # "unused"
  BY DEF RowInv, UsedTasks
<1> QED
  BY <1>1, EcsMoves

\* Launches are never taken back.
LEMMA LaunchesGrow ==
    ASSUME TypeInv, RowInv, [Next]_vars, NEW b \in Bot
    PROVE  Launches(b) \subseteq Launches(b)' /\ FirstLaunches(b) \subseteq FirstLaunches(b)'
  BY TaskStays DEF Launches, FirstLaunches

\* What a step does to one row, as far as its task is concerned.
LEMMA RowMoves ==
    ASSUME TypeInv, RowInv, [Next]_vars, NEW b \in Bot
    PROVE  \/ /\ UNCHANGED <<bots[b].taskId, bots[b].tarFileKey>>
              /\ Launched(b) <=> Launched(b)'
              /\ bots[b].status \in Ended => bots'[b].status \in Ended
           \/ \E i \in Initiator :
                 /\ init[i].pc = "record" /\ init[i].bot = b /\ init'[i].pc = "idle"
                 /\ bots'[b] = StartedRow(bots[b], init[i].task, init[i].was)
           \/ /\ worker.pc = "record" /\ worker.bot = b
              /\ bots'[b] = RetriedRow(bots[b], worker.new, worker.retry)
<1> DEFINE Goal ==
      \/ /\ UNCHANGED <<bots[b].taskId, bots[b].tarFileKey>>
         /\ Launched(b) <=> Launched(b)'
         /\ bots[b].status \in Ended => bots'[b].status \in Ended
      \/ \E i \in Initiator :
            /\ init[i].pc = "record" /\ init[i].bot = b /\ init'[i].pc = "idle"
            /\ bots'[b] = StartedRow(bots[b], init[i].task, init[i].was)
      \/ /\ worker.pc = "record" /\ worker.bot = b
         /\ bots'[b] = RetriedRow(bots[b], worker.new, worker.retry)
<1>t. /\ bots \in [Bot -> BotRow] /\ SyncBusy /\ LeaveHolds /\ SyncHolds
      /\ init \in [Initiator -> InitState] /\ InitBusy
  BY DEF TypeInv, TypeOK, RowInv
<1>1. ASSUME NEW c \in Bot, CreateBot(c) PROVE Goal
  BY <1>1, <1>t DEF CreateBot, BotRow, Launched, Ended
<1>2. ASSUME NEW c \in Bot, LeaveMark(c) PROVE Goal
  <2>1. Launched(c)
    BY <1>2, <1>t DEF LeaveMark, LeaveHolds
  <2> QED
    BY <1>2, <1>t, <2>1 DEF LeaveMark, BotRow, Launched, Ended
<1>3. ASSUME NEW i \in Initiator, InitiateRecord(i) PROVE Goal
  <2>1. /\ init[i].pc = "record" /\ init'[i].pc = "idle"
        /\ bots' = [bots EXCEPT ![init[i].bot] =
                      StartedRow(@, init[i].task, init[i].was)]
    BY <1>3, <1>t DEF InitiateRecord, InitIdle
  <2>2. CASE b = init[i].bot
    BY <2>1, <2>2, <1>t
  <2>3. CASE b # init[i].bot
    BY <2>1, <2>3, <1>t DEF Launched
  <2> QED
    BY <2>2, <2>3
<1>4. ASSUME NEW s \in Syncer, Marks(s) PROVE Goal
  <2>1. sync[s].bot \in Bot /\ Launched(sync[s].bot)
    BY <1>4, <1>t DEF Marks, SyncBusy, SyncHolds
  <2> QED
    BY <1>4, <2>1, <1>t DEF Marks, MarkedStatus, BotRow, Launched, Ended
<1>5. CASE WorkerRecord
  BY <1>5, <1>t DEF WorkerRecord, Launched
<1>6. CASE UNCHANGED bots
  BY <1>6 DEF Launched
<1> QED
  BY <1>1, <1>2, <1>3, <1>4, <1>5, <1>6, WritersOfBots

-----------------------------------------------------------------------------
(* The retry budget.  RetryBudget counts launches, which no variable of    *)
(* the code counts: retryCount is written after the launch, from a value   *)
(* read before it.  The invariant says what the count is behind of: the    *)
(* launch in the worker's hands, and those whose update was lost.          *)

CountBounded == \A b \in Bot : bots[b].retryCount <= MeetingBotRetryCount

JobUnderLimit ==
    worker.pc # "idle" => /\ worker.retry = bots[worker.bot].retryCount
                          /\ worker.retry < MeetingBotRetryCount

InHand == IF worker.pc = "record" THEN {worker.new} ELSE {}

Counted(b) == Retries(b) \ (orphans \cup InHand)

RetriesCounted ==
    \A b \in Bot : Cardinality(Counted(b)) <= bots[b].retryCount

RetryInv == CountBounded /\ JobUnderLimit /\ RetriesCounted

\* The launches of a bot are a finite set, and so is every part of it.
LEMMA PartFinite ==
    ASSUME NEW b \in Bot, NEW S, S \subseteq Launches(b)
    PROVE  IsFiniteSet(S) /\ Cardinality(S) \in Nat
  BY FiniteTasksAssumption, FS_Subset, FS_CardinalityType DEF Launches

\* One more element counts as one more at most.
LEMMA OneMore ==
    ASSUME NEW S, IsFiniteSet(S), NEW T, NEW x, T \subseteq S \cup {x}
    PROVE  IsFiniteSet(T) /\ Cardinality(T) <= Cardinality(S) + 1
<1>1. Cardinality(S) \in Nat
  BY FS_CardinalityType
<1>2. /\ IsFiniteSet(S \cup {x})
      /\ \/ Cardinality(S \cup {x}) = Cardinality(S)
         \/ Cardinality(S \cup {x}) = Cardinality(S) + 1
  BY FS_AddElement
<1>3. /\ IsFiniteSet(T) /\ Cardinality(T) <= Cardinality(S \cup {x})
      /\ Cardinality(T) \in Nat
  BY <1>2, FS_Subset, FS_CardinalityType
<1> QED
  BY <1>1, <1>2, <1>3

\* A part is not larger.
LEMMA NoMore ==
    ASSUME NEW S, IsFiniteSet(S), NEW T, T \subseteq S
    PROVE  IsFiniteSet(T) /\ Cardinality(T) <= Cardinality(S)
  BY FS_Subset

\* Only the worker writes retryCount.
LEMMA CountOnlyByWorker ==
    ASSUME TypeInv, [Next]_vars, ~WorkerRecord, NEW b \in Bot
    PROVE  bots'[b].retryCount = bots[b].retryCount
<1> bots \in [Bot -> BotRow]
  BY DEF TypeInv, TypeOK
<1>1. ASSUME NEW c \in Bot, CreateBot(c) \/ LeaveMark(c)
      PROVE  bots'[b].retryCount = bots[b].retryCount
  BY <1>1 DEF CreateBot, LeaveMark, BotRow
<1>2. ASSUME NEW i \in Initiator, InitiateRecord(i)
      PROVE  bots'[b].retryCount = bots[b].retryCount
  BY <1>2 DEF InitiateRecord, StartedRow, BotRow
<1>3. ASSUME NEW s \in Syncer, Marks(s)
      PROVE  bots'[b].retryCount = bots[b].retryCount
  BY <1>3 DEF Marks, BotRow
<1> QED
  BY <1>1, <1>2, <1>3, WritersOfBots

\* Only the worker launches a task with the key of another.
LEMMA RetriesOnlyByWorker ==
    ASSUME TypeInv, [Next]_vars, ~WorkerRun, NEW b \in Bot
    PROVE  Retries(b)' \subseteq Retries(b)
<1> ecs \in [TaskId -> Task]
  BY DEF TypeInv, TypeOK
<1>1. ASSUME NEW c \in Bot, LeaveStop(c) PROVE Retries(b)' \subseteq Retries(b)
  BY <1>1 DEF LeaveStop, Retries, Launches, Task
<1>2. ASSUME NEW i \in Initiator, InitiateRun(i)
      PROVE  Retries(b)' \subseteq Retries(b)
  BY <1>2 DEF InitiateRun, Retries, Launches
<1>3. ASSUME NEW t \in TaskId, TaskEnds(t) PROVE Retries(b)' \subseteq Retries(b)
  BY <1>3 DEF TaskEnds, Retries, Launches, Task
<1>4. CASE UNCHANGED ecs
  BY <1>4 DEF Retries, Launches
<1> QED
  BY <1>1, <1>2, <1>3, <1>4, WritersOfEcs

\* No retries in the beginning.
LEMMA RetryInit == Init => RetryInv
<1> SUFFICES ASSUME Init PROVE RetryInv
  OBVIOUS
<1>1. CountBounded /\ JobUnderLimit
  BY ConstantsAssumption DEF Init, CountBounded, JobUnderLimit, WorkerIdle
<1>2. ASSUME NEW b \in Bot PROVE Cardinality(Counted(b)) <= bots[b].retryCount
  <2>1. Counted(b) = {} /\ bots[b].retryCount = 0
    BY ConstantsAssumption DEF Init, Counted, Retries, Launches
  <2> QED
    BY <2>1, FS_EmptySet
<1> QED
  BY <1>1, <1>2 DEF RetryInv, RetriesCounted

\* A launch in the worker's hands is counted, or lost, when they are empty.
LEMMA CountedStep ==
    ASSUME TypeInv, [Next]_vars, ~WorkerRecord, NEW b \in Bot
    PROVE  Counted(b)' \subseteq Counted(b)
<1>t. /\ worker \in WorkerState /\ WorkerBusy /\ ecs \in [TaskId -> Task]
      /\ None \notin TaskId
  BY ConstantsAssumption DEF TypeInv, TypeOK
<1>o. orphans \subseteq orphans'
  BY OrphansGrow
<1>1. CASE WorkerRun
  <2>1. PICK t \in TaskId :
           /\ ecs' = [ecs EXCEPT ![t] = [state |-> "running", bot |-> worker.bot,
                                         key   |-> ecs[worker.task].key]]
           /\ worker' = [worker EXCEPT !.pc = "record", !.new = t]
    BY <1>1 DEF WorkerRun
  <2>2. worker.pc = "run" /\ worker'.pc = "record" /\ worker'.new = t
    BY <1>1, <2>1, <1>t DEF WorkerRun, WorkerState
  <2>3. Retries(b)' \subseteq Retries(b) \cup {t}
    BY <2>1, <1>t DEF Retries, Launches
  <2>4. InHand = {} /\ InHand' = {t}
    BY <2>2 DEF InHand
  <2> QED
    BY <2>3, <2>4, <1>o DEF Counted
<1>2. CASE ~WorkerRun
  <2>1. Retries(b)' \subseteq Retries(b)
    BY <1>2, RetriesOnlyByWorker
  <2>2. InHand \subseteq InHand' \cup orphans'
    <3>1. CASE UNCHANGED worker
      BY <3>1 DEF InHand
    <3>2. CASE WorkerTake
      BY <3>2 DEF WorkerTake, InHand
    <3>3. CASE WorkerFail
      BY <3>3, <1>t DEF WorkerFail, InHand, WorkerBusy
    <3>4. CASE Crash
      BY <3>4, <1>t DEF Crash, InHand, WorkerBusy
    <3> QED
      BY <3>1, <3>2, <3>3, <3>4, <1>2, WritersOfWorker
  <2> QED
    BY <2>1, <2>2, <1>o DEF Counted
<1> QED
  BY <1>1, <1>2

\* The update of the worker counts the one launch it has in hand.
LEMMA RetryStep ==
    ASSUME TypeInv, TypeInv', RetryInv, RowInv, [Next]_vars
    PROVE  RetryInv'
<1> USE DEF RetryInv
<1>t. /\ bots \in [Bot -> BotRow] /\ bots' \in [Bot -> BotRow]
      /\ worker \in WorkerState /\ WorkerBusy
      /\ queue \in Seq(Bot) /\ ecs \in [TaskId -> Task]
  BY DEF TypeInv, TypeOK
<1>c. \A b \in Bot : bots[b].retryCount \in Nat /\ bots'[b].retryCount \in Nat
  BY <1>t DEF BotRow
<1>f. \A b \in Bot : IsFiniteSet(Counted(b)) /\ Cardinality(Counted(b)) \in Nat
  <2> SUFFICES ASSUME NEW b \in Bot
               PROVE  IsFiniteSet(Counted(b)) /\ Cardinality(Counted(b)) \in Nat
    OBVIOUS
  <2>1. Counted(b) \subseteq Launches(b)
    BY DEF Counted, Retries
  <2> QED
    BY <2>1, PartFinite
<1>1. CASE WorkerRecord
  <2>1. /\ worker.pc = "record" /\ worker.bot \in Bot /\ worker.new \in TaskId
        /\ worker' = WorkerIdle /\ UNCHANGED <<ecs, orphans>>
        /\ bots' = [bots EXCEPT ![worker.bot] =
                     RetriedRow(@, worker.new, worker.retry)]
    BY <1>1, <1>t DEF WorkerRecord, WorkerBusy, boundVars, noteVars
  <2>2. \A b \in Bot : Retries(b)' = Retries(b)
    BY <2>1 DEF Retries, Launches
  <2>3. bots'[worker.bot].retryCount = bots[worker.bot].retryCount + 1
    BY <2>1, <1>t DEF RetriedRow, BotRow, JobUnderLimit
  <2>4. \A b \in Bot : b # worker.bot => bots'[b] = bots[b]
    BY <2>1, <1>t
  <2>5. CountBounded'
    BY <2>1, <2>3, <2>4, <1>c, ConstantsAssumption DEF CountBounded, JobUnderLimit
  <2>6. JobUnderLimit'
    BY <2>1 DEF JobUnderLimit, WorkerIdle
  <2>7. InHand = {worker.new} /\ InHand' = {}
    BY <2>1 DEF InHand, WorkerIdle
  <2>8. ASSUME NEW b \in Bot PROVE Cardinality(Counted(b)') <= bots'[b].retryCount
    <3>1. CASE b = worker.bot
      <4>1. Counted(b)' \subseteq Counted(b) \cup {worker.new}
        BY <2>1, <2>2, <2>7 DEF Counted
      <4>2. /\ IsFiniteSet(Counted(b)')
            /\ Cardinality(Counted(b)') <= Cardinality(Counted(b)) + 1
        BY <4>1, <1>f, OneMore
      <4>3. Cardinality(Counted(b)') \in Nat
        BY <4>2, FS_CardinalityType
      <4> QED
        BY <4>2, <4>3, <3>1, <2>3, <1>c, <1>f DEF RetriesCounted
    <3>2. CASE b # worker.bot
      <4>1. worker.new \notin Retries(b)
        BY <2>1, <3>2 DEF RowInv, WorkerHolds, Retries, Launches
      <4>2. Counted(b)' = Counted(b)
        BY <4>1, <2>1, <2>2, <2>7 DEF Counted
      <4> QED
        BY <4>2, <2>4, <3>2 DEF RetriesCounted
    <3> QED
      BY <3>1, <3>2
  <2> QED
    BY <2>5, <2>6, <2>8 DEF RetriesCounted
<1>2. CASE ~WorkerRecord
  <2>1. \A b \in Bot : bots'[b].retryCount = bots[b].retryCount
    BY <1>2, CountOnlyByWorker
  <2>2. CountBounded'
    BY <2>1 DEF CountBounded
  <2>3. RetriesCounted'
    <3> SUFFICES ASSUME NEW b \in Bot
                 PROVE  Cardinality(Counted(b)') <= bots'[b].retryCount
      BY DEF RetriesCounted
    <3>1. Counted(b)' \subseteq Counted(b)
      BY <1>2, CountedStep
    <3>2. /\ IsFiniteSet(Counted(b)')
          /\ Cardinality(Counted(b)') <= Cardinality(Counted(b))
      BY <3>1, <1>f, NoMore
    <3>3. Cardinality(Counted(b)') \in Nat
      BY <3>2, FS_CardinalityType
    <3> QED
      BY <3>2, <3>3, <2>1, <1>c, <1>f DEF RetriesCounted
  <2>4. JobUnderLimit'
    <3>1. CASE UNCHANGED worker
      BY <2>1, <3>1, <1>t DEF JobUnderLimit, WorkerBusy
    <3>2. CASE WorkerTake
      <4>1. UNCHANGED bots
        BY <3>2 DEF WorkerTake, rowVars
      <4> QED
        BY <3>2, <4>1, <1>t DEF JobUnderLimit, WorkerTake, WorkerIdle, Retryable
    <3>3. CASE WorkerRun
      <4>1. /\ worker'.bot = worker.bot /\ worker'.retry = worker.retry
            /\ worker.pc # "idle" /\ worker.bot \in Bot
        BY <3>3, <1>t DEF WorkerRun, WorkerState, WorkerBusy
      <4> QED
        BY <4>1, <2>1 DEF JobUnderLimit
    <3>4. CASE WorkerFail \/ Crash
      BY <3>4 DEF WorkerFail, Crash, JobUnderLimit, WorkerIdle
    <3> QED
      BY <1>2, <3>1, <3>2, <3>3, <3>4, WritersOfWorker
  <2> QED
    BY <2>2, <2>3, <2>4
<1> QED
  BY <1>1, <1>2

\* The retries of a bot that were not lost: those counted, and the one in hand.
LEMMA RetriesWithin ==
    ASSUME TypeInv, RowInv, RetryInv, NEW b \in Bot
    PROVE  Cardinality(Retries(b) \ orphans) <= MeetingBotRetryCount
<1>t. /\ bots[b].retryCount \in Nat /\ MeetingBotRetryCount \in Nat
      /\ bots[b].retryCount <= MeetingBotRetryCount
      /\ Cardinality(Counted(b)) <= bots[b].retryCount
  BY ConstantsAssumption
     DEF TypeInv, TypeOK, BotRow, RetryInv, CountBounded, RetriesCounted
<1>f. /\ IsFiniteSet(Counted(b)) /\ Cardinality(Counted(b)) \in Nat
      /\ Cardinality(Retries(b) \ orphans) \in Nat
  <2>1. Counted(b) \subseteq Launches(b) /\ Retries(b) \ orphans \subseteq Launches(b)
    BY DEF Counted, Retries
  <2> QED
    BY <2>1, PartFinite
<1>1. CASE worker.pc = "record" /\ worker.bot = b
  <2>1. bots[b].retryCount + 1 <= MeetingBotRetryCount
    BY <1>1, <1>t DEF RetryInv, JobUnderLimit
  <2>2. Retries(b) \ orphans \subseteq Counted(b) \cup {worker.new}
    BY <1>1 DEF Counted, InHand
  <2>3. Cardinality(Retries(b) \ orphans) <= Cardinality(Counted(b)) + 1
    BY <2>2, <1>f, OneMore
  <2> QED
    BY <2>1, <2>3, <1>t, <1>f
<1>2. CASE ~(worker.pc = "record" /\ worker.bot = b)
  <2>1. InHand \cap Retries(b) = {}
    BY <1>2 DEF InHand, RowInv, WorkerHolds, Retries, Launches
  <2>2. Retries(b) \ orphans = Counted(b)
    BY <2>1 DEF Counted
  <2> QED
    BY <2>2, <1>t, <1>f
<1> QED
  BY <1>1, <1>2

\* The count is behind the launches by no more than that at any time.
LEMMA RetryInvariant == Spec => []RetryInv
<1>1. LifeInv /\ LifeInv' /\ RetryInv /\ [Next]_vars => RetryInv'
  BY RetryStep DEF LifeInv
<1> QED
  BY <1>1, RetryInit, LifeInvariant, PTL DEF Spec

\* The worker launches no bot more often than meetingBotRetryCount allows, but
\* for the launches whose count was lost.
THEOREM RetryBudgetCorrect == Spec => []RetryBudget
<1>1. LifeInv /\ RetryInv => RetryBudget
  BY RetriesWithin DEF LifeInv, RetryBudget
<1> QED
  BY <1>1, RetryInvariant, LifeInvariant, PTL

-----------------------------------------------------------------------------
(* The task of a bot launched once: the row has it, or is about to get it, *)
(* or its update was lost.                                                 *)

TrackInv ==
    \A b \in Bot, t \in TaskId :
        Launches(b) = {t} /\ t \notin orphans =>
            \/ bots[b].taskId = t
            \/ \E i \in Initiator : init[i].pc = "record" /\ init[i].task = t

\* Only its own update ends a recorder, or it loses its task.
LEMMA RecorderStays ==
    ASSUME TypeInv, HeldInv, [Next]_vars, NEW i \in Initiator,
           init[i].pc = "record"
    PROVE  init'[i] = init[i] \/ InitiateRecord(i) \/ init[i].task \in orphans'
<1>t. /\ init \in [Initiator -> InitState] /\ Created /\ Cron \notin Bot
      /\ init[i].task \in TaskId /\ None \notin TaskId
  BY ConstantsAssumption DEF TypeInv, TypeOK, InitBusy, HeldInv
<1>1. ASSUME NEW b \in Bot, CreateBot(b) \/ CreateCheck(b) \/ CronNext(b)
      PROVE  init'[i] = init[i]
  BY <1>1, <1>t DEF CreateBot, CreateCheck, CronNext, Created, Initiator
<1>2. ASSUME NEW j \in Initiator, InitiateRead(j) \/ InitiateRun(j)
      PROVE  init'[i] = init[i]
  BY <1>2, <1>t DEF InitiateRead, InitiateRun
<1>3. ASSUME NEW j \in Initiator, InitiateRecord(j)
      PROVE  init'[i] = init[i] \/ InitiateRecord(i)
  <2>1. CASE i = j
    BY <1>3, <2>1
  <2>2. CASE i # j
    BY <1>3, <2>2, <1>t DEF InitiateRecord
  <2> QED
    BY <2>1, <2>2
<1>4. ASSUME NEW j \in Initiator, InitiateFail(j)
      PROVE  init'[i] = init[i] \/ init[i].task \in orphans'
  BY <1>4, <1>t DEF InitiateFail
<1>5. ASSUME Crash PROVE init[i].task \in orphans'
  BY <1>5, <1>t DEF Crash
<1> QED
  BY <1>1, <1>2, <1>3, <1>4, <1>5, WritersOfInit

\* A launch begins with a recorder; a retry is a second launch.
LEMMA TrackStep ==
    ASSUME LifeInv, TrackInv, [Next]_vars PROVE TrackInv'
<1> SUFFICES ASSUME NEW b \in Bot, NEW t \in TaskId, Launches(b)' = {t},
                    t \notin orphans'
             PROVE  \/ bots'[b].taskId = t
                    \/ \E i \in Initiator : init'[i].pc = "record" /\ init'[i].task = t
  BY DEF TrackInv
<1>i. TypeInv /\ RowInv /\ HeldInv /\ t \notin orphans
  BY OrphansGrow DEF LifeInv
<1>l. Launches(b) \subseteq {t} /\ t \in Launches(b)'
  BY LaunchesGrow, <1>i
<1>1. CASE t \notin Launches(b)
  <2>1. ecs[t].bot # b /\ ecs'[t].bot = b
    BY <1>1, <1>l DEF Launches
  <2>2. ASSUME WorkerRun, ecs'[t].bot = worker.bot PROVE FALSE
    <3>1. worker.bot = b /\ Launched(b)
      BY <2>1, <2>2, <1>i DEF WorkerRun, RowInv, WorkerHolds
    <3>2. bots[b].taskId \in Launches(b)
      BY <3>1, <1>i DEF RowInv, RowNamesOwnTask, Launched
    <3> QED
      BY <3>2, <1>1, <1>l
  <2> QED
    BY <2>1, <2>2, <1>i, EcsMoves
<1>2. CASE t \in Launches(b)
  <2>1. Launches(b) = {t}
    BY <1>2, <1>l
  <2>2. CASE bots[b].taskId = t
    <3>1. bots'[b].taskId = bots[b].taskId \/ bots'[b].taskId \in Launches(b)
      BY RowsStep, <1>i DEF Launches
    <3> QED
      BY <3>1, <2>1, <2>2
  <2>3. ASSUME NEW i \in Initiator, init[i].pc = "record", init[i].task = t
        PROVE  \/ bots'[b].taskId = t
               \/ init'[i].pc = "record" /\ init'[i].task = t
    <3>1. CASE InitiateRecord(i)
      <4>1. init[i].bot = b
        BY <2>3, <1>2, <1>i DEF RowInv, InitHolds, Launches
      <4>2. bots[b] \in BotRow /\ bots \in [Bot -> BotRow]
        BY <1>i DEF TypeInv, TypeOK
      <4>3. bots'[b] = StartedRow(bots[b], t, init[i].was)
        BY <3>1, <4>1, <4>2, <2>3 DEF InitiateRecord
      <4> QED
        BY <4>2, <4>3 DEF StartedRow, BotRow
    <3> QED
      BY <2>3, <3>1, <1>i, RecorderStays
  <2> QED
    BY <2>1, <2>2, <2>3, <1>i DEF TrackInv
<1> QED
  BY <1>1, <1>2

\* A live task of a bot launched once can be found and stopped.
THEOREM LiveTaskIsTrackedCorrect == Spec => []LiveTaskIsTracked
<1>1. Init => TrackInv
  BY ConstantsAssumption DEF Init, TrackInv, Launches
<1>2. TrackInv => LiveTaskIsTracked
  BY DEF TrackInv, LiveTaskIsTracked
<1> QED
  BY <1>1, <1>2, TrackStep, LifeInvariant, PTL DEF Spec

\* A launch takes a task that nobody has.
LEMMA RunTask ==
    ASSUME TypeInv, NEW i \in Initiator, InitiateRun(i)
    PROVE  /\ UNCHANGED bots
           /\ init'[i].task \in TaskId /\ ecs[init'[i].task].state = "unused"
           /\ \A j \in Initiator : j # i => init'[j] = init[j]
<1>1. PICK t \in TaskId :
         /\ ecs[t].state = "unused"
         /\ init' = [init EXCEPT ![i].pc = "record", ![i].task = t]
  BY DEF InitiateRun
<1>2. init \in [Initiator -> InitState]
  BY DEF TypeInv, TypeOK
<1>3. init'[i].task = t
  BY <1>1, <1>2 DEF InitState
<1> QED
  BY <1>1, <1>2, <1>3 DEF InitiateRun, rowVars

-----------------------------------------------------------------------------
(* The archive of the row.                                                 *)

\* Every task uploads to the key of a first launch of its bot.
KeysOwn == \A b \in Bot : \A t \in Launches(b) : ecs[t].key \in FirstLaunches(b)

RowKey == \A b \in Bot : Launched(b) => bots[b].tarFileKey \in FirstLaunches(b)

\* What initiateBot records is a first launch.
RecordsFirst ==
    \A i \in Initiator : init[i].pc = "record" => ecs[init[i].task].key = init[i].task

\* Without the processor there are no retries, and the two columns agree.
Unretried ==
    ~ProcessorRegistered =>
        \A b \in Bot : /\ \A t \in Launches(b) : ecs[t].key = t
                       /\ Launched(b) => bots[b].tarFileKey = bots[b].taskId

KeyInv == KeysOwn /\ RowKey /\ RecordsFirst /\ Unretried

\* A retry takes over the key of a task of its bot.
LEMMA KeysOwnStep ==
    ASSUME LifeInv, KeyInv, [Next]_vars PROVE KeysOwn'
<1> SUFFICES ASSUME NEW b \in Bot, NEW t \in TaskId, ecs'[t].bot = b
             PROVE  ecs'[t].key \in FirstLaunches(b)'
  BY DEF KeysOwn, Launches
<1>t. TypeInv /\ RowInv /\ HeldInv /\ KeysOwn
  BY DEF LifeInv, KeyInv
<1>1. CASE ecs[t].bot = b
  <2>1. ecs[t].key \in FirstLaunches(b) /\ ecs'[t].key = ecs[t].key
    BY <1>1, <1>t, TaskStays DEF KeysOwn, Launches
  <2> QED
    BY <2>1, <1>t, LaunchesGrow
<1>2. CASE ecs'[t].key = t
  BY <1>2 DEF FirstLaunches, Launches
<1>3. CASE WorkerRun /\ ecs'[t].bot = worker.bot /\ ecs'[t].key = ecs[worker.task].key
  <2>1. worker.task \in Launches(b)
    BY <1>3, <1>t DEF WorkerRun, HeldInv, WorkerOwn, TypeInv, WorkerBusy, Launches
  <2> QED
    BY <2>1, <1>3, <1>t, LaunchesGrow DEF KeysOwn
<1> QED
  BY <1>1, <1>2, <1>3, <1>t, EcsMoves

\* Only initiateBot writes tarFileKey, with the task it has launched.
LEMMA RowKeyStep ==
    ASSUME LifeInv, KeyInv, [Next]_vars PROVE RowKey'
<1> SUFFICES ASSUME NEW b \in Bot, Launched(b)'
             PROVE  bots'[b].tarFileKey \in FirstLaunches(b)'
  BY DEF RowKey
<1>t. TypeInv /\ RowInv /\ HeldInv /\ RowKey /\ RecordsFirst /\ bots[b] \in BotRow
  BY DEF LifeInv, KeyInv, TypeInv, TypeOK
<1>1. CASE Launched(b) /\ UNCHANGED bots[b].tarFileKey
  BY <1>1, <1>t, LaunchesGrow DEF RowKey
<1>2. ASSUME NEW i \in Initiator, init[i].pc = "record", init[i].bot = b,
             bots'[b] = StartedRow(bots[b], init[i].task, init[i].was)
      PROVE  bots'[b].tarFileKey \in FirstLaunches(b)'
  <2>1. init[i].task \in FirstLaunches(b)
    BY <1>2, <1>t
       DEF TypeInv, InitBusy, RowInv, InitHolds, RecordsFirst, FirstLaunches, Launches
  <2>2. bots'[b].tarFileKey = init[i].task
    BY <1>2, <1>t DEF StartedRow, BotRow
  <2> QED
    BY <2>1, <2>2, <1>t, LaunchesGrow
<1>3. CASE /\ worker.pc = "record" /\ worker.bot = b
           /\ bots'[b] = RetriedRow(bots[b], worker.new, worker.retry)
  <2>1. Launched(b) /\ bots'[b].tarFileKey = bots[b].tarFileKey
    BY <1>3, <1>t DEF RowInv, WorkerHolds, RetriedRow, BotRow
  <2> QED
    BY <2>1, <1>1
<1> QED
  BY <1>1, <1>2, <1>3, <1>t, RowMoves

\* A recorder keeps its task, and the task its key.
LEMMA RecordsFirstStep ==
    ASSUME LifeInv, KeyInv, [Next]_vars PROVE RecordsFirst'
<1> SUFFICES ASSUME NEW i \in Initiator, init'[i].pc = "record"
             PROVE  ecs'[init'[i].task].key = init'[i].task
  BY DEF RecordsFirst
<1>t. TypeInv /\ RowInv /\ RecordsFirst
  BY DEF LifeInv, KeyInv
<1>1. CASE init'[i] = init[i]
  <2>1. init[i].task \in TaskId /\ ecs[init[i].task].bot \in Bot
    BY <1>1, <1>t DEF TypeInv, InitBusy, RowInv, InitHolds
  <2> QED
    BY <1>1, <1>t, <2>1, TaskStays DEF RecordsFirst
<1>2. CASE InitiateRun(i)
  <2>1. PICK t \in TaskId :
           /\ ecs' = [ecs EXCEPT ![t] = [state |-> "running",
                                         bot |-> init[i].bot, key |-> t]]
           /\ init' = [init EXCEPT ![i].pc = "record", ![i].task = t]
    BY <1>2 DEF InitiateRun
  <2> QED
    BY <2>1, <1>t DEF TypeInv, TypeOK, InitState
<1> QED
  BY <1>1, <1>2, <1>t, InitMoves DEF InitIdle

\* As shipped, there is no worker to write one column without the other.
LEMMA UnretriedStep ==
    ASSUME LifeInv, KeyInv, [Next]_vars PROVE Unretried'
<1> SUFFICES ASSUME ~ProcessorRegistered, NEW b \in Bot
             PROVE  /\ \A t \in TaskId : ecs'[t].bot = b => ecs'[t].key = t
                    /\ Launched(b)' => bots'[b].tarFileKey = bots'[b].taskId
  BY DEF Unretried, Launches, ProcessorRegistered
<1>t. /\ TypeInv /\ RowInv /\ HeldInv /\ Unretried /\ worker.pc = "idle"
      /\ bots[b] \in BotRow
  BY DEF LifeInv, KeyInv, HeldInv, WorkerOwn, TypeInv, TypeOK
<1>1. ASSUME NEW t \in TaskId, ecs'[t].bot = b PROVE ecs'[t].key = t
  <2>1. ~WorkerRun
    BY <1>t DEF WorkerRun
  <2>2. CASE ecs[t].bot = b
    BY <2>2, <1>t, TaskStays DEF Unretried, Launches
  <2>3. CASE ecs[t].bot # b
    BY <1>1, <2>1, <2>3, <1>t, EcsMoves
  <2> QED
    BY <2>2, <2>3
<1>2. ASSUME Launched(b)' PROVE bots'[b].tarFileKey = bots'[b].taskId
  <2>1. ASSUME NEW i \in Initiator,
               bots'[b] = StartedRow(bots[b], init[i].task, init[i].was)
        PROVE  bots'[b].tarFileKey = bots'[b].taskId
    BY <2>1, <1>t DEF StartedRow, BotRow
  <2>2. CASE Launched(b) /\ UNCHANGED <<bots[b].taskId, bots[b].tarFileKey>>
    BY <2>2, <1>t DEF Unretried
  <2> QED
    BY <1>2, <2>1, <2>2, <1>t, RowMoves
<1> QED
  BY <1>1, <1>2

\* The four hold together.
LEMMA KeyInvariant == Spec => []KeyInv
<1>1. Init => KeyInv
  BY ConstantsAssumption DEF Init, KeyInv, KeysOwn, RowKey, RecordsFirst, Unretried,
     Launched, Launches, InitIdle
<1>2. LifeInv /\ KeyInv /\ [Next]_vars => KeyInv'
  BY KeysOwnStep, RowKeyStep, RecordsFirstStep, UnretriedStep DEF KeyInv
<1> QED
  BY <1>1, <1>2, LifeInvariant, PTL DEF Spec

\* The row names the archive that its task uploads.  With the processor, of a
\* bot with one first launch: every task of it has that launch's key.
THEOREM ArchiveIsOfRecordedTaskCorrect == Spec => []ArchiveIsOfRecordedTask
<1>1. LifeInv /\ KeyInv => ArchiveIsOfRecordedTask
  <2> SUFFICES ASSUME LifeInv, KeyInv, NEW b \in Bot, bots[b].taskId # None,
                      ProcessorRegistered => Cardinality(FirstLaunches(b)) = 1
               PROVE  ecs[bots[b].taskId].key = bots[b].tarFileKey
    BY DEF ArchiveIsOfRecordedTask
  <2>1. bots[b].taskId \in Launches(b) /\ Launched(b)
    BY DEF LifeInv, RowInv, RowNamesOwnTask, Launched
  <2>2. CASE ~ProcessorRegistered
    BY <2>1, <2>2 DEF KeyInv, Unretried
  <2>3. CASE ProcessorRegistered
    <3>1. IsFiniteSet(FirstLaunches(b))
      BY FiniteTasksAssumption, FS_Subset DEF FirstLaunches, Launches
    <3>2. \A t, u \in FirstLaunches(b) : t = u
      BY <2>3, <3>1, FS_Singleton
    <3>3. /\ ecs[bots[b].taskId].key \in FirstLaunches(b)
          /\ bots[b].tarFileKey \in FirstLaunches(b)
      BY <2>1 DEF KeyInv, KeysOwn, RowKey
    <3> QED
      BY <3>2, <3>3
  <2> QED
    BY <2>2, <2>3
<1> QED
  BY <1>1, KeyInvariant, LifeInvariant, PTL

-----------------------------------------------------------------------------
(* The status and the task.  What leaveCall and syncTaskStatus are about   *)
(* to write was true of a task of their bot, and a task that has ended, or *)
(* was asked to, does not run again.                                       *)

LeaveStopped ==
    \A b \in Bot : leave[b].pc = "mark" => ecs[leave[b].task].state # "running"

Seen(s) ==
    \/ /\ sync[s].verdict \in {"done", "error"}
       /\ \E t \in Launches(sync[s].bot) : ecs[t].state = sync[s].verdict
    \/ sync[s].verdict = "lost" /\ faults > 0

SyncSeen == \A s \in Syncer : sync[s].pc = "mark" => Seen(s)

VerdictInv == LeaveStopped /\ SyncSeen /\ VerdictMatchesTask

\* Failed calls are not forgotten.
LEMMA FaultsCount ==
    ASSUME TypeInv, [Next]_vars PROVE faults' \in Nat /\ faults <= faults'
<1> DEFINE Goal == faults' = faults \/ faults' = faults + 1
<1>1. ASSUME NEW b \in Bot, CreateBot(b) \/ CreateCheck(b) \/ CronNext(b) PROVE Goal
  BY <1>1 DEF CreateBot, CreateCheck, CronNext, boundVars, noteVars
<1>2. ASSUME NEW b \in Bot, LeaveStep(b) PROVE Goal
  BY <1>2 DEF LeaveStep, LeaveRead, LeaveStop, LeaveFail, LeaveMark, Fault, boundVars, noteVars
<1>3. ASSUME NEW b \in Bot, Elapse(b) PROVE Goal
  BY <1>3 DEF Elapse, boundVars, noteVars
<1>4. ASSUME NEW i \in Initiator, InitiateStep(i) PROVE Goal
  BY <1>4 DEF InitiateStep, InitiateRead, InitiateRun, InitiateFail, InitiateRecord,
     Fault, boundVars, noteVars
<1>5. ASSUME CronFindAll PROVE Goal
  BY <1>5 DEF CronFindAll, boundVars, noteVars
<1>6. ASSUME NEW s \in Syncer, SyncStep(s) PROVE Goal
  BY <1>6 DEF SyncStep, SyncFindAll, SyncCheck, SyncMark, SyncMarkFail, SyncEnqueue, SyncTrigger,
     Fault, boundVars, noteVars
<1>7. ASSUME WorkerStep PROVE Goal
  BY <1>7 DEF WorkerStep, WorkerTake, WorkerRun, WorkerFail, WorkerRecord, Fault,
     boundVars, noteVars
<1>8. ASSUME NEW t \in TaskId, TaskEnds(t) PROVE Goal
  BY <1>8 DEF TaskEnds, boundVars, noteVars
<1>9. ASSUME Midnight PROVE Goal
  BY <1>9 DEF Midnight, boundVars, noteVars
<1>10. ASSUME Crash PROVE Goal
  BY <1>10 DEF Crash
<1>11. ASSUME UNCHANGED vars PROVE Goal
  BY <1>11 DEF vars, boundVars, noteVars
<1>12. faults \in Nat
  BY DEF TypeInv, TypeOK
<1>13. Goal
  BY <1>1, <1>2, <1>3, <1>4, <1>5, <1>6, <1>7, <1>8, <1>9, <1>10, <1>11 DEF Next
<1> QED
  BY <1>12, <1>13

\* leaveCall goes on to mark the row only after it has stopped the task.
LEMMA LeaveStoppedStep ==
    ASSUME LifeInv, VerdictInv, [Next]_vars PROVE LeaveStopped'
<1> SUFFICES ASSUME NEW b \in Bot, leave'[b].pc = "mark"
             PROVE  ecs'[leave'[b].task].state # "running"
  BY DEF LeaveStopped
<1>t. /\ TypeInv /\ RowInv /\ HeldInv /\ LeaveStopped
      /\ leave \in [Bot -> LeaveState] /\ ecs \in [TaskId -> Task]
  BY DEF LifeInv, VerdictInv, TypeInv, TypeOK
<1>1. CASE leave'[b] = leave[b]
  <2>1. leave[b].task \in TaskId /\ ecs[leave[b].task].bot \in Bot
    BY <1>1, <1>t DEF RowInv, LeaveHolds, HeldInv, LeaveOwn, LeaveState
  <2> QED
    BY <1>1, <1>t, <2>1, TaskStays DEF LeaveStopped
<1>2. CASE LeaveStop(b)
  <2>1. leave'[b].task = leave[b].task /\ leave[b].task \in TaskId
    BY <1>2, <1>t DEF LeaveStop, LeaveState
  <2>2. ecs'[leave[b].task].state =
           IF ecs[leave[b].task].state = "running" THEN "stopping"
                                                   ELSE ecs[leave[b].task].state
    BY <1>2, <1>t, <2>1 DEF LeaveStop, Task
  <2> QED
    BY <2>1, <2>2
<1>3. ASSUME NEW c \in Bot, LeaveStep(c), ~(c = b /\ LeaveStop(b))
      PROVE  leave'[b] = leave[b]
  BY <1>3, <1>t DEF LeaveStep, LeaveRead, LeaveStop, LeaveFail, LeaveMark, LeaveIdle
<1>4. ~Crash
  BY <1>t DEF Crash, LeaveIdle
<1> QED
  BY <1>1, <1>2, <1>3, <1>4, WritersOfLeave

\* syncTaskStatus marks the row with the state in which it saw the task.
LEMMA SyncSeenStep ==
    ASSUME LifeInv, KeyInv, VerdictInv, [Next]_vars PROVE SyncSeen'
<1> SUFFICES ASSUME NEW s \in Syncer, sync'[s].pc = "mark" PROVE Seen(s)'
  BY DEF SyncSeen
<1>t. /\ TypeInv /\ RowInv /\ HeldInv /\ SyncSeen
      /\ sync \in [Syncer -> SyncState] /\ faults \in Nat
  BY DEF LifeInv, VerdictInv, TypeInv, TypeOK
<1>1. CASE sync'[s] = sync[s]
  <2>1. Seen(s)
    BY <1>1, <1>t DEF SyncSeen
  <2>2. CASE sync[s].verdict = "lost" /\ faults > 0
    BY <1>1, <2>2, <1>t, FaultsCount DEF Seen
  <2>3. ASSUME sync[s].verdict \in {"done", "error"},
               NEW t \in Launches(sync[s].bot), ecs[t].state = sync[s].verdict
        PROVE  Seen(s)'
    <3>1. sync[s].bot \in Bot
      BY <1>1, <1>t DEF TypeInv, SyncBusy
    <3>2. /\ t \in TaskId /\ ecs[t].bot = sync[s].bot
      BY DEF Launches
    <3>3. /\ ecs'[t].bot = sync'[s].bot
          /\ ecs'[t].state = sync'[s].verdict
          /\ sync'[s].verdict \in {"done", "error"}
      BY <1>1, <2>3, <3>1, <3>2, <1>t, TaskStays
    <3> QED
      BY <3>2, <3>3 DEF Seen, Launches
  <2> QED
    BY <2>1, <2>2, <2>3 DEF Seen
<1>2. CASE SyncCheck(s)
  <2>1. PICK p \in sync[s].todo, v \in {"none", "done", "error", "lost"} :
           /\ \/ v = Verdict(ecs[p[2]].state)
              \/ v = "lost" /\ Fault
           /\ sync'[s].verdict = v
           /\ sync'[s].bot = IF v = "none" THEN None ELSE p[1]
           /\ sync'[s].pc = IF v = "none" THEN "idle" ELSE "mark"
           /\ UNCHANGED ecs
    BY <1>2, <1>t DEF SyncCheck
  <2>2. v # "none" /\ sync'[s].bot = p[1]
    BY <2>1
  <2>3. p[2] \in TaskId /\ ecs[p[2]].bot = p[1]
    BY <1>t DEF SyncState, HeldInv, SyncOwn
  <2>4. CASE v = Verdict(ecs[p[2]].state)
    <3>1. v \in {"done", "error"} /\ ecs[p[2]].state = v
      BY <2>2, <2>4 DEF Verdict
    <3>2. /\ ecs'[p[2]].bot = sync'[s].bot
          /\ ecs'[p[2]].state = sync'[s].verdict
          /\ sync'[s].verdict \in {"done", "error"}
      BY <2>1, <2>2, <2>3, <3>1
    <3> QED
      BY <2>3, <3>2 DEF Seen, Launches
  <2>5. CASE v = "lost" /\ Fault
    BY <2>1, <2>5, <1>t DEF Fault, Seen
  <2> QED
    BY <2>1, <2>4, <2>5
<1>5. ASSUME SyncMarkFail(s) \/ SyncTrigger(s) PROVE Seen(s)'
  <2>1. sync[s].bot \in Bot /\ Launched(sync[s].bot)
    BY <1>5, <1>t
       DEF SyncMarkFail, SyncTrigger, TypeInv, SyncBusy, RowInv, SyncHolds
  <2>2. bots[sync[s].bot].tarFileKey # None
    BY <2>1, ConstantsAssumption DEF KeyInv, RowKey, FirstLaunches, Launches
  <2>3. sync'[s].verdict = "lost" /\ Fault
    BY <1>5, <1>t, <2>2 DEF SyncMarkFail, SyncTrigger, SyncIdle, SyncState
  <2> QED
    BY <2>3, <1>t DEF Fault, Seen
<1>3. ASSUME NEW r \in Syncer, SyncStep(r),
             ~(r = s /\ (SyncCheck(s) \/ SyncMarkFail(s) \/ SyncTrigger(s)))
      PROVE  sync'[s] = sync[s]
  BY <1>3, <1>t DEF SyncStep, SyncFindAll, SyncCheck, SyncMark, SyncMarkFail,
     SyncEnqueue, SyncTrigger, AfterMark, SyncIdle, SyncState
<1>4. ~Crash
  BY <1>t DEF Crash, SyncIdle
<1> QED
  BY <1>1, <1>2, <1>3, <1>4, <1>5, WritersOfSync

\* Who writes an ended status, and what is true then.
LEMMA StatusMoves ==
    ASSUME LifeInv, [Next]_vars, NEW b \in Bot
    PROVE  \/ bots'[b].status = bots[b].status
           \/ bots'[b].status \in {"PENDING", "STARTED"}
           \/ leave[b].pc = "mark" /\ bots'[b].status = "STOPPED" /\ UNCHANGED ecs
           \/ \E s \in Syncer : /\ sync[s].pc = "mark" /\ sync[s].bot = b
                               /\ bots'[b].status = MarkedStatus(sync[s].verdict)
                               /\ UNCHANGED ecs
<1> DEFINE Goal ==
      \/ bots'[b].status = bots[b].status
      \/ bots'[b].status \in {"PENDING", "STARTED"}
      \/ leave[b].pc = "mark" /\ bots'[b].status = "STOPPED" /\ UNCHANGED ecs
      \/ \E s \in Syncer : /\ sync[s].pc = "mark" /\ sync[s].bot = b
                          /\ bots'[b].status = MarkedStatus(sync[s].verdict)
                          /\ UNCHANGED ecs
<1>t. /\ bots \in [Bot -> BotRow] /\ TypeInv /\ RowInv
  BY DEF LifeInv, TypeInv, TypeOK
<1>1. ASSUME NEW c \in Bot, CreateBot(c) PROVE Goal
  BY <1>1, <1>t DEF CreateBot, BotRow
<1>2. ASSUME NEW c \in Bot, LeaveMark(c) PROVE Goal
  BY <1>2, <1>t DEF LeaveMark, BotRow
<1>3. ASSUME NEW i \in Initiator, InitiateRecord(i) PROVE Goal
  BY <1>3, <1>t DEF InitiateRecord, StartedRow, BotRow
<1>4. ASSUME NEW s \in Syncer, Marks(s) PROVE Goal
  BY <1>4, <1>t DEF Marks, BotRow
<1>6. CASE WorkerRecord
  BY <1>6, <1>t DEF WorkerRecord, RetriedRow, BotRow
<1>7. CASE UNCHANGED bots
  BY <1>7
<1> QED
  BY <1>1, <1>2, <1>3, <1>4, <1>6, <1>7, WritersOfBots

\* A row that keeps its status keeps telling the truth, and so does one that
\* is given the verdict of a handler.
LEMMA MatchesStep ==
    ASSUME LifeInv, KeyInv, VerdictInv, [Next]_vars PROVE VerdictMatchesTask'
<1> DEFINE Truth(status, state, f) ==
      /\ status = "COMPLETED" => state = "done"
      /\ status = "STOPPED" => state # "running"
      /\ status = "FAILED" /\ f = 0 => state = "error"
<1> SUFFICES ASSUME NEW b \in Bot, NEW t \in TaskId, Launches(b)' = {t}
             PROVE  Truth(bots'[b].status, ecs'[t].state, faults')
  BY DEF VerdictMatchesTask
<1>t. TypeInv /\ RowInv /\ HeldInv /\ faults \in Nat
  BY DEF LifeInv, TypeInv, TypeOK
<1>f. faults' = 0 => faults = 0
  BY <1>t, FaultsCount
<1>l. Launches(b) \subseteq {t} /\ t \in Launches(b)'
  BY LaunchesGrow, <1>t
<1>1. CASE bots'[b].status = bots[b].status /\ bots[b].status \in Ended
  <2>1. bots[b].taskId \in Launches(b)
    BY <1>1, <1>t DEF RowInv, RowNamesOwnTask, Ended
  <2>2. Launches(b) = {t} /\ ecs[t].bot = b
    BY <2>1, <1>l DEF Launches
  <2>3. Truth(bots[b].status, ecs[t].state, faults)
    BY <2>2 DEF VerdictInv, VerdictMatchesTask
  <2>4. /\ ecs[t].state \in {"done", "error"} => ecs'[t].state = ecs[t].state
        /\ ecs[t].state # "running" => ecs'[t].state # "running"
    BY <2>2, <1>t, TaskStays
  <2> QED
    BY <1>1, <1>f, <2>3, <2>4
<1>2. CASE bots'[b].status \notin Ended
  BY <1>2 DEF Ended
<1>3. CASE leave[b].pc = "mark" /\ bots'[b].status = "STOPPED" /\ UNCHANGED ecs
  <2>1. leave[b].task \in TaskId /\ ecs[leave[b].task].bot = b
    BY <1>3, <1>t
       DEF RowInv, LeaveHolds, HeldInv, LeaveOwn, TypeInv, TypeOK, LeaveState
  <2>2. leave[b].task = t
    BY <2>1, <1>l DEF Launches
  <2>3. ecs[t].state # "running"
    BY <1>3, <2>2 DEF VerdictInv, LeaveStopped
  <2> QED
    BY <1>3, <2>3
<1>4. ASSUME NEW s \in Syncer, sync[s].pc = "mark", sync[s].bot = b,
             bots'[b].status = MarkedStatus(sync[s].verdict), UNCHANGED ecs
      PROVE  Truth(bots'[b].status, ecs'[t].state, faults')
  <2>1. Seen(s)
    BY <1>4 DEF VerdictInv, SyncSeen
  <2>2. ASSUME sync[s].verdict \in {"done", "error"},
               NEW u \in Launches(b), ecs[u].state = sync[s].verdict
        PROVE  Truth(bots'[b].status, ecs'[t].state, faults')
    <3>1. u = t
      BY <2>2, <1>l
    <3> QED
      BY <1>4, <2>2, <3>1 DEF MarkedStatus
  <2>3. CASE sync[s].verdict = "lost" /\ faults > 0
    BY <1>4, <2>3, <1>f, <1>t DEF MarkedStatus
  <2> QED
    BY <1>4, <2>1, <2>2, <2>3 DEF Seen
<1>5. bots'[b].status = bots[b].status => \/ bots[b].status \in Ended
                                         \/ bots'[b].status \notin Ended
  OBVIOUS
<1>6. bots'[b].status \in {"PENDING", "STARTED"} => bots'[b].status \notin Ended
  BY DEF Ended
<1> QED
  BY <1>1, <1>2, <1>3, <1>4, <1>5, <1>6, StatusMoves

\* What the row says of a bot launched once is what became of its task.
THEOREM VerdictMatchesTaskCorrect == Spec => []VerdictMatchesTask
<1>1. Init => VerdictInv
  BY ConstantsAssumption
     DEF Init, VerdictInv, LeaveStopped, SyncSeen, VerdictMatchesTask, LeaveIdle, SyncIdle
<1>2. LifeInv /\ KeyInv /\ VerdictInv /\ [Next]_vars => VerdictInv'
  BY LeaveStoppedStep, SyncSeenStep, MatchesStep DEF VerdictInv
<1>3. VerdictInv => VerdictMatchesTask
  BY DEF VerdictInv
<1> QED
  BY <1>1, <1>2, <1>3, KeyInvariant, LifeInvariant, PTL DEF Spec

-----------------------------------------------------------------------------
(* The launch budget.  No variable of the code counts the first launches   *)
(* of a bot.  The invariant counts them together with those still to come: *)
(* one while the create request may run the task, and one until the        *)
(* scheduled job has recorded its own.  A launch whose record is lost is   *)
(* not counted: the bot is PENDING still, and the job will find it again.  *)

MayCreate(b) ==
    bots[b].status = "ABSENT" \/ init[b].pc \in {"inserted", "read", "run"}

MaySchedule(b) ==
    \/ ~Launched(b) \/ b \in cronTodo
    \/ init[Cron].pc # "idle" /\ init[Cron].bot = b

ToCome(b) == (IF MayCreate(b) THEN 1 ELSE 0) + (IF MaySchedule(b) THEN 1 ELSE 0)

CronInHand == IF init[Cron].pc = "record" THEN {init[Cron].task} ELSE {}

Made(b) == FirstLaunches(b) \ (orphans \cup CronInHand)

BudgetInv == \A b \in Bot : Cardinality(Made(b)) + ToCome(b) <= 2

\* The first launches of a bot are a finite set, and so is every part of it.
LEMMA MadeFinite ==
    ASSUME NEW b \in Bot
    PROVE  /\ IsFiniteSet(Made(b)) /\ Cardinality(Made(b)) \in Nat
           /\ Cardinality(FirstLaunches(b) \ orphans) \in Nat
<1>1. Made(b) \subseteq Launches(b) /\ FirstLaunches(b) \ orphans \subseteq Launches(b)
  BY DEF Made, FirstLaunches
<1> QED
  BY <1>1, PartFinite

\* A create request is answered once.
LEMMA MayCreateShrinks ==
    ASSUME LifeInv, [Next]_vars, NEW b \in Bot, MayCreate(b)'
    PROVE  MayCreate(b)
<1>t. TypeInv /\ Created /\ b \in Initiator /\ b # Cron
  BY ConstantsAssumption DEF LifeInv, HeldInv, Initiator
<1>1. CASE bots'[b].status = "ABSENT"
  BY <1>1, <1>t, StaysCreated DEF MayCreate
<1>2. CASE init'[b].pc \in {"inserted", "read", "run"}
  <2>1. CreateBot(b) => bots[b].status = "ABSENT"
    BY DEF CreateBot
  <2>2. init'[b] # InitIdle
    BY <1>2 DEF InitIdle
  <2>3. \/ init'[b] = init[b] \/ bots[b].status = "ABSENT"
        \/ init[b].pc \in {"inserted", "read"}
    BY <1>2, <2>1, <2>2, <1>t, InitMoves
  <2> QED
    BY <1>2, <2>3 DEF MayCreate
<1> QED
  BY <1>1, <1>2 DEF MayCreate

\* A bot that has left PENDING does not come back to the list of the job.
LEMMA StaysLaunched ==
    ASSUME LifeInv, [Next]_vars, NEW b \in Bot, Launched(b)
    PROVE  Launched(b)'
<1>t. TypeInv /\ RowInv /\ bots[b] \in BotRow
  BY DEF LifeInv, TypeInv, TypeOK
<1>1. ASSUME NEW i \in Initiator,
             bots'[b] = StartedRow(bots[b], init[i].task, init[i].was)
      PROVE  Launched(b)'
  BY <1>1, <1>t DEF StartedRow, BotRow, Launched
<1>2. CASE bots'[b] = RetriedRow(bots[b], worker.new, worker.retry)
  BY <1>2, <1>t DEF RetriedRow, BotRow, Launched
<1> QED
  BY <1>1, <1>2, <1>t, RowMoves

\* The scheduled job starts a bot again only if it has not left PENDING.
LEMMA MayScheduleShrinks ==
    ASSUME LifeInv, [Next]_vars, NEW b \in Bot, MaySchedule(b)'
    PROVE  MaySchedule(b)
<1>t. TypeInv /\ Cron \in Initiator /\ Cron \notin Bot
  BY ConstantsAssumption DEF LifeInv, Initiator
<1>1. CASE ~Launched(b)'
  BY <1>1, StaysLaunched DEF MaySchedule
<1>2. CASE CronFindAll
  <2>1. b \in cronTodo' => ~Launched(b)
    BY <1>2 DEF CronFindAll, ToStart, Launched
  <2>2. init' = init /\ bots' = bots
    BY <1>2 DEF CronFindAll, rowVars
  <2> QED
    BY <2>1, <2>2 DEF MaySchedule, Launched
<1>3. CASE b \in cronTodo' /\ cronTodo' \subseteq cronTodo
  BY <1>3 DEF MaySchedule
<1>4. CASE init'[Cron].pc # "idle" /\ init'[Cron].bot = b
  <2>1. CASE init[Cron].pc # "idle" /\ init'[Cron].bot = init[Cron].bot
    BY <1>4, <2>1 DEF MaySchedule
  <2>2. CASE CronNext(b)
    BY <2>2 DEF CronNext, MaySchedule
  <2> QED
    BY <1>4, <2>1, <2>2, <1>t, InitMoves DEF InitIdle
<1> QED
  BY <1>1, <1>2, <1>3, <1>4, CronTodoMoves DEF MaySchedule

\* The update of the scheduled job leaves it nothing to do for its bot.
LEMMA RecordedIsLaunched ==
    ASSUME LifeInv, [Next]_vars, NEW b \in Bot, init[Cron].pc = "record",
           init[Cron].bot = b, InitiateRecord(Cron)
    PROVE  MaySchedule(b) /\ ~MaySchedule(b)'
<1>t. /\ bots \in [Bot -> BotRow] /\ InitHolds /\ Cron \in Initiator /\ CronOnce
      /\ init \in [Initiator -> InitState]
  BY DEF LifeInv, TypeInv, TypeOK, RowInv, HeldInv, Initiator
<1>1. bots'[b] = StartedRow(bots[b], init[Cron].task, init[Cron].was)
  BY <1>t DEF InitiateRecord
<1>2. init[Cron].was = "STARTED" => Launched(b)
  BY <1>t DEF InitHolds
<1>3. Launched(b)'
  BY <1>1, <1>2, <1>t DEF StartedRow, BotRow, Launched
<1>4. b \notin cronTodo' /\ init'[Cron].pc = "idle"
  BY <1>t DEF InitiateRecord, CronOnce, InitIdle
<1> QED
  BY <1>3, <1>4 DEF MaySchedule

\* A launch of the create request is the one that was to come.
LEMMA RunSpends ==
    ASSUME LifeInv, NEW b \in Bot, InitiateRun(b), init[b].bot = b
    PROVE  MayCreate(b) /\ ~MayCreate(b)'
<1>t. /\ init \in [Initiator -> InitState] /\ Created /\ b \in Initiator
  BY DEF LifeInv, TypeInv, TypeOK, HeldInv, Initiator
<1>1. /\ init[b].pc = "run" /\ init'[b].pc = "record" /\ bots' = bots
  BY <1>t DEF InitiateRun, InitState, rowVars
<1>2. bots[b].status # "ABSENT"
  BY <1>1, <1>t DEF Created
<1> QED
  BY <1>1, <1>2 DEF MayCreate

\* A launch adds one task, which is in the hands of who launched it.
LEMMA RunAdds ==
    ASSUME LifeInv, NEW i \in Initiator, InitiateRun(i), NEW b \in Bot
    PROVE  /\ UNCHANGED orphans
           /\ init'[i].pc = "record"
           /\ FirstLaunches(b)' \subseteq FirstLaunches(b) \cup {init'[i].task}
<1>t. init \in [Initiator -> InitState] /\ ecs \in [TaskId -> Task]
  BY DEF LifeInv, TypeInv, TypeOK
<1>1. PICK t \in TaskId :
         /\ ecs' = [ecs EXCEPT ![t] = [state |-> "running", bot |-> init[i].bot,
                                       key |-> t]]
         /\ init' = [init EXCEPT ![i].pc = "record", ![i].task = t]
  BY DEF InitiateRun
<1>2. init'[i].task = t /\ init'[i].pc = "record"
  BY <1>1, <1>t DEF InitState
<1>3. FirstLaunches(b)' \subseteq FirstLaunches(b) \cup {t}
  BY <1>1, <1>t DEF FirstLaunches, Launches
<1> QED
  BY <1>2, <1>3 DEF InitiateRun, boundVars, noteVars

\* Nobody else launches a task with a key of its own: a retry has the key of
\* a task that was launched before it.
LEMMA FirstOnlyByInitiate ==
    ASSUME LifeInv, KeyInv, [Next]_vars, NEW b \in Bot,
           \A i \in Initiator : InitiateRun(i) => init[i].bot # b
    PROVE  FirstLaunches(b)' \subseteq FirstLaunches(b)
<1> SUFFICES ASSUME NEW t \in TaskId, ecs'[t].bot = b, ecs'[t].key = t
             PROVE  ecs[t].bot = b /\ ecs[t].key = t
  BY DEF FirstLaunches, Launches
<1>t. TypeInv /\ RowInv /\ HeldInv /\ KeysOwn
  BY DEF LifeInv, KeyInv
<1>1. ASSUME WorkerRun, ecs[t].state = "unused", t = ecs[worker.task].key
      PROVE  FALSE
  <2>1. worker.bot \in Bot /\ worker.task \in Launches(worker.bot)
    BY <1>1, <1>t DEF WorkerRun, HeldInv, WorkerOwn, TypeInv, WorkerBusy, Launches
  <2>2. ecs[t].bot = worker.bot
    BY <1>1, <2>1, <1>t DEF KeysOwn, FirstLaunches, Launches
  <2> QED
    BY <1>1, <2>1, <2>2, <1>t DEF RowInv, UsedTasks
<1> QED
  BY <1>1, <1>t, EcsMoves

\* What the scheduled job has in hand it keeps, records or loses.
LEMMA CronKeeps ==
    ASSUME LifeInv, [Next]_vars, ~InitiateRecord(Cron)
    PROVE  CronInHand \subseteq CronInHand' \cup orphans'
<1>1. TypeInv /\ HeldInv /\ Cron \in Initiator
  BY DEF LifeInv, Initiator
<1>2. CASE init[Cron].pc = "record"
  <2>1. init'[Cron] = init[Cron] \/ init[Cron].task \in orphans'
    BY <1>1, <1>2, RecorderStays
  <2> QED
    BY <1>2, <2>1 DEF CronInHand
<1>3. CASE init[Cron].pc # "record"
  BY <1>3 DEF CronInHand
<1> QED
  BY <1>2, <1>3

\* The launches made and to come stay within two.
LEMMA BudgetStep ==
    ASSUME LifeInv, KeyInv, BudgetInv, [Next]_vars PROVE BudgetInv'
<1> SUFFICES ASSUME NEW b \in Bot
             PROVE  Cardinality(Made(b)') + ToCome(b)' <= 2
  BY DEF BudgetInv
<1>t. /\ TypeInv /\ RowInv /\ HeldInv /\ Cron \in Initiator
      /\ Cardinality(Made(b)) + ToCome(b) <= 2
      /\ IsFiniteSet(Made(b)) /\ Cardinality(Made(b)) \in Nat
  BY MadeFinite DEF LifeInv, BudgetInv, Initiator
<1>n. ToCome(b) \in Nat /\ ToCome(b)' \in Nat
  BY DEF ToCome
<1>o. orphans \subseteq orphans'
  BY OrphansGrow
<1>c. MayCreate(b)' => MayCreate(b)
  BY MayCreateShrinks
<1>s. MaySchedule(b)' => MaySchedule(b)
  BY MayScheduleShrinks
<1>a. ASSUME Made(b)' \subseteq Made(b)
      PROVE  Cardinality(Made(b)') + ToCome(b)' <= 2
  <2>1. IsFiniteSet(Made(b)') /\ Cardinality(Made(b)') <= Cardinality(Made(b))
    BY <1>a, <1>t, NoMore
  <2>2. Cardinality(Made(b)') \in Nat
    BY <2>1, FS_CardinalityType
  <2>3. ToCome(b)' <= ToCome(b)
    BY <1>c, <1>s DEF ToCome
  <2> QED
    BY <2>1, <2>2, <2>3, <1>t, <1>n
<1>b. ASSUME NEW t, Made(b)' \subseteq Made(b) \cup {t}, ToCome(b)' + 1 <= ToCome(b)
      PROVE  Cardinality(Made(b)') + ToCome(b)' <= 2
  <2>1. IsFiniteSet(Made(b)') /\ Cardinality(Made(b)') <= Cardinality(Made(b)) + 1
    BY <1>b, <1>t, OneMore
  <2>2. Cardinality(Made(b)') \in Nat
    BY <2>1, FS_CardinalityType
  <2> QED
    BY <2>1, <2>2, <1>b, <1>t, <1>n
<1>1. CASE InitiateRecord(Cron)
  <2>1. FirstLaunches(b)' = FirstLaunches(b)
    BY <1>1 DEF InitiateRecord, FirstLaunches, Launches
  <2>2. init[Cron].pc = "record" /\ CronInHand = {init[Cron].task}
    BY <1>1 DEF InitiateRecord, CronInHand
  <2>3. CASE init[Cron].bot = b
    <3>1. MaySchedule(b) /\ ~MaySchedule(b)'
      BY <1>1, <2>2, <2>3, RecordedIsLaunched
    <3>2. ToCome(b)' + 1 <= ToCome(b)
      BY <3>1, <1>c DEF ToCome
    <3>3. Made(b)' \subseteq Made(b) \cup {init[Cron].task}
      BY <2>1, <2>2, <1>o DEF Made
    <3> QED
      BY <3>2, <3>3, <1>b
  <2>4. CASE init[Cron].bot # b
    <3>1. init[Cron].task \notin FirstLaunches(b)
      BY <2>2, <2>4, <1>t DEF RowInv, InitHolds, FirstLaunches, Launches
    <3>2. Made(b)' \subseteq Made(b)
      BY <2>1, <2>2, <3>1, <1>o DEF Made
    <3> QED
      BY <3>2, <1>a
  <2> QED
    BY <2>3, <2>4
<1>2. ASSUME NEW i \in Initiator, InitiateRun(i), init[i].bot = b
      PROVE  Cardinality(Made(b)') + ToCome(b)' <= 2
  <2>1. /\ UNCHANGED orphans /\ init'[i].pc = "record"
        /\ FirstLaunches(b)' \subseteq FirstLaunches(b) \cup {init'[i].task}
    BY <1>2, RunAdds
  <2>2. CASE i = Cron
    <3>1. CronInHand' = {init'[i].task} /\ CronInHand = {}
      BY <2>1, <2>2, <1>2 DEF CronInHand, InitiateRun
    <3>2. Made(b)' \subseteq Made(b)
      BY <2>1, <3>1 DEF Made
    <3> QED
      BY <3>2, <1>a
  <2>3. CASE i \in Bot
    <3>1. i = b
      BY <1>2, <2>3, <1>t DEF HeldInv, Created, InitiateRun
    <3>2. MayCreate(b) /\ ~MayCreate(b)'
      BY <1>2, <3>1, RunSpends
    <3>3. ToCome(b)' + 1 <= ToCome(b)
      BY <3>2, <1>s DEF ToCome
    <3>4. CronInHand' = CronInHand
      <4>1. i # Cron /\ init'[Cron] = init[Cron]
        BY <1>2, <2>3, <1>t, RunTask, ConstantsAssumption
      <4> QED
        BY <4>1 DEF CronInHand
    <3>5. Made(b)' \subseteq Made(b) \cup {init'[i].task}
      BY <2>1, <3>4 DEF Made
    <3> QED
      BY <3>3, <3>5, <1>b
  <2> QED
    BY <2>2, <2>3 DEF Initiator
<1>3. CASE /\ ~InitiateRecord(Cron)
           /\ \A i \in Initiator : InitiateRun(i) => init[i].bot # b
  <2>1. FirstLaunches(b)' \subseteq FirstLaunches(b)
    BY <1>3, FirstOnlyByInitiate
  <2>2. CronInHand \subseteq CronInHand' \cup orphans'
    BY <1>3, CronKeeps
  <2>3. Made(b)' \subseteq Made(b)
    BY <2>1, <2>2, <1>o DEF Made
  <2> QED
    BY <2>3, <1>a
<1> QED
  BY <1>1, <1>2, <1>3

\* initiateBot launches a bot at most twice, and once more for each launch whose
\* record was lost.
THEOREM LaunchBudgetCorrect == Spec => []LaunchBudget
<1>1. Init => BudgetInv
  <2> SUFFICES ASSUME Init, NEW b \in Bot
               PROVE  Cardinality(Made(b)) + ToCome(b) <= 2
    BY DEF BudgetInv
  <2>1. Made(b) = {}
    BY ConstantsAssumption DEF Init, Made, FirstLaunches, Launches
  <2>2. Cardinality(Made(b)) = 0
    BY <2>1, FS_EmptySet
  <2>3. ToCome(b) \in 0 .. 2
    BY DEF ToCome
  <2> QED
    BY <2>2, <2>3
<1>2. LifeInv /\ KeyInv /\ BudgetInv /\ [Next]_vars => BudgetInv'
  BY BudgetStep
<1>3. LifeInv /\ BudgetInv => LaunchBudget
  <2> SUFFICES ASSUME LifeInv, BudgetInv, NEW b \in Bot
               PROVE  Cardinality(FirstLaunches(b) \ orphans) <= 2
    BY DEF LaunchBudget
  <2>t. /\ IsFiniteSet(Made(b)) /\ Cardinality(Made(b)) \in Nat
        /\ Cardinality(FirstLaunches(b) \ orphans) \in Nat
        /\ Cardinality(Made(b)) + ToCome(b) <= 2 /\ ToCome(b) \in 0 .. 2
    BY MadeFinite DEF BudgetInv, ToCome
  <2>1. CASE init[Cron].pc = "record" /\ init[Cron].bot = b
    <3>1. ToCome(b) >= 1
      BY <2>1 DEF ToCome, MaySchedule
    <3>2. FirstLaunches(b) \ orphans \subseteq Made(b) \cup {init[Cron].task}
      BY <2>1 DEF Made, CronInHand
    <3>3. Cardinality(FirstLaunches(b) \ orphans) <= Cardinality(Made(b)) + 1
      BY <3>2, <2>t, OneMore
    <3> QED
      BY <3>1, <3>3, <2>t
  <2>2. CASE ~(init[Cron].pc = "record" /\ init[Cron].bot = b)
    <3>1. CronInHand \cap FirstLaunches(b) = {}
      BY <2>2 DEF CronInHand, LifeInv, RowInv, InitHolds, FirstLaunches, Launches,
         Initiator
    <3>2. FirstLaunches(b) \ orphans = Made(b)
      BY <3>1 DEF Made
    <3> QED
      BY <3>2, <2>t
  <2> QED
    BY <2>1, <2>2
<1> QED
  BY <1>1, <1>2, <1>3, KeyInvariant, LifeInvariant, PTL DEF Spec

-----------------------------------------------------------------------------
(* One live task.  A bot that was launched once is launched again only by  *)
(* the worker, when its recorded task has ended in error.  That this task  *)
(* is dead by then, with all before it, follows from where the bot can be: *)
(* in the list or the hands of syncTaskStatus, in the queue, or in the     *)
(* hands of the worker, but never in two of these places.  A task whose    *)
(* record was lost is beyond what the handlers can know, and a bot that    *)
(* two runs of syncTaskStatus have at once can be queued twice: the        *)
(* invariant leaves both out.                                              *)

\* What the row names is never what is about to be recorded, and no two runs of
\* initiateBot record the same task.
FreshKey ==
    \A i \in Initiator : init[i].pc = "record" =>
        /\ \A b \in Bot : Launched(b) => bots[b].tarFileKey # init[i].task
        /\ \A j \in Initiator :
              j # i /\ init[j].pc = "record" => init[j].task # init[i].task

\* Nobody launches a bot again before its first launch is in the row.
NoRetryYet == \A b \in Bot : ~Launched(b) => Launches(b) \subseteq FirstLaunches(b)

Single(b) == \A t, u \in FirstLaunches(b) : t = u

\* Where a bot can be on its way to a retry: in a list of syncTaskStatus, in its
\* hands, in the queue, in the hands of the worker.
Listed(b) == \E s \in Syncer : \E p \in sync[s].todo : p[1] = b

Held(s, b) == sync[s].pc # "idle" /\ sync[s].bot = b

Engaged(s, b) == Held(s, b) \/ \E p \in sync[s].todo : p[1] = b

\* syncTaskStatus is about to ask for a retry.
Condemns(s, b) ==
    Held(s, b) /\ (sync[s].pc = "enqueue" \/ sync[s].verdict = "error")

Working(b) == worker.pc # "idle" /\ worker.bot = b

Relaunched(b) == worker.pc = "record" /\ worker.bot = b

InQueueOnce(b) ==
    \A m, n \in 1 .. Len(queue) : queue[m] = b /\ queue[n] = b => m = n

\* A bot is in one of those places at a time.
OnePlace(b) ==
    /\ InQueueOnce(b)
    /\ Queued(b) => ~Working(b)
    /\ Queued(b) \/ Working(b) => ~Listed(b) /\ \A s \in Syncer : ~Held(s, b)
    /\ Listed(b) => \A s \in Syncer : ~Held(s, b)
    /\ \A s \in Syncer : \A p, q \in sync[s].todo : p[1] = b /\ q[1] = b => p = q
    /\ \A r, s \in Syncer : Engaged(r, b) /\ Engaged(s, b) => r = s

\* From the mark of syncTaskStatus to the update of the worker the bot is not
\* STARTED, so that no list takes it up.
NotListedAgain(b) ==
    /\ Queued(b) \/ Working(b) => Launched(b) /\ bots[b].status # "STARTED"
    /\ \A s \in Syncer :
          Held(s, b) /\ sync[s].pc = "enqueue" => bots[b].status # "STARTED"

\* The tasks of b whose record was not lost; only t of them may be alive; none.
Known(b) == Launches(b) \ orphans

OnlyAlive(b, t) == \A u \in Known(b) : Alive(u) => u = t

Dead(b) == \A u \in Known(b) : ~Alive(u)

\* A task is launched again only when the others are dead.
Replaced(b) ==
    /\ Queued(b) \/ (Working(b) /\ worker.pc = "run") => Dead(b)
    /\ \A s \in Syncer : Condemns(s, b) => Dead(b)
    /\ \A s \in Syncer : \A p \in sync[s].todo : p[1] = b => OnlyAlive(b, p[2])
    /\ Launched(b) => Relaunched(b) \/ OnlyAlive(b, bots[b].taskId)
    /\ Relaunched(b) => OnlyAlive(b, worker.new)

InOrder(b) == OnePlace(b) /\ NotListedAgain(b) /\ Replaced(b)

ReplaceInv == \A b \in Bot : Single(b) /\ b \notin overlapped => InOrder(b)

\* What initiateBot is about to record is the key of no row yet.
LEMMA FreshKeyStep ==
    ASSUME LifeInv, KeyInv, FreshKey, [Next]_vars PROVE FreshKey'
<1> SUFFICES ASSUME NEW i \in Initiator, init'[i].pc = "record"
             PROVE  /\ \A b \in Bot :
                          Launched(b)' => bots'[b].tarFileKey # init'[i].task
                    /\ \A j \in Initiator : j # i /\ init'[j].pc = "record"
                          => init'[j].task # init'[i].task
  BY DEF FreshKey
<1>t. TypeInv /\ RowInv /\ HeldInv /\ RowKey
  BY DEF LifeInv, KeyInv
<1>1. ASSUME NEW j \in Initiator, init'[j].pc = "record"
      PROVE  \/ init'[j] = init[j]
             \/ InitiateRun(j) /\ init[j].pc = "run"
  BY <1>1, <1>t, InitMoves DEF InitIdle
<1>2. ASSUME NEW j \in Initiator, init[j].pc = "record"
      PROVE  init[j].task \in TaskId /\ ecs[init[j].task].state # "unused"
  <2>1. init[j].bot \in Bot /\ init[j].task \in TaskId
    BY <1>2, <1>t DEF TypeInv, InitBusy
  <2> QED
    BY <1>2, <2>1, <1>t DEF RowInv, InitHolds, UsedTasks
<1>3. ASSUME NEW b \in Bot, Launched(b)
      PROVE  bots[b].tarFileKey \in TaskId /\ ecs[bots[b].tarFileKey].state # "unused"
  BY <1>3, <1>t DEF RowKey, FirstLaunches, Launches, RowInv, UsedTasks
<1>4. CASE InitiateRun(i)
  <2>1. ASSUME NEW b \in Bot, Launched(b)'
        PROVE  bots'[b].tarFileKey # init'[i].task
    <3>1. bots' = bots /\ ecs[init'[i].task].state = "unused"
      BY <1>4, <1>t, RunTask
    <3>2. Launched(b)
      BY <2>1, <3>1 DEF Launched
    <3> QED
      BY <3>1, <3>2, <1>3
  <2>2. ASSUME NEW j \in Initiator, j # i, init'[j].pc = "record"
        PROVE  init'[j].task # init'[i].task
    <3>1. init'[j] = init[j]
      BY <1>4, <1>t, <2>2, RunTask
    <3> QED
      BY <1>4, <1>t, <1>2, <2>2, <3>1, RunTask
  <2> QED
    BY <2>1, <2>2
<1>5. CASE init'[i] = init[i]
  <2>0. init[i].pc = "record"
    BY <1>5
  <2>1. ASSUME NEW b \in Bot, Launched(b)'
        PROVE  bots'[b].tarFileKey # init[i].task
    <3>1. bots[b] \in BotRow
      BY <1>t DEF TypeInv, TypeOK
    <3>2. ASSUME NEW j \in Initiator, init[j].pc = "record", init'[j].pc = "idle",
                 bots'[b] = StartedRow(bots[b], init[j].task, init[j].was)
          PROVE  bots'[b].tarFileKey # init[i].task
      <4>1. j # i /\ init[j].task # init[i].task
        BY <2>0, <3>2, <1>5 DEF FreshKey
      <4>2. bots'[b].tarFileKey = init[j].task
        BY <3>1, <3>2 DEF StartedRow, BotRow
      <4> QED
        BY <4>1, <4>2
    <3>3. ASSUME worker.pc = "record", worker.bot = b,
                 bots'[b] = RetriedRow(bots[b], worker.new, worker.retry)
          PROVE  bots'[b].tarFileKey # init[i].task
      <4>1. Launched(b) /\ bots'[b].tarFileKey = bots[b].tarFileKey
        BY <3>1, <3>3, <1>t DEF RowInv, WorkerHolds, RetriedRow, BotRow
      <4> QED
        BY <2>0, <4>1 DEF FreshKey
    <3>4. ASSUME UNCHANGED bots[b].tarFileKey, Launched(b)
          PROVE  bots'[b].tarFileKey # init[i].task
      BY <2>0, <3>4 DEF FreshKey
    <3> QED
      BY <1>t, <2>1, <3>2, <3>3, <3>4, RowMoves
  <2>2. ASSUME NEW j \in Initiator, j # i, init'[j].pc = "record"
        PROVE  init'[j].task # init'[i].task
    <3>1. CASE init'[j] = init[j]
      BY <1>5, <2>0, <2>2, <3>1 DEF FreshKey
    <3>2. CASE InitiateRun(j)
      BY <1>5, <2>0, <3>2, <1>t, <1>2, RunTask
    <3> QED
      BY <2>2, <1>1, <3>1, <3>2
  <2> QED
    BY <1>5, <2>1, <2>2
<1> QED
  BY <1>1, <1>4, <1>5

\* No task is recorded twice, nor under another's key.
LEMMA FreshKeyInvariant == Spec => []FreshKey
<1>1. Init => FreshKey
  BY DEF Init, FreshKey, InitIdle
<1> QED
  BY <1>1, FreshKeyStep, KeyInvariant, LifeInvariant, PTL DEF Spec

\* The member of a set that counts one.
LEMMA ExactlyOne ==
    ASSUME NEW S, IsFiniteSet(S), Cardinality(S) = 1
    PROVE  \E t \in S : S = {t}
  BY FS_Singleton

\* A bot that counts one first launch.
LEMMA CountsOne ==
    ASSUME NEW b \in Bot, Cardinality(FirstLaunches(b)) = 1
    PROVE  \E t \in FirstLaunches(b) : FirstLaunches(b) = {t}
<1>1. FirstLaunches(b) \subseteq Launches(b)
  BY DEF FirstLaunches
<1> QED
  BY <1>1, PartFinite, ExactlyOne

\* A bot launched once that has ended comes back by a counted retry alone.
THEOREM EndedStaysEndedCorrect == Spec => EndedStaysEnded
<1>1. LifeInv /\ KeyInv /\ RetryInv /\ FreshKey /\ [Next]_vars
        => [\A b \in Bot :
               /\ bots[b].status \in Ended
               /\ Cardinality(FirstLaunches(b)) = 1
               => \/ bots'[b].status \in Ended
                  \/ bots'[b].retryCount = bots[b].retryCount + 1]_vars
  <2> SUFFICES ASSUME LifeInv, KeyInv, RetryInv, FreshKey, [Next]_vars,
                      NEW b \in Bot, bots[b].status \in Ended,
                      Cardinality(FirstLaunches(b)) = 1
               PROVE  \/ bots'[b].status \in Ended
                      \/ bots'[b].retryCount = bots[b].retryCount + 1
    OBVIOUS
  <2>1. /\ TypeInv /\ RowInv /\ Launched(b) /\ bots[b] \in BotRow
    BY DEF LifeInv, TypeInv, TypeOK, Launched, Ended
  <2>2. \A t, u \in FirstLaunches(b) : t = u
    BY CountsOne
  <2>3. ASSUME NEW i \in Initiator, init[i].pc = "record", init[i].bot = b PROVE FALSE
    <3>1. init[i].task \in FirstLaunches(b)
      BY <2>1, <2>3
         DEF TypeInv, InitBusy, RowInv, InitHolds, KeyInv, RecordsFirst,
             FirstLaunches, Launches
    <3>2. bots[b].tarFileKey \in FirstLaunches(b)
      BY <2>1 DEF KeyInv, RowKey
    <3>3. bots[b].tarFileKey # init[i].task
      BY <2>1, <2>3 DEF FreshKey
    <3> QED
      BY <2>2, <3>1, <3>2, <3>3
  <2>4. ASSUME worker.pc = "record", worker.bot = b,
               bots'[b] = RetriedRow(bots[b], worker.new, worker.retry)
        PROVE  bots'[b].retryCount = bots[b].retryCount + 1
    <3>1. worker.retry = bots[b].retryCount
      BY <2>4 DEF RetryInv, JobUnderLimit
    <3>2. bots'[b].retryCount = worker.retry + 1
      BY <2>1, <2>4 DEF RetriedRow, BotRow
    <3> QED
      BY <3>1, <3>2
  <2> QED
    BY <2>1, <2>3, <2>4, RowMoves
<1> QED
  BY <1>1, RetryInvariant, KeyInvariant, FreshKeyInvariant, LifeInvariant, PTL
     DEF Spec, EndedStaysEnded

\* A retry is for a bot whose first launch has been recorded.
LEMMA NoRetryYetStep ==
    ASSUME LifeInv, NoRetryYet, [Next]_vars PROVE NoRetryYet'
<1> SUFFICES ASSUME NEW b \in Bot, ~Launched(b)', NEW t \in TaskId, ecs'[t].bot = b
             PROVE  ecs'[t].key = t
  BY DEF NoRetryYet, Launches, FirstLaunches
<1>t. TypeInv /\ RowInv /\ ~Launched(b)
  BY StaysLaunched DEF LifeInv
<1>1. ecs[t].bot = b => ecs[t].key = t
  BY <1>t DEF NoRetryYet, Launches, FirstLaunches
<1>2. ASSUME WorkerRun, ecs'[t].bot = worker.bot PROVE FALSE
  BY <1>2, <1>t DEF WorkerRun, RowInv, WorkerHolds
<1> QED
  BY <1>t, <1>1, <1>2, EcsMoves

\* Of a bot launched once that is not recorded, that launch is the only task.
LEMMA OnlyFirst ==
    ASSUME NoRetryYet, NEW b \in Bot, ~Launched(b), Single(b),
           NEW t \in FirstLaunches(b)
    PROVE  Launches(b) = {t}
  BY DEF NoRetryYet, Single, FirstLaunches

\* A bot launched once was launched once before.
LEMMA SingleBefore ==
    ASSUME LifeInv, [Next]_vars, NEW b \in Bot, Single(b)'
    PROVE  Single(b)
<1>1. FirstLaunches(b) \subseteq FirstLaunches(b)'
  BY LaunchesGrow DEF LifeInv
<1> QED
  BY <1>1 DEF Single

\* A launch of initiateBot that stays the only one finds a bot without tasks.
LEMMA FirstLaunch ==
    ASSUME LifeInv, KeyInv, NEW i \in Initiator, InitiateRun(i), NEW b \in Bot,
           init[i].bot = b, Single(b)'
    PROVE  Launches(b) = {} /\ ~Launched(b)
<1>t. /\ ecs \in [TaskId -> Task] /\ TypeInv /\ RowInv /\ UsedTasks
  BY DEF LifeInv, RowInv, TypeInv, TypeOK
<1>1. PICK t \in TaskId : /\ ecs[t].state = "unused"
                          /\ ecs' = [ecs EXCEPT ![t] = [state |-> "running",
                                                        bot |-> b, key |-> t]]
  BY DEF InitiateRun
<1>2. ASSUME NEW u \in FirstLaunches(b) PROVE FALSE
  <2>1. u # t /\ u \in TaskId /\ ecs[u].bot = b /\ ecs[u].key = u
    BY <1>1, <1>2, <1>t DEF FirstLaunches, Launches, UsedTasks
  <2>2. ecs'[u].bot = b /\ ecs'[u].key = u /\ ecs'[t].bot = b /\ ecs'[t].key = t
    BY <1>1, <2>1, <1>t
  <2>3. u \in FirstLaunches(b)' /\ t \in FirstLaunches(b)'
    BY <2>1, <2>2, <1>t DEF FirstLaunches, Launches
  <2> QED
    BY <2>1, <2>3 DEF Single
<1>3. Launches(b) = {}
  BY <1>2, <1>t DEF KeyInv, KeysOwn
<1>4. ~Launched(b)
  BY <1>2, <1>t DEF KeyInv, RowKey
<1> QED
  BY <1>3, <1>4

\* A record of the only launch finds a row without a task.
LEMMA FirstRecord ==
    ASSUME LifeInv, KeyInv, FreshKey, NEW i \in Initiator, InitiateRecord(i),
           Single(init[i].bot)
    PROVE  ~Launched(init[i].bot) /\ init[i].task \in FirstLaunches(init[i].bot)
<1> DEFINE b == init[i].bot
<1>1. init[i].pc = "record" /\ b \in Bot /\ init[i].task \in TaskId
  BY DEF InitiateRecord, LifeInv, TypeInv, InitBusy
<1>2. init[i].task \in FirstLaunches(b)
  BY <1>1 DEF LifeInv, RowInv, InitHolds, KeyInv, RecordsFirst, FirstLaunches, Launches
<1>3. Launched(b) => bots[b].tarFileKey = init[i].task
  BY <1>1, <1>2 DEF KeyInv, RowKey, Single
<1>4. Launched(b) => bots[b].tarFileKey # init[i].task
  BY <1>1 DEF FreshKey
<1> QED
  BY <1>2, <1>3, <1>4

\* A step that takes b to no new place.
QueueCalm(b) ==
    /\ Queued(b)' => Queued(b)
    /\ InQueueOnce(b) => InQueueOnce(b)'

WorkerCalm(b) ==
    /\ Working(b)' => UNCHANGED worker
    /\ Relaunched(b) => Relaunched(b)'

SyncCalm(b) ==
    \A s \in Syncer :
        /\ Held(s, b)' =>
              /\ Held(s, b)
              /\ sync'[s].verdict = "error" => sync[s].verdict = "error"
              /\ sync'[s].pc = "enqueue" => sync[s].pc = "enqueue"
        /\ \A p \in sync'[s].todo : p[1] = b => p \in sync[s].todo

\* A step that does not start b, and does not record a task for it.
RowCalm(b) ==
    /\ bots'[b].status = "STARTED" => bots[b].status = "STARTED"
    /\ Launched(b)' <=> Launched(b)
    /\ UNCHANGED bots[b].taskId

\* A step that launches no task of b.
EcsCalm(b) ==
    /\ orphans \subseteq orphans'
    /\ \A u \in TaskId : /\ ecs'[u].bot = b => ecs[u].bot = b
                         /\ ecs'[u].bot = b /\ Alive(u)' => Alive(u)

\* Such a step keeps the order of b.
LEMMA CalmStep ==
    ASSUME NEW b \in Bot, InOrder(b), QueueCalm(b), WorkerCalm(b), SyncCalm(b),
           RowCalm(b), EcsCalm(b)
    PROVE  InOrder(b)'
<1>1. Working(b)' => Working(b) /\ worker' = worker
  BY DEF WorkerCalm, Working
<1>2. Listed(b)' => Listed(b)
  BY DEF SyncCalm, Listed
<1>3. \A s \in Syncer : Held(s, b)' => Held(s, b)
  BY DEF SyncCalm
<1>4. \A u \in Known(b)' : u \in Known(b) /\ (Alive(u)' => Alive(u))
  BY DEF EcsCalm, Known, Launches
<1>5. \A s \in Syncer : Condemns(s, b)' => Condemns(s, b)
  BY DEF SyncCalm, Condemns, Held
<1>6. OnePlace(b)'
  <2>1. \A s \in Syncer : \A p, q \in sync'[s].todo : p[1] = b /\ q[1] = b => p = q
    BY DEF SyncCalm, InOrder, OnePlace
  <2>2. \A s \in Syncer : Engaged(s, b)' => Engaged(s, b)
    BY <1>3 DEF SyncCalm, Engaged
  <2> QED
    BY <2>1, <2>2, <1>1, <1>2, <1>3 DEF QueueCalm, InOrder, OnePlace
<1>7. NotListedAgain(b)'
  <2>1. \A s \in Syncer : Held(s, b)' /\ sync'[s].pc = "enqueue"
           => Held(s, b) /\ sync[s].pc = "enqueue"
    BY DEF SyncCalm
  <2> QED
    BY <2>1, <1>1 DEF QueueCalm, RowCalm, InOrder, NotListedAgain
<1>8. Replaced(b)'
  <2>1. Dead(b) => Dead(b)'
    BY <1>4 DEF Dead
  <2>2. \A t : OnlyAlive(b, t) => \A u \in Known(b)' : Alive(u)' => u = t
    BY <1>4 DEF OnlyAlive
  <2>3. Queued(b)' \/ (Working(b)' /\ worker'.pc = "run") => Dead(b)'
    BY <2>1, <1>1 DEF InOrder, Replaced, QueueCalm
  <2>4. \A s \in Syncer : Condemns(s, b)' => Dead(b)'
    BY <2>1, <1>5 DEF InOrder, Replaced
  <2>5. \A s \in Syncer : \A p \in sync'[s].todo : p[1] = b => OnlyAlive(b, p[2])'
    <3> SUFFICES ASSUME NEW s \in Syncer, NEW p \in sync'[s].todo, p[1] = b
                 PROVE  \A u \in Known(b)' : Alive(u)' => u = p[2]
      BY DEF OnlyAlive
    <3>1. OnlyAlive(b, p[2])
      BY DEF SyncCalm, InOrder, Replaced
    <3> QED
      BY <3>1, <2>2
  <2>6. Launched(b)' => Relaunched(b)' \/ OnlyAlive(b, bots[b].taskId)'
    <3> SUFFICES ASSUME Launched(b)', ~Relaunched(b)'
                 PROVE  \A u \in Known(b)' : Alive(u)' => u = bots'[b].taskId
      BY DEF OnlyAlive
    <3>1. OnlyAlive(b, bots[b].taskId) /\ bots'[b].taskId = bots[b].taskId
      BY DEF RowCalm, WorkerCalm, InOrder, Replaced
    <3> QED
      BY <3>1, <2>2
  <2>7. Relaunched(b)' => OnlyAlive(b, worker.new)'
    <3> SUFFICES ASSUME Relaunched(b)'
                 PROVE  \A u \in Known(b)' : Alive(u)' => u = worker'.new
      BY DEF OnlyAlive
    <3>1. worker' = worker
      BY <1>1 DEF Relaunched, Working
    <3>2. OnlyAlive(b, worker.new)
      BY <3>1 DEF Relaunched, InOrder, Replaced
    <3> QED
      BY <3>1, <3>2, <2>2
  <2> QED
    BY <2>3, <2>4, <2>5, <2>6, <2>7 DEF Replaced
<1> QED
  BY <1>6, <1>7, <1>8 DEF InOrder

\* The actions that change the queue.
LEMMA WritersOfQueue ==
    ASSUME [Next]_vars
    PROVE  \/ UNCHANGED queue
           \/ \E s \in Syncer : SyncEnqueue(s)
           \/ WorkerTake \/ Crash
  BY DEF Next, InitiateStep, LeaveStep, SyncStep, WorkerStep, vars, outVars,
         CreateBot, CreateCheck, CronNext, LeaveRead, LeaveStop, LeaveFail,
         LeaveMark, Elapse, InitiateRead, InitiateRun, InitiateFail,
         InitiateRecord, CronFindAll, SyncFindAll, SyncCheck, SyncMark,
         SyncMarkFail, SyncTrigger, WorkerRun, WorkerFail, WorkerRecord,
         TaskEnds, Midnight

\* What is left of the queue when a job is taken.
LEMMA TakeLeaves ==
    ASSUME TypeInv, WorkerTake
    PROVE  /\ Head(queue) \in Bot /\ Queued(Head(queue))
           /\ \A b \in Bot : QueueCalm(b)
           /\ \A b \in Bot : b = Head(queue) /\ InQueueOnce(b) => ~Queued(b)'
<1>1. /\ queue \in Seq(Bot) /\ queue # <<>> /\ queue' = Tail(queue)
  BY DEF TypeInv, TypeOK, WorkerTake
<1>2. /\ Head(queue) \in Bot /\ Len(queue') = Len(queue) - 1 /\ Len(queue) \in Nat
      /\ \A n \in 1 .. Len(queue') : queue'[n] = queue[n + 1]
      /\ Head(queue) = queue[1] /\ Len(queue) > 0
  BY <1>1, HeadTailProperties
<1>3. \A n \in 1 .. Len(queue') : n + 1 \in 1 .. Len(queue)
  BY <1>2
<1>4. Queued(Head(queue))
  BY <1>2 DEF Queued
<1>5. ASSUME NEW b \in Bot PROVE QueueCalm(b)
  <2>1. Queued(b)' => Queued(b)
    BY <1>2, <1>3 DEF Queued
  <2>2. ASSUME InQueueOnce(b), NEW m \in 1 .. Len(queue'), NEW n \in 1 .. Len(queue'),
               queue'[m] = b, queue'[n] = b
        PROVE  m = n
    <3>1. m + 1 = n + 1
      BY <1>2, <1>3, <2>2 DEF InQueueOnce
    <3> QED
      BY <3>1
  <2> QED
    BY <2>1, <2>2 DEF QueueCalm, InQueueOnce
<1>6. ASSUME NEW b \in Bot, b = Head(queue), InQueueOnce(b),
             NEW n \in 1 .. Len(queue'), queue'[n] = b
      PROVE  FALSE
  <2>1. n + 1 = 1
    BY <1>2, <1>3, <1>6 DEF InQueueOnce
  <2> QED
    BY <2>1
<1> QED
  BY <1>2, <1>4, <1>5, <1>6 DEF Queued

\* What a new job does to the queue.
LEMMA JobIsAppended ==
    ASSUME TypeInv, NEW c \in Bot, queue' = Append(queue, c), NEW b \in Bot
    PROVE  /\ b # c => QueueCalm(b)
           /\ b = c /\ ~Queued(b) => InQueueOnce(b)'
<1>1. /\ queue \in Seq(Bot) /\ Len(queue) \in Nat /\ Len(queue') = Len(queue) + 1
      /\ \A n \in 1 .. Len(queue) : queue'[n] = queue[n]
      /\ queue'[Len(queue) + 1] = c
  BY AppendProperties DEF TypeInv, TypeOK
<1>2. \A n \in 1 .. Len(queue') : n \in 1 .. Len(queue) \/ n = Len(queue) + 1
  BY <1>1
<1>3. ASSUME b # c PROVE QueueCalm(b)
  <2>1. \A n \in 1 .. Len(queue') : queue'[n] = b
           => n \in 1 .. Len(queue) /\ queue[n] = b
    BY <1>1, <1>2, <1>3
  <2> QED
    BY <2>1 DEF QueueCalm, Queued, InQueueOnce
<1>4. ASSUME b = c, ~Queued(b) PROVE InQueueOnce(b)'
  <2>1. \A n \in 1 .. Len(queue') : queue'[n] = b => n = Len(queue) + 1
    BY <1>1, <1>2, <1>4 DEF Queued
  <2> QED
    BY <2>1 DEF InQueueOnce
<1> QED
  BY <1>3, <1>4

\* A job for another bot, or none, leaves b where it is in the queue.
LEMMA QueueIsCalm ==
    ASSUME LifeInv, [Next]_vars, ~Crash, NEW b \in Bot,
           \A s \in Syncer : SyncEnqueue(s) => sync[s].bot # b
    PROVE  QueueCalm(b)
<1>t. TypeInv
  BY DEF LifeInv
<1>1. ASSUME NEW s \in Syncer, SyncEnqueue(s) PROVE QueueCalm(b)
  <2>1. sync[s].bot \in Bot /\ sync[s].bot # b
    BY <1>1, <1>t DEF SyncEnqueue, TypeInv, SyncBusy
  <2>2. CASE queue' = Append(queue, sync[s].bot)
    BY <2>1, <2>2, <1>t, JobIsAppended
  <2>3. CASE UNCHANGED queue
    BY <2>3 DEF QueueCalm, Queued, InQueueOnce
  <2> QED
    BY <1>1, <2>2, <2>3 DEF SyncEnqueue
<1>2. CASE WorkerTake
  BY <1>2, <1>t, TakeLeaves
<1>3. CASE UNCHANGED queue
  BY <1>3 DEF QueueCalm, Queued, InQueueOnce
<1> QED
  BY <1>1, <1>2, <1>3, WritersOfQueue

\* So does the worker, at work on another bot.
LEMMA WorkerIsCalm ==
    ASSUME LifeInv, [Next]_vars, ~Crash, NEW b \in Bot,
           WorkerTake => Head(queue) # b,
           WorkerRun \/ WorkerRecord => worker.bot # b,
           WorkerFail => ~Relaunched(b)
    PROVE  WorkerCalm(b)
<1>t. worker \in WorkerState
  BY DEF LifeInv, TypeInv, TypeOK
<1>1. CASE WorkerTake
  BY <1>1 DEF WorkerTake, WorkerCalm, Working, Relaunched, WorkerIdle
<1>2. CASE WorkerRun
  BY <1>2, <1>t DEF WorkerRun, WorkerCalm, Working, Relaunched, WorkerState
<1>3. CASE WorkerFail
  BY <1>3 DEF WorkerFail, WorkerCalm, Working, Relaunched, WorkerIdle
<1>4. CASE WorkerRecord
  BY <1>4 DEF WorkerRecord, WorkerCalm, Working, Relaunched, WorkerIdle
<1>5. CASE UNCHANGED worker
  BY <1>5 DEF WorkerCalm, Working, Relaunched
<1> QED
  BY <1>1, <1>2, <1>3, <1>4, <1>5, WritersOfWorker

\* So does syncTaskStatus, unless it finds b in the table, takes b from its
\* list, or goes on from its mark of b to a retry.
LEMMA SyncIsCalm ==
    ASSUME LifeInv, [Next]_vars, NEW b \in Bot,
           \A s \in Syncer : /\ SyncFindAll(s) => \A p \in ToSync : p[1] # b
                             /\ SyncCheck(s) => ~Held(s, b)'
                             /\ SyncMark(s) /\ sync[s].bot = b
                                  => sync'[s].pc # "enqueue"
    PROVE  SyncCalm(b)
<1>t. sync \in [Syncer -> SyncState] /\ SyncBusy
  BY DEF LifeInv, TypeInv, TypeOK
<1> DEFINE Quiet(r) ==
      /\ Held(r, b)' =>
            /\ Held(r, b)
            /\ sync'[r].verdict = "error" => sync[r].verdict = "error"
            /\ sync'[r].pc = "enqueue" => sync[r].pc = "enqueue"
      /\ \A p \in sync'[r].todo : p[1] = b => p \in sync[r].todo
<1> SUFFICES ASSUME NEW r \in Syncer PROVE Quiet(r)
  BY DEF SyncCalm
<1>1. CASE sync'[r] = sync[r]
  BY <1>1 DEF Held
<1>2. CASE sync'[r] = [SyncIdle EXCEPT !.todo = sync[r].todo]
  BY <1>2 DEF Held, SyncIdle
<1>3. ASSUME NEW s \in Syncer, SyncCheck(s) PROVE Quiet(r)
  <2>1. CASE r = s
    <3>1. sync'[s].todo \subseteq sync[s].todo
      BY <1>3, <1>t DEF SyncCheck
    <3> QED
      BY <1>3, <2>1, <3>1
  <2>2. CASE r # s
    BY <1>1, <1>3, <2>2, <1>t DEF SyncCheck
  <2> QED
    BY <2>1, <2>2
<1>4. ASSUME NEW s \in Syncer, SyncMark(s) PROVE Quiet(r)
  <2>1. CASE r # s \/ sync'[s] = [SyncIdle EXCEPT !.todo = sync[s].todo]
    BY <1>1, <1>2, <1>4, <2>1, <1>t DEF SyncMark
  <2>2. CASE r = s /\ sync'[s] = [sync[s] EXCEPT !.pc = AfterMark(sync[s].verdict)]
    <3>1. sync[s].pc = "mark" /\ sync[s] \in SyncState
      BY <1>4, <1>t DEF SyncMark
    <3>2. /\ sync'[s].bot = sync[s].bot /\ sync'[s].todo = sync[s].todo
          /\ sync'[s].verdict = sync[s].verdict
      BY <2>2, <3>1 DEF SyncState
    <3> QED
      BY <1>4, <2>2, <3>1, <3>2 DEF Held
  <2> QED
    BY <1>4, <2>1, <2>2, <1>t DEF SyncMark
<1>5. ASSUME NEW s \in Syncer, SyncEnqueue(s) PROVE Quiet(r)
  BY <1>1, <1>2, <1>5, <1>t DEF SyncEnqueue
<1>6. ASSUME NEW s \in Syncer, SyncTrigger(s) PROVE Quiet(r)
  <2>1. CASE r # s \/ sync'[s] = [SyncIdle EXCEPT !.todo = sync[s].todo]
    BY <1>1, <1>2, <1>6, <2>1, <1>t DEF SyncTrigger
  <2>2. ASSUME r = s,
               sync' = [sync EXCEPT ![s].pc = "mark", ![s].verdict = "lost"]
        PROVE  Quiet(r)
    <3>1. sync[s] \in SyncState /\ sync[s].pc = "trigger"
      BY <1>6, <1>t DEF SyncTrigger
    <3>2. /\ sync'[s].bot = sync[s].bot /\ sync'[s].todo = sync[s].todo
          /\ sync'[s].pc = "mark" /\ sync'[s].verdict = "lost"
      BY <2>2, <3>1, <1>t DEF SyncState
    <3> QED
      BY <2>2, <3>1, <3>2 DEF Held
  <2> QED
    BY <1>6, <2>1, <2>2, <1>t DEF SyncTrigger
<1>7. ASSUME NEW s \in Syncer, SyncMarkFail(s) PROVE Quiet(r)
  <2>1. CASE r # s
    BY <1>1, <1>7, <2>1, <1>t DEF SyncMarkFail
  <2>2. CASE r = s /\ sync'[s] = SyncIdle
    BY <2>2 DEF Held, SyncIdle
  <2>3. CASE r = s /\ sync'[s] = [sync[s] EXCEPT !.verdict = "lost"]
    <3>1. sync[s] \in SyncState /\ sync[s].pc = "mark"
      BY <1>7, <1>t DEF SyncMarkFail
    <3>2. /\ sync'[s].bot = sync[s].bot /\ sync'[s].todo = sync[s].todo
          /\ sync'[s].pc = "mark" /\ sync'[s].verdict = "lost"
      BY <2>3, <3>1 DEF SyncState
    <3> QED
      BY <2>3, <3>1, <3>2 DEF Held
  <2> QED
    BY <1>7, <2>1, <2>2, <2>3, <1>t DEF SyncMarkFail
<1>8. ASSUME NEW s \in Syncer, SyncFindAll(s) PROVE Quiet(r)
  <2>1. CASE r # s
    BY <1>1, <1>8, <2>1, <1>t DEF SyncFindAll
  <2>2. CASE r = s
    <3>1. sync'[s].pc = "idle" /\ sync'[s].todo = ToSync
      BY <1>8, <1>t DEF SyncFindAll, SyncState
    <3> QED
      BY <1>8, <2>2, <3>1 DEF Held
  <2> QED
    BY <2>1, <2>2
<1>9. CASE Crash
  BY <1>9 DEF Crash, Held, SyncIdle
<1> QED
  BY <1>1, <1>3, <1>4, <1>5, <1>6, <1>7, <1>8, <1>9, WritersOfSync DEF SyncStep

\* Only initiateBot and the worker start a bot, or change its task id.
LEMMA RowIsCalm ==
    ASSUME LifeInv, [Next]_vars, NEW b \in Bot,
           \A i \in Initiator : InitiateRecord(i) => init[i].bot # b,
           WorkerRecord => worker.bot # b
    PROVE  RowCalm(b)
<1>t. /\ bots \in [Bot -> BotRow] /\ SyncBusy /\ LeaveHolds /\ SyncHolds
      /\ InitBusy /\ WorkerBusy
  BY DEF LifeInv, TypeInv, TypeOK, RowInv
<1>1. ASSUME NEW c \in Bot, CreateBot(c) PROVE RowCalm(b)
  BY <1>1, <1>t DEF CreateBot, BotRow, Launched, RowCalm
<1>2. ASSUME NEW c \in Bot, LeaveMark(c) PROVE RowCalm(b)
  <2>1. Launched(c)
    BY <1>2, <1>t DEF LeaveMark, LeaveHolds
  <2> QED
    BY <1>2, <1>t, <2>1 DEF LeaveMark, BotRow, Launched, RowCalm
<1>3. ASSUME NEW i \in Initiator, InitiateRecord(i) PROVE RowCalm(b)
  BY <1>3, <1>t DEF InitiateRecord, Launched, RowCalm, InitBusy
<1>4. ASSUME NEW s \in Syncer, Marks(s) PROVE RowCalm(b)
  <2>1. sync[s].bot \in Bot /\ Launched(sync[s].bot)
    BY <1>4, <1>t DEF Marks, SyncBusy, SyncHolds
  <2> QED
    BY <1>4, <2>1, <1>t DEF Marks, MarkedStatus, BotRow, Launched, RowCalm
<1>5. CASE WorkerRecord
  BY <1>5, <1>t DEF WorkerRecord, Launched, RowCalm, WorkerBusy
<1>6. CASE UNCHANGED bots
  BY <1>6 DEF RowCalm, Launched
<1> QED
  BY <1>1, <1>2, <1>3, <1>4, <1>5, <1>6, WritersOfBots

\* Only initiateBot and the worker launch a task of b; a stopped task does not
\* come back.
LEMMA EcsIsCalm ==
    ASSUME LifeInv, [Next]_vars, NEW b \in Bot,
           \A i \in Initiator : InitiateRun(i) => init[i].bot # b,
           WorkerRun => worker.bot # b
    PROVE  EcsCalm(b)
  BY EcsMoves, OrphansGrow DEF LifeInv, EcsCalm, Alive

Nowhere(b) == /\ ~Queued(b) /\ ~Working(b) /\ ~Listed(b)
              /\ \A s \in Syncer : ~Held(s, b)

\* A bot that has not left PENDING is on no way to a retry.
LEMMA Unlaunched ==
    ASSUME LifeInv, NEW b \in Bot, ~Launched(b), InOrder(b)
    PROVE  Nowhere(b)
<1>1. \A s \in Syncer : ~Held(s, b)
  BY DEF LifeInv, RowInv, SyncHolds, Held
<1>2. ~Listed(b)
  BY DEF LifeInv, RowInv, SyncHolds, Listed
<1> QED
  BY <1>1, <1>2 DEF InOrder, NotListedAgain, Nowhere

\* A step that leaves b nowhere keeps its order if only the recorded task may
\* be alive.
LEMMA NowhereInOrder ==
    ASSUME NEW b \in Bot, Nowhere(b)',
           Launched(b)' => OnlyAlive(b, bots[b].taskId)'
    PROVE  InOrder(b)'
<1>1. InQueueOnce(b)'
  BY DEF Nowhere, InQueueOnce, Queued
<1>2. /\ \A s \in Syncer : \A p \in sync'[s].todo : p[1] # b
      /\ \A s \in Syncer : ~Condemns(s, b)'
      /\ ~Relaunched(b)'
  BY DEF Nowhere, Listed, Condemns, Working, Relaunched
<1>3. OnePlace(b)'
  BY <1>1, <1>2 DEF Nowhere, OnePlace, Engaged
<1>4. NotListedAgain(b)'
  BY DEF Nowhere, NotListedAgain
<1>5. Replaced(b)'
  BY <1>2 DEF Nowhere, Replaced
<1> QED
  BY <1>3, <1>4, <1>5 DEF InOrder

\* The first launch of b.
LEMMA RunInOrder ==
    ASSUME LifeInv, KeyInv, NEW i \in Initiator, InitiateRun(i), NEW b \in Bot,
           init[i].bot = b, Single(b)', InOrder(b)
    PROVE  InOrder(b)'
<1>1. ~Launched(b) /\ UNCHANGED <<bots, queue, sync, worker>>
  BY FirstLaunch DEF InitiateRun, rowVars, outVars
<1>2. Nowhere(b)' /\ ~Launched(b)'
  BY <1>1, Unlaunched DEF Nowhere, Queued, Working, Listed, Held, Launched
<1> QED
  BY <1>2, NowhereInOrder

\* Its record, which finds the row without a task.
LEMMA RecordInOrder ==
    ASSUME LifeInv, KeyInv, FreshKey, NoRetryYet, NEW i \in Initiator,
           InitiateRecord(i), NEW b \in Bot, init[i].bot = b, Single(b), InOrder(b)
    PROVE  InOrder(b)'
<1>1. ~Launched(b) /\ init[i].task \in FirstLaunches(b)
  BY FirstRecord
<1>2. UNCHANGED <<ecs, queue, sync, worker, orphans>>
  BY DEF InitiateRecord, outVars, boundVars, noteVars
<1>3. Nowhere(b)'
  BY <1>1, <1>2, Unlaunched DEF Nowhere, Queued, Working, Listed, Held
<1>4. bots'[b].taskId = init[i].task
  BY DEF LifeInv, TypeInv, TypeOK, InitiateRecord, StartedRow, BotRow
<1>5. OnlyAlive(b, bots[b].taskId)'
  <2>1. Launches(b) = {init[i].task}
    BY <1>1, OnlyFirst
  <2> QED
    BY <1>2, <1>4, <2>1 DEF OnlyAlive, Known, Launches
<1> QED
  BY <1>3, <1>5, NowhereInOrder

\* A run of syncTaskStatus that finds b in the table, with no other run that
\* has it, finds it nowhere else.
LEMMA FindAllInOrder ==
    ASSUME LifeInv, NEW s \in Syncer, SyncFindAll(s), NEW b \in Bot,
           \E p \in ToSync : p[1] = b, b \notin overlapped', InOrder(b)
    PROVE  InOrder(b)'
<1>1. /\ UNCHANGED <<bots, ecs, queue, worker, orphans>>
      /\ sync' = [sync EXCEPT ![s].todo = ToSync]
      /\ sync \in [Syncer -> SyncState]
      /\ sync[s].pc = "idle" /\ sync[s].todo = {}
  BY DEF LifeInv, TypeInv, TypeOK, SyncFindAll, rowVars, outVars
<1>2. /\ sync'[s].pc = "idle" /\ sync'[s].todo = ToSync
      /\ \A r \in Syncer \ {s} : sync'[r] = sync[r] /\ ~Engaged(r, b)
  <2>1. \A r \in Syncer \ {s} : ~Has(r, b)
    BY DEF SyncFindAll
  <2> QED
    BY <1>1, <2>1 DEF SyncState, Has, Engaged, Held
<1>3. \A r \in Syncer : ~Held(r, b)' /\ ~Condemns(r, b)'
  BY <1>2 DEF Engaged, Held, Condemns
<1>4. \A r \in Syncer : \A p \in sync'[r].todo : p[1] = b =>
         /\ r = s /\ p = <<b, bots[b].taskId>> /\ bots[b].status = "STARTED"
  BY <1>2 DEF ToSync, Engaged
<1>5. /\ Queued(b)' <=> Queued(b)
      /\ Working(b)' <=> Working(b)
      /\ InQueueOnce(b)' <=> InQueueOnce(b)
      /\ Relaunched(b)' <=> Relaunched(b)
      /\ Launched(b)' <=> Launched(b)
      /\ Dead(b)' <=> Dead(b)
  BY <1>1 DEF Queued, Working, InQueueOnce, Relaunched, Launched, Dead, Known, Launches, Alive
<1>6. Listed(b)' => bots[b].status = "STARTED"
  BY <1>4 DEF Listed
<1>7. OnePlace(b)'
  <2>1. \A r \in Syncer : \A p, q \in sync'[r].todo : p[1] = b /\ q[1] = b => p = q
    BY <1>4
  <2>2. \A r \in Syncer : Engaged(r, b)' => r = s
    BY <1>3, <1>4 DEF Engaged
  <2> QED
    BY <2>1, <2>2, <1>3, <1>5, <1>6 DEF InOrder, OnePlace, NotListedAgain
<1>8. NotListedAgain(b)'
  BY <1>1, <1>3, <1>5 DEF InOrder, NotListedAgain
<1>9. Replaced(b)'
  <2>1. \A r \in Syncer : \A p \in sync'[r].todo : p[1] = b => OnlyAlive(b, p[2])'
    <3> SUFFICES ASSUME NEW r \in Syncer, NEW p \in sync'[r].todo, p[1] = b
                 PROVE  OnlyAlive(b, p[2])'
      OBVIOUS
    <3>1. p = <<b, bots[b].taskId>> /\ bots[b].status = "STARTED"
      BY <1>4
    <3>2. ~Relaunched(b) /\ Launched(b)
      BY <3>1 DEF InOrder, NotListedAgain, Relaunched, Working, Launched
    <3>3. OnlyAlive(b, bots[b].taskId)
      BY <3>2 DEF InOrder, Replaced
    <3> QED
      BY <3>1, <3>3, <1>1 DEF OnlyAlive, Known, Launches, Alive
  <2>2. Launched(b)' => Relaunched(b)' \/ OnlyAlive(b, bots[b].taskId)'
    BY <1>1, <1>5 DEF InOrder, Replaced, OnlyAlive, Known, Launches, Alive
  <2>3. Relaunched(b)' => OnlyAlive(b, worker.new)'
    BY <1>1, <1>5 DEF InOrder, Replaced, OnlyAlive, Known, Launches, Alive
  <2>4. Queued(b)' \/ (Working(b)' /\ worker'.pc = "run") => Dead(b)'
    BY <1>1, <1>5 DEF InOrder, Replaced
  <2> QED
    BY <2>1, <2>2, <2>3, <2>4, <1>3 DEF Replaced
<1> QED
  BY <1>7, <1>8, <1>9 DEF InOrder

\* A health check takes b from the list; an error stop shows that its tasks are
\* dead, for it is that of the only one that may be alive.
LEMMA CheckInOrder ==
    ASSUME LifeInv, NEW s \in Syncer, SyncCheck(s), NEW b \in Bot,
           Held(s, b)', InOrder(b)
    PROVE  InOrder(b)'
<1>t. sync \in [Syncer -> SyncState]
  BY DEF LifeInv, TypeInv, TypeOK
<1>1. PICK p \in sync[s].todo, v \in {"none", "done", "error", "lost"} :
         /\ v = Verdict(ecs[p[2]].state) \/ v = "lost"
         /\ sync' = [sync EXCEPT ![s] =
                [pc |-> IF v = "none" THEN "idle" ELSE "mark",
                 todo |-> @.todo \ {p},
                 bot |-> IF v = "none" THEN None ELSE p[1], verdict |-> v]]
  BY DEF SyncCheck
<1>2. /\ UNCHANGED <<bots, ecs, queue, worker, orphans>> /\ sync[s].pc = "idle"
  BY DEF SyncCheck, rowVars, outVars, noteVars
<1>3. /\ sync'[s].pc = "mark" /\ sync'[s].todo = sync[s].todo \ {p}
      /\ sync'[s].verdict = v /\ p[1] = b
  BY <1>1, <1>t DEF Held
<1>4. /\ Listed(b) /\ ~Queued(b) /\ ~Working(b)
      /\ \A q \in sync[s].todo : q[1] = b => q = p
      /\ OnlyAlive(b, p[2])
  BY <1>3 DEF Listed, InOrder, OnePlace, Replaced
<1>r. \A r \in Syncer \ {s} : sync'[r] = sync[r] /\ ~Engaged(r, b)
  BY <1>1, <1>3, <1>t DEF Engaged, InOrder, OnePlace
<1>5. /\ ~Queued(b)' /\ ~Working(b)' /\ ~Relaunched(b)' /\ ~Relaunched(b)
      /\ InQueueOnce(b)'
      /\ Launched(b)' <=> Launched(b)
      /\ Dead(b)' <=> Dead(b)
  BY <1>2, <1>4
     DEF Queued, Working, Relaunched, InQueueOnce, Launched, Dead, Known, Launches, Alive
<1>6. /\ \A r \in Syncer : \A q \in sync'[r].todo : q[1] # b
      /\ \A r \in Syncer : Held(r, b)' \/ Condemns(r, b)' => r = s
  BY <1>3, <1>4, <1>r DEF Engaged, Held, Condemns
<1>7. OnePlace(b)'
  BY <1>5, <1>6 DEF OnePlace, Listed, Engaged
<1>8. NotListedAgain(b)'
  BY <1>3, <1>5, <1>6 DEF NotListedAgain
<1>9. Replaced(b)'
  <2>1. ASSUME v = "error" PROVE Dead(b)
    <3>1. ~Alive(p[2])
      BY <1>1, <2>1 DEF Verdict, Alive
    <3> QED
      BY <3>1, <1>4 DEF OnlyAlive, Dead
  <2>2. \A r \in Syncer : Condemns(r, b)' => Dead(b)'
    BY <2>1, <1>3, <1>5, <1>6 DEF Condemns
  <2>3. Launched(b)' => OnlyAlive(b, bots[b].taskId)'
    BY <1>2, <1>5 DEF InOrder, Replaced, OnlyAlive, Known, Launches, Alive
  <2> QED
    BY <2>2, <2>3, <1>5, <1>6 DEF Replaced
<1> QED
  BY <1>7, <1>8, <1>9 DEF InOrder

\* The mark of a bot that is to be launched again takes it out of STARTED.
LEMMA MarkInOrder ==
    ASSUME LifeInv, NEW s \in Syncer, SyncMark(s), NEW b \in Bot,
           sync[s].bot = b, sync'[s].pc = "enqueue", InOrder(b)
    PROVE  InOrder(b)'
<1>t. /\ sync \in [Syncer -> SyncState] /\ bots \in [Bot -> BotRow]
  BY DEF LifeInv, TypeInv, TypeOK
<1>1. /\ UNCHANGED <<ecs, queue, worker, orphans>> /\ sync[s].pc = "mark"
  BY DEF SyncMark, outVars, boundVars, noteVars
<1>2. AfterMark(sync[s].verdict) = "enqueue" /\ sync[s].verdict = "error"
  <2>1. AfterMark(sync[s].verdict) # "idle"
    BY <1>t DEF SyncMark, SyncIdle
  <2>2. sync'[s].pc = AfterMark(sync[s].verdict)
    BY <2>1, <1>t DEF SyncMark, SyncState
  <2> QED
    BY <2>2 DEF AfterMark
<1>3. sync'[s].todo = sync[s].todo /\ sync'[s].bot = b
  BY <1>2, <1>t DEF SyncMark, SyncState
<1>4. /\ bots'[b].status = "FAILED" /\ bots'[b].taskId = bots[b].taskId
      /\ Launched(b) /\ Launched(b)'
  <2>1. Launched(b)
    BY <1>1 DEF LifeInv, RowInv, SyncHolds
  <2>2. bots' = [bots EXCEPT ![b].status = "FAILED"]
    BY <1>2 DEF SyncMark, MarkedStatus
  <2> QED
    BY <2>1, <2>2, <1>t DEF BotRow, Launched
<1>5. Held(s, b) /\ Dead(b)
  BY <1>1, <1>2 DEF Held, Condemns, InOrder, Replaced
<1>6. ~Queued(b) /\ ~Working(b) /\ ~Listed(b) /\ ~Relaunched(b)
  BY <1>5 DEF InOrder, OnePlace, Working, Relaunched
<1>r. \A r \in Syncer \ {s} : sync'[r] = sync[r] /\ ~Engaged(r, b)
  BY <1>5, <1>t DEF SyncMark, Engaged, InOrder, OnePlace
<1>7. /\ ~Queued(b)' /\ ~Working(b)' /\ ~Relaunched(b)' /\ InQueueOnce(b)'
      /\ Dead(b)'
  BY <1>1, <1>5, <1>6
     DEF Queued, Working, Relaunched, InQueueOnce, Dead, Known, Launches, Alive
<1>8. /\ \A r \in Syncer : \A q \in sync'[r].todo : q[1] # b
      /\ \A r \in Syncer : Held(r, b)' => r = s
  BY <1>3, <1>6, <1>r DEF Listed, Engaged, Held
<1>9. OnePlace(b)'
  BY <1>7, <1>8 DEF OnePlace, Listed, Engaged
<1>10. NotListedAgain(b)'
  BY <1>4, <1>7 DEF NotListedAgain
<1>11. Replaced(b)'
  BY <1>7, <1>8 DEF Replaced, Dead, OnlyAlive
<1> QED
  BY <1>9, <1>10, <1>11 DEF InOrder

\* The job goes to a queue where b is not.
LEMMA EnqueueInOrder ==
    ASSUME LifeInv, NEW s \in Syncer, SyncEnqueue(s), NEW b \in Bot,
           sync[s].bot = b, InOrder(b)
    PROVE  InOrder(b)'
<1>t. /\ sync \in [Syncer -> SyncState] /\ TypeInv
  BY DEF LifeInv, TypeInv, TypeOK
<1>1. /\ UNCHANGED <<bots, ecs, worker, orphans>> /\ sync[s].pc = "enqueue"
      /\ sync'[s].pc = "idle" /\ sync'[s].todo = sync[s].todo
      /\ queue' = Append(queue, b) \/ UNCHANGED queue
  BY <1>t DEF SyncEnqueue, SyncIdle, rowVars, noteVars
<1>2. Held(s, b) /\ Dead(b) /\ Launched(b) /\ bots[b].status # "STARTED"
  BY <1>1
     DEF Held, Condemns, InOrder, Replaced, NotListedAgain, LifeInv, RowInv, SyncHolds
<1>3. ~Queued(b) /\ ~Working(b) /\ ~Listed(b) /\ InQueueOnce(b)
  BY <1>2 DEF InOrder, OnePlace
<1>r. \A r \in Syncer \ {s} : sync'[r] = sync[r] /\ ~Engaged(r, b)
  BY <1>2, <1>t DEF SyncEnqueue, Engaged, InOrder, OnePlace
<1>4. InQueueOnce(b)'
  BY <1>1, <1>3, <1>t, JobIsAppended DEF InQueueOnce
<1>5. /\ ~Working(b)' /\ ~Relaunched(b)' /\ Dead(b)'
  BY <1>1, <1>2, <1>3 DEF Working, Relaunched, Dead, Known, Launches, Alive
<1>6. \A r \in Syncer : \A q \in sync'[r].todo : q[1] # b
  BY <1>1, <1>3, <1>r DEF Listed, Engaged
<1>7. \A r \in Syncer : ~Held(r, b)' /\ ~Condemns(r, b)'
  BY <1>1, <1>r DEF Held, Condemns, Engaged
<1>8. OnePlace(b)'
  BY <1>4, <1>5, <1>6, <1>7 DEF OnePlace, Listed, Engaged
<1>9. NotListedAgain(b)'
  BY <1>1, <1>2, <1>7 DEF NotListedAgain, Launched
<1>10. Replaced(b)'
  BY <1>5, <1>6, <1>7 DEF Replaced, Dead, OnlyAlive
<1> QED
  BY <1>8, <1>9, <1>10 DEF InOrder

\* The worker takes b out of the queue.
LEMMA TakeInOrder ==
    ASSUME LifeInv, WorkerTake, NEW b \in Bot, b = Head(queue), InOrder(b)
    PROVE  InOrder(b)'
<1>t. TypeInv
  BY DEF LifeInv
<1>1. /\ UNCHANGED <<bots, ecs, sync, orphans>>
      /\ worker'.pc \in {"idle", "run"}
  BY DEF WorkerTake, rowVars, WorkerIdle, boundVars, noteVars
<1>2. Queued(b) /\ InQueueOnce(b)
  BY <1>t, TakeLeaves DEF InOrder, OnePlace
<1>3. ~Queued(b)' /\ InQueueOnce(b)'
  BY <1>2, <1>t, TakeLeaves DEF QueueCalm
<1>4. Dead(b) /\ Launched(b) /\ bots[b].status # "STARTED" /\ ~Listed(b)
  BY <1>2 DEF InOrder, OnePlace, NotListedAgain, Replaced
<1>5. \A s \in Syncer : ~Held(s, b) /\ ~Condemns(s, b)
  BY <1>2 DEF InOrder, OnePlace, Condemns
<1>6. \A r \in Syncer : \A q \in sync'[r].todo : q[1] # b
  BY <1>1, <1>4 DEF Listed
<1>7. \A r \in Syncer : ~Held(r, b)' /\ ~Condemns(r, b)'
  BY <1>1, <1>5 DEF Held, Condemns
<1>8. Dead(b)' /\ ~Relaunched(b)'
  BY <1>1, <1>4 DEF Dead, Known, Launches, Alive, Relaunched
<1>9. OnePlace(b)'
  BY <1>3, <1>6, <1>7 DEF OnePlace, Listed, Engaged
<1>10. NotListedAgain(b)'
  BY <1>1, <1>4, <1>7 DEF NotListedAgain, Launched
<1>11. Replaced(b)'
  BY <1>6, <1>7, <1>8 DEF Replaced, Dead, OnlyAlive
<1> QED
  BY <1>9, <1>10, <1>11 DEF InOrder

\* It launches b again when every task of b is dead.
LEMMA RelaunchInOrder ==
    ASSUME LifeInv, WorkerRun, NEW b \in Bot, worker.bot = b, InOrder(b)
    PROVE  InOrder(b)'
<1>t. worker \in WorkerState /\ ecs \in [TaskId -> Task]
  BY DEF LifeInv, TypeInv, TypeOK
<1>1. PICK t \in TaskId :
         /\ ecs' = [ecs EXCEPT ![t] = [state |-> "running", bot |-> b,
                                       key   |-> ecs[worker.task].key]]
         /\ worker' = [worker EXCEPT !.pc = "record", !.new = t]
  BY DEF WorkerRun
<1>2. /\ UNCHANGED <<bots, queue, sync, orphans>> /\ worker.pc = "run"
      /\ worker'.pc = "record" /\ worker'.bot = b /\ worker'.new = t
  BY <1>1, <1>t DEF WorkerRun, WorkerState, rowVars, outVars, boundVars, noteVars
<1>3. Working(b) /\ Dead(b) /\ ~Queued(b) /\ ~Listed(b) /\ Launched(b)
      /\ bots[b].status # "STARTED"
  BY <1>2 DEF Working, InOrder, OnePlace, NotListedAgain, Replaced
<1>4. OnlyAlive(b, worker.new)'
  <2>1. \A u \in TaskId : u # t => ecs'[u] = ecs[u]
    BY <1>1, <1>t
  <2> QED
    BY <2>1, <1>2, <1>3 DEF OnlyAlive, Dead, Known, Launches, Alive
<1>5. \A r \in Syncer : \A q \in sync'[r].todo : q[1] # b
  BY <1>2, <1>3 DEF Listed
<1>6. \A r \in Syncer : ~Held(r, b)' /\ ~Condemns(r, b)'
  BY <1>2, <1>3 DEF InOrder, OnePlace, Held, Condemns
<1>7. ~Queued(b)' /\ InQueueOnce(b)' /\ Relaunched(b)'
  BY <1>2, <1>3 DEF InOrder, OnePlace, Queued, InQueueOnce, Relaunched
<1>8. OnePlace(b)'
  BY <1>5, <1>6, <1>7 DEF OnePlace, Listed, Engaged
<1>9. NotListedAgain(b)'
  BY <1>2, <1>3, <1>6 DEF NotListedAgain, Launched
<1>10. Replaced(b)'
  BY <1>2, <1>4, <1>5, <1>6, <1>7 DEF Replaced
<1> QED
  BY <1>8, <1>9, <1>10 DEF InOrder

\* It records the task that may be alive, and b is on no way to a retry again.
LEMMA RetryRecordInOrder ==
    ASSUME LifeInv, WorkerRecord, NEW b \in Bot, worker.bot = b, InOrder(b)
    PROVE  InOrder(b)'
<1>1. /\ UNCHANGED <<ecs, queue, sync, orphans>> /\ worker.pc = "record"
      /\ worker'.pc = "idle"
  BY DEF WorkerRecord, outVars, WorkerIdle, boundVars, noteVars
<1>2. Working(b) /\ ~Queued(b) /\ ~Listed(b) /\ \A r \in Syncer : ~Held(r, b)
  BY <1>1 DEF Working, InOrder, OnePlace
<1>3. Nowhere(b)'
  BY <1>1, <1>2 DEF Nowhere, Queued, Working, Listed, Held
<1>4. bots'[b].taskId = worker.new
  BY DEF LifeInv, TypeInv, TypeOK, WorkerRecord, RetriedRow, BotRow
<1>5. OnlyAlive(b, worker.new)
  BY <1>1 DEF Relaunched, InOrder, Replaced
<1>6. OnlyAlive(b, bots[b].taskId)'
  BY <1>1, <1>4, <1>5 DEF OnlyAlive, Known, Launches, Alive
<1> QED
  BY <1>3, <1>6, NowhereInOrder

\* A job that ends without its update, or dies with it, leaves b without a live
\* task that is known: the one in its hands is lost.
LEMMA LostIsDead ==
    ASSUME LifeInv, NEW b \in Bot, Relaunched(b), InOrder(b), UNCHANGED ecs,
           orphans \subseteq orphans', worker.new \in TaskId => worker.new \in orphans'
    PROVE  Dead(b)'
<1>1. worker.new \in orphans' /\ OnlyAlive(b, worker.new)
  BY DEF LifeInv, TypeInv, WorkerBusy, Relaunched, InOrder, Replaced
<1> QED
  BY <1>1 DEF OnlyAlive, Dead, Known, Launches, Alive

\* The update after the launch is rejected.
LEMMA LoseInOrder ==
    ASSUME LifeInv, WorkerFail, NEW b \in Bot, Relaunched(b), InOrder(b)
    PROVE  InOrder(b)'
<1>1. /\ UNCHANGED <<ecs, queue, sync>> /\ worker'.pc = "idle"
      /\ orphans' = orphans \cup ({worker.new} \ {None}) /\ None \notin TaskId
  BY ConstantsAssumption DEF WorkerFail, outVars, WorkerIdle
<1>2. Working(b) /\ ~Queued(b) /\ ~Listed(b) /\ \A r \in Syncer : ~Held(r, b)
  BY DEF Relaunched, Working, InOrder, OnePlace
<1>3. Nowhere(b)'
  BY <1>1, <1>2 DEF Nowhere, Queued, Working, Listed, Held
<1>4. Dead(b)'
  BY <1>1, LostIsDead
<1> QED
  BY <1>3, <1>4, NowhereInOrder DEF Dead, OnlyAlive

\* A stalled job comes back to a queue where its bot is not.
LEMMA JobComesBack ==
    ASSUME LifeInv, Crash, NEW b \in Bot, InOrder(b)
    PROVE  /\ Queued(b)' => Queued(b) \/ Working(b)
           /\ InQueueOnce(b)'
<1>1. CASE UNCHANGED queue
  BY <1>1 DEF InOrder, OnePlace, Queued, InQueueOnce
<1>2. CASE worker.pc # "idle" /\ queue' = <<worker.bot>> \o queue
  <2>1. /\ worker.bot \in Bot /\ queue \in Seq(Bot) /\ Len(queue) \in Nat
    BY <1>2 DEF LifeInv, TypeInv, TypeOK, WorkerBusy
  <2>2. /\ Len(queue') = Len(queue) + 1 /\ queue'[1] = worker.bot
        /\ \A n \in 2 .. Len(queue') : queue'[n] = queue[n - 1]
    BY <1>2, <2>1
  <2>3. \A n \in 1 .. Len(queue') :
           \/ n = 1 /\ queue'[n] = worker.bot
           \/ n - 1 \in 1 .. Len(queue) /\ queue'[n] = queue[n - 1]
    BY <2>1, <2>2
  <2>4. Queued(b)' => Queued(b) \/ Working(b)
    BY <1>2, <2>3 DEF Queued, Working
  <2>5. ASSUME NEW m \in 1 .. Len(queue'), NEW n \in 1 .. Len(queue'),
               queue'[m] = b, queue'[n] = b
        PROVE  m = n
    <3>1. CASE worker.bot = b
      <4>1. \A k \in 1 .. Len(queue) : queue[k] # b
        BY <1>2, <3>1 DEF InOrder, OnePlace, Working, Queued
      <4> QED
        BY <2>3, <2>5, <4>1
    <3>2. CASE worker.bot # b
      <4>1. /\ m - 1 \in 1 .. Len(queue) /\ queue[m - 1] = b
            /\ n - 1 \in 1 .. Len(queue) /\ queue[n - 1] = b
        BY <2>3, <2>5, <3>2
      <4>2. m - 1 = n - 1
        BY <4>1 DEF InOrder, OnePlace, InQueueOnce
      <4> QED
        BY <4>2
    <3> QED
      BY <3>1, <3>2
  <2> QED
    BY <2>4, <2>5 DEF InQueueOnce
<1> QED
  BY <1>1, <1>2 DEF Crash

\* The process dies: of all places the queue alone is left.
LEMMA CrashInOrder ==
    ASSUME LifeInv, Crash, NEW b \in Bot, InOrder(b)
    PROVE  InOrder(b)'
<1>t. worker.pc \in {"idle", "run", "record"} /\ None \notin TaskId
  BY ConstantsAssumption DEF LifeInv, TypeInv, TypeOK, WorkerState
<1>1. /\ UNCHANGED <<bots, ecs>> /\ worker' = WorkerIdle
      /\ \A r \in Syncer : sync'[r] = SyncIdle
      /\ orphans \subseteq orphans'
      /\ worker.new \in TaskId => worker.new \in orphans'
  BY <1>t DEF Crash, rowVars
<1>2. /\ ~Working(b)' /\ ~Relaunched(b)' /\ ~Listed(b)'
      /\ \A r \in Syncer : ~Held(r, b)' /\ ~Engaged(r, b)' /\ ~Condemns(r, b)'
      /\ \A r \in Syncer : sync'[r].todo = {}
  BY <1>1 DEF Working, Relaunched, Listed, Held, Engaged, Condemns, WorkerIdle, SyncIdle
<1>3. /\ Queued(b)' => Queued(b) \/ Working(b)
      /\ InQueueOnce(b)'
  BY JobComesBack
<1>4. Dead(b) => Dead(b)'
  BY <1>1 DEF Dead, Known, Launches, Alive
<1>5. Relaunched(b) => Dead(b)'
  BY <1>1, LostIsDead
<1>6. OnePlace(b)'
  BY <1>2, <1>3 DEF OnePlace
<1>7. NotListedAgain(b)'
  BY <1>1, <1>2, <1>3 DEF InOrder, NotListedAgain, Launched
<1>8. Replaced(b)'
  <2>1. Queued(b)' => Dead(b)'
    BY <1>3, <1>4, <1>5, <1>t DEF InOrder, Replaced, Working, Relaunched
  <2>2. Launched(b)' => OnlyAlive(b, bots[b].taskId)'
    <3>1. CASE Relaunched(b)
      BY <3>1, <1>5 DEF Dead, OnlyAlive
    <3>2. CASE ~Relaunched(b)
      BY <3>2, <1>1
         DEF InOrder, Replaced, OnlyAlive, Known, Launches, Alive, Launched
    <3> QED
      BY <3>1, <3>2
  <2> QED
    BY <2>1, <2>2, <1>2 DEF Replaced
<1> QED
  BY <1>6, <1>7, <1>8 DEF InOrder

\* What two runs of syncTaskStatus once had at the same time stays known.
LEMMA OverlappedGrows == [Next]_vars => overlapped \subseteq overlapped'
  BY DEF Next, InitiateStep, LeaveStep, SyncStep, WorkerStep, vars, boundVars,
         noteVars, CreateBot, CreateCheck, CronNext, LeaveRead, LeaveStop,
         LeaveFail, LeaveMark, Elapse, InitiateRead, InitiateRun, InitiateFail,
         InitiateRecord, CronFindAll, SyncFindAll, SyncCheck, SyncMark,
         SyncMarkFail, SyncEnqueue, SyncTrigger, WorkerTake, WorkerRun,
         WorkerFail, WorkerRecord, TaskEnds, Crash, Midnight

\* What a step has b in its hands for.
AtHand(b) ==
    \/ \E i \in Initiator : (InitiateRun(i) \/ InitiateRecord(i)) /\ init[i].bot = b
    \/ \E s \in Syncer : \/ SyncFindAll(s) /\ \E p \in ToSync : p[1] = b
                         \/ SyncCheck(s) /\ Held(s, b)'
                         \/ SyncMark(s) /\ sync[s].bot = b /\ sync'[s].pc = "enqueue"
                         \/ SyncEnqueue(s) /\ sync[s].bot = b
    \/ WorkerTake /\ b = Head(queue)
    \/ (WorkerRun \/ WorkerRecord) /\ worker.bot = b
    \/ WorkerFail /\ Relaunched(b)
    \/ Crash

\* A bot launched once stays in order while no two runs of syncTaskStatus have
\* it at once.
LEMMA ReplaceStep ==
    ASSUME LifeInv, KeyInv, FreshKey, NoRetryYet, ReplaceInv, [Next]_vars
    PROVE  ReplaceInv'
<1> SUFFICES ASSUME NEW b \in Bot, Single(b)', b \notin overlapped'
             PROVE  InOrder(b)'
  BY DEF ReplaceInv
<1>1. Single(b) /\ InOrder(b)
  BY SingleBefore, OverlappedGrows DEF ReplaceInv
<1>2. CASE AtHand(b)
  BY <1>1, <1>2, RunInOrder, RecordInOrder, FindAllInOrder, CheckInOrder,
     MarkInOrder, EnqueueInOrder, TakeInOrder, RelaunchInOrder,
     RetryRecordInOrder, LoseInOrder, CrashInOrder DEF AtHand
<1>3. CASE ~AtHand(b)
  <2>1. QueueCalm(b)
    BY <1>3, QueueIsCalm DEF AtHand
  <2>2. WorkerCalm(b)
    BY <1>3, WorkerIsCalm DEF AtHand
  <2>3. SyncCalm(b)
    BY <1>3, SyncIsCalm DEF AtHand
  <2>4. RowCalm(b)
    BY <1>3, RowIsCalm DEF AtHand
  <2>5. EcsCalm(b)
    BY <1>3, EcsIsCalm DEF AtHand
  <2> QED
    BY <1>1, <2>1, <2>2, <2>3, <2>4, <2>5, CalmStep
<1> QED
  BY <1>2, <1>3

\* A set with at most one member counts at most one.
LEMMA AtMostOne ==
    ASSUME NEW S, NEW t, S \subseteq {t}
    PROVE  Cardinality(S) <= 1
<1>1. IsFiniteSet({t}) /\ Cardinality({t}) = 1
  BY FS_Singleton
<1> QED
  BY <1>1, FS_Subset

\* Two recorded tasks of a bot that initiateBot launched once never sit in the
\* meeting together, unless two runs of syncTaskStatus had the bot at once.
THEOREM AtMostOneLiveTaskCorrect == Spec => []AtMostOneLiveTask
<1>1. Init => NoRetryYet /\ ReplaceInv
  <2> SUFFICES ASSUME Init PROVE NoRetryYet /\ ReplaceInv
    OBVIOUS
  <2>2. \A b \in Bot : Launches(b) = {} /\ ~Launched(b)
    BY ConstantsAssumption DEF Init, Launches, Launched
  <2>3. NoRetryYet
    BY <2>2 DEF NoRetryYet
  <2>4. ASSUME NEW b \in Bot PROVE InOrder(b)
    <3>1. /\ ~Queued(b) /\ ~Working(b) /\ ~Listed(b) /\ InQueueOnce(b)
          /\ \A s \in Syncer : ~Held(s, b) /\ ~Engaged(s, b)
      BY DEF Init, Queued, Working, Listed, Held, Engaged, InQueueOnce, SyncIdle,
             WorkerIdle
    <3>2. OnePlace(b) /\ NotListedAgain(b)
      BY <3>1 DEF OnePlace, NotListedAgain, Listed
    <3>3. Replaced(b)
      BY <3>1, <2>2 DEF Replaced, Condemns, Listed, Relaunched, Working
    <3> QED
      BY <3>2, <3>3 DEF InOrder
  <2> QED
    BY <2>3, <2>4 DEF ReplaceInv
<1>2. /\ LifeInv /\ KeyInv /\ FreshKey /\ NoRetryYet /\ ReplaceInv /\ [Next]_vars
      => NoRetryYet' /\ ReplaceInv'
  BY NoRetryYetStep, ReplaceStep
<1>3. LifeInv /\ NoRetryYet /\ ReplaceInv => AtMostOneLiveTask
  <2> SUFFICES ASSUME LifeInv, NoRetryYet, ReplaceInv, NEW b \in Bot,
                      Cardinality(FirstLaunches(b)) = 1, b \notin overlapped
               PROVE  Cardinality({t \in Launches(b) \ orphans : Alive(t)}) <= 1
    BY DEF AtMostOneLiveTask
  <2>1. PICK t \in FirstLaunches(b) : FirstLaunches(b) = {t}
    BY CountsOne
  <2>2. Single(b)
    BY <2>1 DEF Single
  <2>3. CASE ~Launched(b)
    <3>1. {u \in Launches(b) \ orphans : Alive(u)} \subseteq {t}
      BY <2>1, <2>2, <2>3, OnlyFirst
    <3> QED
      BY <3>1, AtMostOne
  <2>4. CASE Launched(b)
    <3>1. PICK u : OnlyAlive(b, u)
      BY <2>2, <2>4 DEF ReplaceInv, InOrder, Replaced
    <3>2. {v \in Launches(b) \ orphans : Alive(v)} \subseteq {u}
      BY <3>1 DEF OnlyAlive, Known
    <3> QED
      BY <3>2, AtMostOne
  <2> QED
    BY <2>3, <2>4
<1> QED
  BY <1>1, <1>2, <1>3, KeyInvariant, FreshKeyInvariant, LifeInvariant, PTL DEF Spec
=============================================================================
