---------------------- MODULE TranscriptPipelineProofs ----------------------
(***************************************************************************)
(* Theorems about TranscriptPipeline, for every number of archives, slots  *)
(* of the pool, webhook processes, duplicates, faults and crashes.         *)
(***************************************************************************)
EXTENDS TranscriptPipeline, FiniteSetTheorems, TLAPS

-----------------------------------------------------------------------------
(* Type correctness.  TypeOK alone is not inductive: a request or a task   *)
(* that is at work holds the key its next step uses, and an idle one none. *)

HookBusy == \A h \in Webhook : hook[h].pc # "idle" <=> hook[h].key \in Key

TaskBusy == \A w \in Worker : task[w].pc # "idle" <=> task[w].key \in Key

TypeInv == TypeOK /\ HookBusy /\ TaskBusy

\* An idle handler's key is no key.
LEMMA NoneIsNoKey == None \notin Key
  BY PipelineConstants

\* The messages a dying worker gives back are finitely many.
LEMMA UnackedIsNat == ASSUME NEW k \in Key PROVE Unacked(k) \in Nat
<1>1. IsFiniteSet({w \in Worker : task[w].key = k})
  BY FiniteWorkers, FS_Subset
<1> QED
  BY <1>1, FS_CardinalityType DEF Unacked

\* Every action keeps every variable in its type, and every handler supplied.
LEMMA TypeStep == TypeInv /\ [Next]_vars => TypeInv'
<1> SUFFICES ASSUME TypeInv, [Next]_vars PROVE TypeInv'
  OBVIOUS
<1>archive. archive \in SUBSET Key
  BY DEF TypeInv, TypeOK
<1>asked. asked \in SUBSET Key
  BY DEF TypeInv, TypeOK
<1>notices. notices \in [Key -> Nat]
  BY DEF TypeInv, TypeOK
<1>fileLog. fileLog \in [Key -> Row]
  BY DEF TypeInv, TypeOK
<1>logs. logs \in [Key -> Nat]
  BY DEF TypeInv, TypeOK
<1>queued. queued \in [Key -> Nat]
  BY DEF TypeInv, TypeOK
<1>hook. hook \in [Webhook -> HookState] /\ HookBusy
  BY DEF TypeInv, TypeOK
<1>rpc. rpc \in [Key -> {"idle", "insert", "delay"}]
  BY DEF TypeInv, TypeOK
<1>task. task \in [Worker -> TaskState] /\ TaskBusy
  BY DEF TypeInv, TypeOK
<1>extra. extra \in Nat
  BY DEF TypeInv, TypeOK
<1>faults. faults \in Nat
  BY DEF TypeInv, TypeOK
<1>crashes. crashes \in Nat
  BY DEF TypeInv, TypeOK
<1>lost. lost \in SUBSET Key
  BY DEF TypeInv, TypeOK
<1>1. ASSUME NEW k \in Key, Upload(k) PROVE TypeInv'
  <2>1. archive' \in SUBSET Key
    BY <1>1, <1>archive DEF Upload
  <2>2. notices' \in [Key -> Nat]
    BY <1>1, <1>notices DEF Upload, Again
  <2> QED
    BY <1>1, <2>1, <2>2 DEF Upload, outside, bounds, TypeInv, TypeOK, HookBusy, TaskBusy
<1>2. ASSUME NEW k \in Key, Duplicate(k) PROVE TypeInv'
  <2>1. notices' \in [Key -> Nat]
    BY <1>2, <1>notices DEF Duplicate, Again
  <2>2. extra' \in Nat
    BY <1>2, <1>extra DEF Duplicate
  <2> QED
    BY <1>2, <2>1, <2>2 DEF Duplicate, outside, bounds, TypeInv, TypeOK, HookBusy, TaskBusy
<1>3. ASSUME NEW k \in Key, RpcValidate(k) PROVE TypeInv'
  <2>1. asked' \in SUBSET Key
    BY <1>3, <1>asked DEF RpcValidate
  <2>2. rpc' \in [Key -> {"idle", "insert", "delay"}]
    BY <1>3, <1>rpc DEF RpcValidate
  <2> QED
    BY <1>3, <2>1, <2>2 DEF RpcValidate, outside, bounds, TypeInv, TypeOK, HookBusy, TaskBusy
<1>4. ASSUME NEW k \in Key, RpcInsert(k) PROVE TypeInv'
  <2>1. fileLog' \in [Key -> Row]
    BY <1>4, <1>fileLog DEF RpcInsert, Row, FileState, Inserted
  <2>2. rpc' \in [Key -> {"idle", "insert", "delay"}]
    BY <1>4, <1>rpc DEF RpcInsert
  <2> QED
    BY <1>4, <2>1, <2>2 DEF RpcInsert, outside, bounds, TypeInv, TypeOK, HookBusy, TaskBusy
<1>5. ASSUME NEW k \in Key, RpcDelay(k) PROVE TypeInv'
  <2>1. queued' \in [Key -> Nat]
    BY <1>5, <1>queued DEF RpcDelay, Delay
  <2>2. rpc' \in [Key -> {"idle", "insert", "delay"}]
    BY <1>5, <1>rpc DEF RpcDelay
  <2> QED
    BY <1>5, <2>1, <2>2 DEF RpcDelay, outside, bounds, TypeInv, TypeOK, HookBusy, TaskBusy
<1>6. ASSUME NEW k \in Key, RpcFail(k) PROVE TypeInv'
  <2>1. rpc' \in [Key -> {"idle", "insert", "delay"}]
    BY <1>6, <1>rpc DEF RpcFail
  <2>2. faults' \in Nat
    BY <1>6, <1>faults DEF RpcFail, Fault
  <2> QED
    BY <1>6, <2>1, <2>2 DEF RpcFail, outside, bounds, TypeInv, TypeOK, HookBusy, TaskBusy
<1>7. ASSUME NEW k \in Key, Reprocess(k) PROVE TypeInv'
  <2>1. queued' \in [Key -> Nat]
    BY <1>7, <1>queued DEF Reprocess, Delay
  <2>2. extra' \in Nat
    BY <1>7, <1>extra DEF Reprocess
  <2> QED
    BY <1>7, <2>1, <2>2 DEF Reprocess, outside, bounds, TypeInv, TypeOK, HookBusy, TaskBusy
<1>8. ASSUME NEW h \in Webhook, NEW k \in Key, HookGet(h, k) PROVE TypeInv'
  <2>1. notices' \in [Key -> Nat]
    BY <1>8, <1>notices DEF HookGet, Again
  <2>2. fileLog' \in [Key -> Row]
    BY <1>8, <1>fileLog DEF HookGet, Row, FileState, Inserted
  <2>3. hook' \in [Webhook -> HookState] /\ HookBusy'
    BY <1>8, <1>hook, <1>fileLog, NoneIsNoKey DEF HookGet, HookBusy, HookState, HookIdle, NoRow, Row, FileState, Inserted
  <2> QED
    BY <1>8, <2>1, <2>2, <2>3 DEF HookGet, outside, bounds, TypeInv, TypeOK, TaskBusy
<1>9. ASSUME NEW h \in Webhook, HookSave(h) PROVE TypeInv'
  <2>1. fileLog' \in [Key -> Row]
    BY <1>9, <1>fileLog, <1>hook DEF HookSave, Row, FileState, Inserted, HookBusy, HookState
  <2>2. hook' \in [Webhook -> HookState] /\ HookBusy'
    BY <1>9, <1>hook, NoneIsNoKey DEF HookSave, HookBusy, HookState, HookIdle, NoRow, Row, FileState
  <2> QED
    BY <1>9, <2>1, <2>2 DEF HookSave, outside, bounds, TypeInv, TypeOK, TaskBusy
<1>10. ASSUME NEW h \in Webhook, HookDelay(h) PROVE TypeInv'
  <2>1. queued' \in [Key -> Nat]
    BY <1>10, <1>queued, <1>hook DEF HookDelay, Delay, HookBusy, HookState
  <2>2. hook' \in [Webhook -> HookState] /\ HookBusy'
    BY <1>10, <1>hook, NoneIsNoKey DEF HookDelay, HookBusy, HookState, HookIdle, NoRow, Row, FileState
  <2> QED
    BY <1>10, <2>1, <2>2 DEF HookDelay, outside, bounds, TypeInv, TypeOK, TaskBusy
<1>11. ASSUME NEW h \in Webhook, HookFail(h) PROVE TypeInv'
  <2>1. notices' \in [Key -> Nat]
    BY <1>11, <1>notices, <1>hook DEF HookFail, Again, HookBusy, HookState, Fault
  <2>2. hook' \in [Webhook -> HookState] /\ HookBusy'
    BY <1>11, <1>hook, NoneIsNoKey DEF HookFail, HookBusy, HookState, HookIdle, NoRow, Row, FileState
  <2>3. faults' \in Nat
    BY <1>11, <1>faults DEF HookFail, Fault
  <2> QED
    BY <1>11, <2>1, <2>2, <2>3 DEF HookFail, outside, bounds, TypeInv, TypeOK, TaskBusy
<1>12. ASSUME NEW h \in Webhook, GunicornDies(h) PROVE TypeInv'
  <2>1. notices' \in [Key -> Nat]
    BY <1>12, <1>notices, <1>hook DEF GunicornDies, Again, HookBusy, HookState
  <2>2. hook' \in [Webhook -> HookState] /\ HookBusy'
    BY <1>12, <1>hook, NoneIsNoKey DEF GunicornDies, HookBusy, HookState, HookIdle, NoRow, Row, FileState
  <2>3. crashes' \in Nat
    BY <1>12, <1>crashes DEF GunicornDies, Dies
  <2> QED
    BY <1>12, <2>1, <2>2, <2>3 DEF GunicornDies, outside, bounds, TypeInv, TypeOK, TaskBusy
<1>13. ASSUME NEW w \in Worker, NEW k \in Key, Take(w, k) PROVE TypeInv'
  <2>1. queued' \in [Key -> Nat]
    BY <1>13, <1>queued DEF Take, Delay
  <2>2. task' \in [Worker -> TaskState] /\ TaskBusy'
    BY <1>13, <1>task, NoneIsNoKey DEF Take, TaskBusy, TaskState, TaskIdle, HookIdle, NoRow, Row, FileState
  <2> QED
    BY <1>13, <2>1, <2>2 DEF Take, outside, bounds, TypeInv, TypeOK, HookBusy
<1>14. ASSUME NEW w \in Worker, Open(w) PROVE TypeInv'
  <2>1. fileLog' \in [Key -> Row]
    BY <1>14, <1>fileLog, <1>task DEF Open, Row, FileState, Inserted, Opened, TaskBusy, TaskState
  <2>2. task' \in [Worker -> TaskState] /\ TaskBusy'
    <3>1. task[w].key \in Key /\ task[w].pc = "open"
      BY <1>14, <1>task DEF Open, TaskBusy
    <3>2. Opened(fileLog[task[w].key]) \in Row
      BY <1>fileLog, <3>1 DEF Opened, Inserted, Row, FileState
    <3>3. [task[w] EXCEPT !.pc = "delete", !.row = Opened(fileLog[task[w].key])]
            \in TaskState
      BY <1>task, <3>2 DEF TaskState
    <3>4. task' = [task EXCEPT ![w].pc = "delete",
                              ![w].row = Opened(fileLog[task[w].key])]
      BY <1>14 DEF Open
    <3> QED
      BY <1>task, <3>1, <3>3, <3>4 DEF TaskBusy, TaskState
  <2> QED
    BY <1>14, <2>1, <2>2 DEF Open, outside, bounds, TypeInv, TypeOK, HookBusy
<1>15. ASSUME NEW w \in Worker, Throw(w) PROVE TypeInv'
  <2>1. task' \in [Worker -> TaskState] /\ TaskBusy'
    BY <1>15, <1>task, NoneIsNoKey DEF Throw, TaskBusy, TaskState, TaskIdle, HookIdle, NoRow, Row, FileState
  <2>2. faults' \in Nat
    BY <1>15, <1>faults DEF Throw, Fault
  <2> QED
    BY <1>15, <2>1, <2>2 DEF Throw, outside, bounds, TypeInv, TypeOK, HookBusy
<1>16. ASSUME NEW w \in Worker, Delete(w) PROVE TypeInv'
  <2>1. logs' \in [Key -> Nat]
    BY <1>16, <1>logs, <1>task DEF Delete, Cleared, TaskBusy, TaskState
  <2>2. task' \in [Worker -> TaskState] /\ TaskBusy'
    BY <1>16, <1>task, NoneIsNoKey DEF Delete, TaskBusy, TaskState, TaskIdle, HookIdle, NoRow, Row, FileState
  <2> QED
    BY <1>16, <2>1, <2>2 DEF Delete, outside, bounds, TypeInv, TypeOK, HookBusy
<1>17. ASSUME NEW w \in Worker, BulkCreate(w) PROVE TypeInv'
  <2>1. logs' \in [Key -> Nat]
    BY <1>17, <1>logs, <1>task DEF BulkCreate, Cleared, TaskBusy, TaskState
  <2>2. task' \in [Worker -> TaskState] /\ TaskBusy'
    BY <1>17, <1>task, NoneIsNoKey DEF BulkCreate, TaskBusy, TaskState, TaskIdle, HookIdle, NoRow, Row, FileState
  <2> QED
    BY <1>17, <2>1, <2>2 DEF BulkCreate, outside, bounds, TypeInv, TypeOK, HookBusy
<1>18. ASSUME NEW w \in Worker, Save(w) PROVE TypeInv'
  <2>1. fileLog' \in [Key -> Row]
    <3>1. task[w].key \in Key /\ task[w].row \in Row
      BY <1>18, <1>task DEF Save, TaskBusy, TaskState
    <3>2. Processed(task[w].row) \in Row
      BY <3>1 DEF Processed, Row, FileState
    <3> QED
      BY <1>18, <1>fileLog, <3>1, <3>2 DEF Save
  <2>2. task' \in [Worker -> TaskState] /\ TaskBusy'
    BY <1>18, <1>task, NoneIsNoKey DEF Save, TaskBusy, TaskState, TaskIdle, HookIdle, NoRow, Row, FileState
  <2> QED
    BY <1>18, <2>1, <2>2 DEF Save, outside, bounds, TypeInv, TypeOK, HookBusy
<1>19. ASSUME NEW w \in Worker, MarkFailed(w) PROVE TypeInv'
  <2>1. fileLog' \in [Key -> Row]
    <3>1. CASE UNCHANGED fileLog
      BY <3>1, <1>fileLog
    <3>2. CASE fileLog' = [fileLog EXCEPT ![task[w].key].status =
                              IF @ = "ABSENT" THEN @ ELSE "FAILED"]
      BY <3>2, <1>fileLog DEF Row, FileState
    <3> QED
      BY <1>19, <3>1, <3>2 DEF MarkFailed
  <2>2. task' \in [Worker -> TaskState] /\ TaskBusy'
    BY <1>19, <1>task, NoneIsNoKey DEF MarkFailed, TaskBusy, TaskState, TaskIdle, HookIdle, NoRow, Row, FileState
  <2>3. faults' \in Nat
    BY <1>19, <1>faults DEF MarkFailed, Fault
  <2>4. lost' \in SUBSET Key
    BY <1>19, <1>lost, <1>task DEF MarkFailed, TaskBusy
  <2> QED
    BY <1>19, <2>1, <2>2, <2>3, <2>4 DEF MarkFailed, outside, bounds, TypeInv, TypeOK, HookBusy
<1>20. ASSUME NEW w \in Worker, ChildDies(w) PROVE TypeInv'
  <2>1. task' \in [Worker -> TaskState] /\ TaskBusy'
    BY <1>20, <1>task, NoneIsNoKey DEF ChildDies, TaskBusy, TaskState, TaskIdle, HookIdle, NoRow, Row, FileState
  <2>2. crashes' \in Nat
    BY <1>20, <1>crashes DEF ChildDies, Dies
  <2>3. lost' \in SUBSET Key
    BY <1>20, <1>lost, <1>task DEF ChildDies, TaskBusy
  <2> QED
    BY <1>20, <2>1, <2>2, <2>3 DEF ChildDies, outside, bounds, TypeInv, TypeOK, HookBusy
<1>21. CASE CeleryDies
  <2>1. queued' \in [Key -> Nat]
    BY <1>21, <1>queued, UnackedIsNat DEF CeleryDies
  <2>2. task' \in [Worker -> TaskState] /\ TaskBusy'
    BY <1>21, <1>task, NoneIsNoKey DEF CeleryDies, TaskBusy, TaskState, TaskIdle, HookIdle, NoRow, Row, FileState
  <2>3. crashes' \in Nat
    BY <1>21, <1>crashes DEF CeleryDies, Dies
  <2> QED
    BY <1>21, <2>1, <2>2, <2>3 DEF CeleryDies, outside, bounds, TypeInv, TypeOK, HookBusy
<1>22. CASE GrpcDies
  <2>1. rpc' \in [Key -> {"idle", "insert", "delay"}]
    BY <1>22, <1>rpc DEF GrpcDies
  <2>2. crashes' \in Nat
    BY <1>22, <1>crashes DEF GrpcDies, Dies
  <2> QED
    BY <1>22, <2>1, <2>2 DEF GrpcDies, outside, bounds, TypeInv, TypeOK, HookBusy, TaskBusy
<1>23. CASE RetryCron
  <2>1. fileLog' \in [Key -> Row]
    BY <1>23, <1>fileLog DEF RetryCron, Row, FileState, Inserted
  <2> QED
    BY <1>23, <2>1 DEF RetryCron, outside, bounds, TypeInv, TypeOK, HookBusy, TaskBusy
<1>24. CASE UNCHANGED vars
  BY <1>24 DEF vars, TypeInv, TypeOK, HookBusy, TaskBusy
<1> QED
  BY <1>1, <1>2, <1>3, <1>4, <1>5, <1>6, <1>7, <1>8, <1>9, <1>10, <1>11, <1>12, <1>13, <1>14, <1>15, <1>16, <1>17, <1>18, <1>19, <1>20, <1>21, <1>22, <1>23, <1>24
  DEF Next, HookStep, RpcStep, WorkStep

\* Nothing is at work in the beginning.
LEMMA TypeInit == Init => TypeInv
<1> SUFFICES ASSUME Init PROVE TypeInv
  OBVIOUS
<1>1. fileLog \in [Key -> Row]
  BY DEF Init, NoRow, Row, FileState
<1>2. hook \in [Webhook -> HookState] /\ HookBusy
  BY NoneIsNoKey DEF Init, HookState, HookIdle, HookBusy, NoRow, Row, FileState
<1>3. task \in [Worker -> TaskState] /\ TaskBusy
  BY NoneIsNoKey DEF Init, TaskState, TaskIdle, HookIdle, TaskBusy, NoRow, Row, FileState
<1>4. /\ archive \in SUBSET Key /\ asked \in SUBSET Key
      /\ notices \in [Key -> Nat] /\ logs \in [Key -> Nat]
      /\ queued \in [Key -> Nat]
      /\ rpc \in [Key -> {"idle", "insert", "delay"}]
      /\ extra \in Nat /\ faults \in Nat /\ crashes \in Nat
      /\ lost \in SUBSET Key /\ pool \in SUBSET Worker
  BY PipelineConstants DEF Init
<1> QED
  BY <1>1, <1>2, <1>3, <1>4 DEF TypeInv, TypeOK

\* The tables, the queues and every handler hold values of their types, and a
\* request or task at work holds the key it goes on with.
THEOREM TypeInvariant == Spec => []TypeInv
  BY TypeInit, TypeStep, PTL DEF Spec

\* The type invariant that the runs check.
THEOREM TypeCorrect == Spec => []TypeOK
<1>1. TypeInv => TypeOK
  BY DEF TypeInv
<1> QED
  BY <1>1, TypeInvariant, PTL

-----------------------------------------------------------------------------
(* The copies of a transcript.  A task between the delete and the insert   *)
(* (pc "create") will add a copy: the copies and those tasks together are  *)
(* at most as many as the slots of the pool, which is where tasks run.     *)

PoolInv == \A w \in Worker : task[w].pc # "idle" => w \in pool

Creating(k) == {w \in Worker : task[w].pc = "create" /\ task[w].key = k}

CopiesInv ==
    \A k \in Key : logs[k] + Cardinality(Creating(k)) <= Cardinality(pool)

\* The pool is what it was started with, and only its slots run tasks.
LEMMA PoolStep == TypeInv /\ PoolInv /\ [Next]_vars => PoolInv' /\ pool' = pool
<1> SUFFICES ASSUME TypeInv, PoolInv, [Next]_vars PROVE PoolInv' /\ pool' = pool
  OBVIOUS
<1>task. task \in [Worker -> TaskState]
  BY DEF TypeInv, TypeOK
<1>1. ASSUME NEW w \in Worker, NEW k \in Key, Take(w, k)
      PROVE  PoolInv' /\ pool' = pool
  BY <1>1, <1>task DEF Take, outside, PoolInv
<1>2. ASSUME NEW w \in Worker,
             \/ Open(w) \/ Throw(w) \/ Delete(w) \/ BulkCreate(w)
             \/ Save(w) \/ MarkFailed(w) \/ ChildDies(w)
      PROVE  PoolInv' /\ pool' = pool
  <2>1. \A v \in Worker : task'[v].pc # "idle" => task[v].pc # "idle"
    BY <1>2, <1>task DEF Open, Throw, Delete, BulkCreate, Save, MarkFailed,
          ChildDies, TaskIdle, HookIdle, TaskState
  <2>2. pool' = pool
    BY <1>2 DEF Open, Throw, Delete, BulkCreate, Save, MarkFailed, ChildDies,
          outside
  <2> QED
    BY <2>1, <2>2 DEF PoolInv
<1>3. CASE CeleryDies
  BY <1>3 DEF CeleryDies, outside, PoolInv, TaskIdle, HookIdle
<1>4. CASE UNCHANGED <<task, pool>>
  BY <1>4 DEF PoolInv
<1> QED
  BY <1>1, <1>2, <1>3, <1>4
  DEF Next, HookStep, RpcStep, WorkStep, vars, outside, bounds, Upload, Duplicate,
      HookGet, HookSave, HookDelay, HookFail, RpcValidate, RpcInsert, RpcDelay,
      RpcFail, Reprocess, RetryCron, GunicornDies, GrpcDies

\* The tasks about to insert are some of the finitely many slots of the pool.
LEMMA CreatingBound ==
    ASSUME TypeInv, PoolInv, NEW k \in Key
    PROVE  /\ IsFiniteSet(Creating(k)) /\ Cardinality(Creating(k)) \in Nat
           /\ Cardinality(pool) \in Nat
           /\ Cardinality(Creating(k)) <= Cardinality(pool)
<1>1. Creating(k) \subseteq pool
  BY DEF Creating, PoolInv
<1>2. IsFiniteSet(pool)
  BY FiniteWorkers, FS_Subset DEF TypeInv, TypeOK
<1> QED
  BY <1>1, <1>2, FS_Subset, FS_CardinalityType

\* The same bound for the tasks after a step.
LEMMA CreatingBoundNext ==
    ASSUME TypeInv, PoolInv, [Next]_vars, NEW k \in Key
    PROVE  /\ IsFiniteSet(Creating(k)') /\ Cardinality(Creating(k)') \in Nat
           /\ Cardinality(Creating(k)') <= Cardinality(pool)
<1>1. Creating(k)' \subseteq pool
  BY PoolStep DEF Creating, PoolInv
<1>2. IsFiniteSet(pool)
  BY FiniteWorkers, FS_Subset DEF TypeInv, TypeOK
<1> QED
  BY <1>1, <1>2, FS_Subset, FS_CardinalityType

\* Only the two statements of worker.py:143 touch the copies; every other step
\* leaves at most the tasks that were about to insert before it.
LEMMA WritersOfLogs ==
    ASSUME TypeInv, [Next]_vars
    PROVE  \/ \E w \in Worker : Delete(w) \/ BulkCreate(w)
           \/ UNCHANGED logs /\ \A k \in Key : Creating(k)' \subseteq Creating(k)
<1>task. task \in [Worker -> TaskState]
  BY DEF TypeInv, TypeOK
<1> SUFFICES ASSUME ~ \E w \in Worker : Delete(w) \/ BulkCreate(w)
             PROVE  UNCHANGED logs
                    /\ \A k \in Key : Creating(k)' \subseteq Creating(k)
  OBVIOUS
<1>1. CASE UNCHANGED <<logs, task>>
  BY <1>1 DEF Creating
<1>2. ASSUME NEW w \in Worker, NEW k \in Key, Take(w, k)
      PROVE  UNCHANGED logs /\ \A j \in Key : Creating(j)' \subseteq Creating(j)
  <2>1. \A v \in Worker : task'[v].pc = "create" => task'[v] = task[v]
    BY <1>2, <1>task DEF Take, TaskIdle, HookIdle, TaskState
  <2> QED
    BY <1>2, <2>1 DEF Take, Creating
<1>3. ASSUME NEW w \in Worker, Open(w) \/ Throw(w) \/ Save(w) \/ MarkFailed(w) \/ ChildDies(w)
      PROVE  UNCHANGED logs /\ \A j \in Key : Creating(j)' \subseteq Creating(j)
  <2>1. \A v \in Worker : task'[v].pc = "create" => task'[v] = task[v]
    BY <1>3, <1>task DEF Open, Throw, Save, MarkFailed, ChildDies, TaskIdle, HookIdle, TaskState
  <2>2. UNCHANGED logs
    BY <1>3 DEF Open, Throw, Save, MarkFailed, ChildDies
  <2> QED
    BY <2>1, <2>2 DEF Creating
<1>4. CASE CeleryDies
  BY <1>4 DEF CeleryDies, Creating, TaskIdle, HookIdle
<1> QED
  BY <1>1, <1>2, <1>3, <1>4
  DEF Next, HookStep, RpcStep, WorkStep, vars, outside, bounds, Upload, Duplicate,
      HookGet, HookSave, HookDelay, HookFail, RpcValidate, RpcInsert, RpcDelay, RpcFail, Reprocess,
      RetryCron, GunicornDies, GrpcDies

\* A delete starts the count at the task that deletes, and an insert turns a
\* task about to insert into a copy.
LEMMA CopiesStep ==
    TypeInv /\ PoolInv /\ CopiesInv /\ [Next]_vars => CopiesInv'
<1> SUFFICES ASSUME TypeInv, PoolInv, CopiesInv, [Next]_vars, NEW k \in Key
             PROVE  logs'[k] + Cardinality(Creating(k)') <= Cardinality(pool)
  BY PoolStep DEF CopiesInv
<1>types. /\ logs \in [Key -> Nat] /\ task \in [Worker -> TaskState] /\ TaskBusy
  BY DEF TypeInv, TypeOK
<1>inv. logs[k] + Cardinality(Creating(k)) <= Cardinality(pool)
  BY DEF CopiesInv
<1>nat. /\ IsFiniteSet(Creating(k)) /\ Cardinality(Creating(k)) \in Nat
        /\ Cardinality(pool) \in Nat /\ Cardinality(Creating(k)') \in Nat
        /\ Cardinality(Creating(k)') <= Cardinality(pool)
        /\ logs[k] \in Nat
  BY <1>types, CreatingBound, CreatingBoundNext
<1>1. ASSUME NEW w \in Worker, Delete(w)
      PROVE  logs'[k] + Cardinality(Creating(k)') <= Cardinality(pool)
  <2>1. CASE task[w].key = k
    <3>1. logs'[k] = 0
      BY <1>1, <1>types, <2>1 DEF Delete, Cleared
    <3> QED
      BY <3>1, <1>nat
  <2>2. CASE task[w].key # k
    <3>1. logs'[k] = logs[k]
      BY <1>1, <1>types, <2>2 DEF Delete
    <3>2. Creating(k)' = Creating(k)
      BY <1>1, <1>types, <2>2 DEF Delete, Creating, TaskState
    <3> QED
      BY <3>1, <3>2, <1>inv
  <2> QED
    BY <2>1, <2>2
<1>2. ASSUME NEW w \in Worker, BulkCreate(w)
      PROVE  logs'[k] + Cardinality(Creating(k)') <= Cardinality(pool)
  <2>1. CASE task[w].key = k
    <3>1. logs'[k] = logs[k] + 1
      BY <1>2, <1>types, <2>1 DEF BulkCreate
    <3>2. Creating(k)' = Creating(k) \ {w} /\ w \in Creating(k)
      BY <1>2, <1>types, <2>1 DEF BulkCreate, Creating, TaskState
    <3>3. Cardinality(Creating(k)') = Cardinality(Creating(k)) - 1
      BY <3>2, <1>nat, FS_RemoveElement
    <3> QED
      BY <3>1, <3>3, <1>inv, <1>nat
  <2>2. CASE task[w].key # k
    <3>1. logs'[k] = logs[k]
      BY <1>2, <1>types, <2>2 DEF BulkCreate
    <3>2. Creating(k)' = Creating(k)
      BY <1>2, <1>types, <2>2 DEF BulkCreate, Creating, TaskState
    <3> QED
      BY <3>1, <3>2, <1>inv
  <2> QED
    BY <2>1, <2>2
<1>3. CASE UNCHANGED logs /\ \A j \in Key : Creating(j)' \subseteq Creating(j)
  <2>1. Cardinality(Creating(k)') <= Cardinality(Creating(k))
    BY <1>3, <1>nat, FS_Subset
  <2> QED
    BY <1>3, <2>1, <1>inv, <1>nat
<1> QED
  BY <1>1, <1>2, <1>3, WritersOfLogs

\* transcription_log never holds more copies of a transcript than there are
\* slots in the pool, in whatever order tasks are queued, overlap, fail and are
\* delivered again: the delete of every task takes the earlier copies away.
THEOREM CopiesBoundedCorrect == Spec => []CopiesBounded
<1>1. Init => PoolInv /\ CopiesInv
  <2>1. Init => PoolInv
    BY DEF Init, PoolInv, TaskIdle, HookIdle
  <2> SUFFICES ASSUME Init, PoolInv, NEW k \in Key
               PROVE  logs[k] + Cardinality(Creating(k)) <= Cardinality(pool)
    BY <2>1 DEF CopiesInv
  <2>2. logs[k] = 0
    BY DEF Init
  <2> QED
    BY <2>2, TypeInit, CreatingBound
<1>2. TypeInv /\ PoolInv /\ CopiesInv => CopiesBounded
  <2> SUFFICES ASSUME TypeInv, PoolInv, CopiesInv, NEW k \in Key
               PROVE  logs[k] <= Cardinality(pool)
    BY DEF CopiesBounded
  <2>1. logs[k] \in Nat
    BY DEF TypeInv, TypeOK
  <2>2. logs[k] + Cardinality(Creating(k)) <= Cardinality(pool)
    BY DEF CopiesInv
  <2> QED
    BY <2>1, <2>2, CreatingBound
<1> QED
  BY <1>1, <1>2, PoolStep, CopiesStep, TypeInvariant, PTL DEF Spec

-----------------------------------------------------------------------------
(* The retry count.  Three writers save whole rows, two of them with the   *)
(* count they have read some steps before; the counts that are held by a   *)
(* request or a task are within the limit too.                             *)

CountsInv ==
    /\ RetryCountBounded
    /\ FileMaxRetryCount # None =>
          /\ \A h \in Webhook : hook[h].row.retryCount <= FileMaxRetryCount
          /\ \A w \in Worker : task[w].row.retryCount <= FileMaxRetryCount

\* A row that is saved has the count it was read with, or one more where the
\* retry job found it below the limit.
LEMMA CountsStep == TypeInv /\ CountsInv /\ [Next]_vars => CountsInv'
<1> SUFFICES ASSUME TypeInv, CountsInv, [Next]_vars, FileMaxRetryCount # None
             PROVE  /\ \A k \in Key : fileLog'[k].retryCount <= FileMaxRetryCount
                    /\ \A h \in Webhook : hook'[h].row.retryCount <= FileMaxRetryCount
                    /\ \A w \in Worker : task'[w].row.retryCount <= FileMaxRetryCount
  BY DEF CountsInv, RetryCountBounded
<1> DEFINE Within(r) == r.retryCount <= FileMaxRetryCount
           Goal == /\ \A k \in Key : Within(fileLog'[k])
                   /\ \A h \in Webhook : Within(hook'[h].row)
                   /\ \A w \in Worker : Within(task'[w].row)
<1>max. FileMaxRetryCount \in Nat
  BY PipelineConstants
<1>fileLog. fileLog \in [Key -> Row] /\ \A k \in Key : Within(fileLog[k])
  BY DEF TypeInv, TypeOK, CountsInv, RetryCountBounded
<1>hook. /\ hook \in [Webhook -> HookState] /\ HookBusy
         /\ \A h \in Webhook : Within(hook[h].row)
  BY DEF TypeInv, TypeOK, CountsInv
<1>task. /\ task \in [Worker -> TaskState] /\ TaskBusy
         /\ \A w \in Worker : Within(task[w].row)
  BY DEF TypeInv, TypeOK, CountsInv
<1>idle. Within(HookIdle.row) /\ Within(TaskIdle.row)
  BY <1>max DEF HookIdle, TaskIdle, NoRow
<1>ins. \A k \in Key : Within(Inserted(fileLog[k])) /\ Within(Opened(fileLog[k]))
  BY <1>fileLog DEF Inserted, Opened, Row
<1>1. ASSUME NEW h \in Webhook, NEW k \in Key, HookGet(h, k) PROVE Goal
  <2>1. \A j \in Key : Within(fileLog'[j])
    BY <1>1, <1>fileLog, <1>ins DEF HookGet
  <2>2. \A g \in Webhook : Within(hook'[g].row)
    BY <1>1, <1>hook, <1>ins DEF HookGet
  <2> QED
    BY <1>1, <2>1, <2>2, <1>task DEF HookGet
<1>2. ASSUME NEW h \in Webhook, HookSave(h) PROVE Goal
  <2>1. \A j \in Key : Within(fileLog'[j])
    BY <1>2, <1>fileLog, <1>hook DEF HookSave, HookState, Row
  <2>2. \A g \in Webhook : Within(hook'[g].row)
    BY <1>2, <1>hook DEF HookSave, HookState
  <2> QED
    BY <1>2, <2>1, <2>2, <1>task DEF HookSave
<1>3. ASSUME NEW h \in Webhook, HookDelay(h) \/ HookFail(h) \/ GunicornDies(h) PROVE Goal
  <2>1. \A g \in Webhook : Within(hook'[g].row)
    BY <1>3, <1>hook, <1>idle DEF HookDelay, HookFail, GunicornDies
  <2>2. UNCHANGED <<fileLog, task>>
    BY <1>3 DEF HookDelay, HookFail, GunicornDies
  <2> QED
    BY <2>1, <2>2, <1>fileLog, <1>task
<1>4. ASSUME NEW k \in Key, RpcInsert(k) PROVE Goal
  <2>1. \A j \in Key : Within(fileLog'[j])
    BY <1>4, <1>fileLog, <1>ins DEF RpcInsert
  <2> QED
    BY <1>4, <2>1, <1>hook, <1>task DEF RpcInsert
<1>5. ASSUME NEW w \in Worker, NEW k \in Key, Take(w, k) PROVE Goal
  <2>1. \A v \in Worker : Within(task'[v].row)
    BY <1>5, <1>task, <1>idle DEF Take, TaskIdle, HookIdle
  <2> QED
    BY <1>5, <2>1, <1>fileLog, <1>hook DEF Take
<1>6. ASSUME NEW w \in Worker, Open(w) PROVE Goal
  <2>1. task[w].key \in Key
    BY <1>6, <1>task DEF Open, TaskBusy
  <2>2. \A j \in Key : Within(fileLog'[j])
    BY <1>6, <2>1, <1>fileLog, <1>ins DEF Open
  <2>3. \A v \in Worker : Within(task'[v].row)
    BY <1>6, <2>1, <1>task, <1>ins DEF Open, TaskState
  <2> QED
    BY <1>6, <2>2, <2>3, <1>hook DEF Open
<1>7. ASSUME NEW w \in Worker, Throw(w) \/ Delete(w) \/ BulkCreate(w) PROVE Goal
  <2>1. \A v \in Worker : Within(task'[v].row)
    BY <1>7, <1>task DEF Throw, Delete, BulkCreate, TaskState
  <2>2. UNCHANGED <<fileLog, hook>>
    BY <1>7 DEF Throw, Delete, BulkCreate, outside
  <2> QED
    BY <2>1, <2>2, <1>fileLog, <1>hook
<1>8. ASSUME NEW w \in Worker, Save(w) PROVE Goal
  <2>1. Within(Processed(task[w].row)) /\ task[w].row \in Row
    BY <1>task DEF Processed, TaskState, Row
  <2>2. \A j \in Key : Within(fileLog'[j])
    BY <1>8, <2>1, <1>fileLog DEF Save
  <2>3. \A v \in Worker : Within(task'[v].row)
    BY <1>8, <1>task, <1>idle DEF Save
  <2> QED
    BY <1>8, <2>2, <2>3, <1>hook DEF Save
<1>9. ASSUME NEW w \in Worker, MarkFailed(w) PROVE Goal
  <2>1. \A j \in Key : Within(fileLog'[j])
    BY <1>9, <1>fileLog DEF MarkFailed, Row
  <2>2. \A v \in Worker : Within(task'[v].row)
    BY <1>9, <1>task, <1>idle DEF MarkFailed
  <2> QED
    BY <1>9, <2>1, <2>2, <1>hook DEF MarkFailed
<1>10. ASSUME NEW w \in Worker, ChildDies(w) PROVE Goal
  <2>1. \A v \in Worker : Within(task'[v].row)
    BY <1>10, <1>task, <1>idle DEF ChildDies
  <2> QED
    BY <1>10, <2>1, <1>fileLog, <1>hook DEF ChildDies
<1>11. CASE CeleryDies
  <2>1. \A v \in Worker : Within(task'[v].row)
    BY <1>11, <1>idle DEF CeleryDies
  <2> QED
    BY <1>11, <2>1, <1>fileLog, <1>hook DEF CeleryDies
<1>12. CASE RetryCron
  <2>1. PICK due \in SUBSET {k \in Key : Eligible(fileLog[k])} :
          fileLog' = [k \in Key |->
                        IF k \in due
                        THEN [fileLog[k] EXCEPT !.retryCount = @ + 1]
                        ELSE fileLog[k]]
    BY <1>12 DEF RetryCron
  <2>2. ASSUME NEW k \in Key PROVE Within(fileLog'[k])
    <3>1. CASE k \in due
      <4>1. fileLog[k].retryCount < FileMaxRetryCount /\ fileLog[k].retryCount \in Nat
        BY <3>1, <1>fileLog DEF Eligible, Row
      <4>2. fileLog'[k].retryCount = fileLog[k].retryCount + 1
        BY <2>1, <3>1, <1>fileLog DEF Row
      <4> QED
        BY <4>1, <4>2, <1>max
    <3>2. CASE k \notin due
      BY <2>1, <3>2, <1>fileLog
    <3> QED
      BY <3>1, <3>2
  <2> QED
    BY <1>12, <2>2, <1>hook, <1>task DEF RetryCron
<1>13. CASE UNCHANGED <<fileLog, hook, task>>
  BY <1>13, <1>fileLog, <1>hook, <1>task
<1>14. Goal
  BY <1>1, <1>2, <1>3, <1>4, <1>5, <1>6, <1>7, <1>8, <1>9, <1>10, <1>11, <1>12, <1>13
  DEF Next, HookStep, RpcStep, WorkStep, vars, outside, Upload, Duplicate,
      RpcValidate, RpcDelay, RpcFail, Reprocess, GrpcDies
<1> QED
  BY <1>14

\* However old the rows are that webhooks and tasks write back, no file is
\* counted past FILE_MAX_RETRY_COUNT.
THEOREM RetryCountBoundedCorrect == Spec => []RetryCountBounded
<1>1. Init => CountsInv
  BY PipelineConstants
     DEF Init, CountsInv, RetryCountBounded, HookIdle, TaskIdle, NoRow
<1>2. CountsInv => RetryCountBounded
  BY DEF CountsInv
<1> QED
  BY <1>1, <1>2, CountsStep, TypeInvariant, PTL DEF Spec

-----------------------------------------------------------------------------
(* The refinement of FileContract.  Every step is the step of one file: it *)
(* leaves the phase of every other file, and whether somebody is at work   *)
(* on it, as they were.                                                    *)

PhaseOf(k) == Phase(fileLog[k].status)

Same(k) == (Expected(k)' <=> Expected(k)) /\ PhaseOf(k)' = PhaseOf(k)

Others(j) == \A k \in Key : k # j => Same(k)

\* A step that changes no file's phase or workers is a stutter of the contract.
LEMMA Stutters ==
    ASSUME \A k \in Key : Same(k), UNCHANGED lost
    PROVE  UNCHANGED Contract!vars
  BY DEF Contract!vars, Same, PhaseOf

\* What a step about one file does to the two sides of the mapping.
LEMMA OneFile ==
    ASSUME NEW j \in Key, Others(j)
    PROVE  /\ [k \in Key |-> PhaseOf(k)]' =
                 [[k \in Key |-> PhaseOf(k)] EXCEPT ![j] = PhaseOf(j)']
           /\ {k \in Key : Expected(k)}' =
                 IF Expected(j)' THEN {k \in Key : Expected(k)} \cup {j}
                                 ELSE {k \in Key : Expected(k)} \ {j}
<1>1. \A k \in Key : PhaseOf(k)' = IF k = j THEN PhaseOf(j)' ELSE PhaseOf(k)
  BY DEF Others, Same
<1>2. \A k \in Key : k # j => (Expected(k)' <=> Expected(k))
  BY DEF Others, Same
<1>3. [k \in Key |-> PhaseOf(k)]' =
        [[k \in Key |-> PhaseOf(k)] EXCEPT ![j] = PhaseOf(j)']
  BY <1>1
<1>4. {k \in Key : Expected(k)}' =
        IF Expected(j)' THEN {k \in Key : Expected(k)} \cup {j}
                        ELSE {k \in Key : Expected(k)} \ {j}
  BY <1>2
<1> QED
  BY <1>3, <1>4

\* The steps of the contract, told by what happens to the file.
LEMMA Asks ==
    ASSUME NEW j \in Key, Others(j), Expected(j)', PhaseOf(j)' = PhaseOf(j),
           UNCHANGED lost
    PROVE  Contract!Ask(j)
  BY OneFile DEF Contract!Ask, PhaseOf

\* A step after which a task will come for a file whose result was owed.
LEMMA Promises ==
    ASSUME NEW j \in Key, Others(j), Expected(j), Expected(j)',
           PhaseOf(j)' = "owed", UNCHANGED lost
    PROVE  Contract!Promise(j)
  BY OneFile DEF Contract!Promise, PhaseOf

\* A step that ends with the result of a file stored, or with its failure marked.
LEMMA Settles ==
    ASSUME NEW j \in Key, Others(j), Expected(j), PhaseOf(j)' = "settled",
           UNCHANGED lost
    PROVE  Contract!Settle(j)
  BY OneFile DEF Contract!Settle, PhaseOf

\* A step that ends with the caller told of the failure.
LEMMA GivesUp ==
    ASSUME NEW j \in Key, Others(j), Expected(j), ~Expected(j)',
           PhaseOf(j) = "unseen", PhaseOf(j)' = "unseen", UNCHANGED lost
    PROVE  Contract!GiveUp(j)
  BY OneFile DEF Contract!GiveUp, PhaseOf

\* A step that drops a task for good.
LEMMA Loses ==
    ASSUME NEW j \in Key, Others(j), Expected(j), PhaseOf(j)' = PhaseOf(j),
           lost' = lost \cup {j}
    PROVE  Contract!Lose(j)
  BY OneFile DEF Contract!Lose, PhaseOf

\* A worker that dies gives back a message for every task it ran.
LEMMA UnackedOfTasks ==
    ASSUME NEW k \in Key
    PROVE  Unacked(k) > 0 <=> \E w \in Worker : task[w].key = k
<1> DEFINE S == {v \in Worker : task[v].key = k}
<1>1. IsFiniteSet(S)
  BY FiniteWorkers, FS_Subset
<1>2. Cardinality(S) \in Nat /\ (Cardinality(S) = 0 <=> S = {})
  BY <1>1, FS_CardinalityType, FS_EmptySet
<1> QED
  BY <1>2 DEF Unacked

Abstract == (\E k \in Key : \/ Contract!Ask(k) \/ Contract!Promise(k)
                            \/ Contract!Settle(k) \/ Contract!GiveUp(k)
                            \/ Contract!Lose(k))
            \/ UNCHANGED Contract!vars

\* Every step of every actor is a step of the contract, or none.
LEMMA ContractStep == TypeInv /\ [Next]_vars => Abstract
<1> SUFFICES ASSUME TypeInv, [Next]_vars PROVE Abstract
  OBVIOUS
<1>notices. notices \in [Key -> Nat]
  BY DEF TypeInv, TypeOK
<1>fileLog. fileLog \in [Key -> Row]
  BY DEF TypeInv, TypeOK
<1>queued. queued \in [Key -> Nat]
  BY DEF TypeInv, TypeOK
<1>hook. hook \in [Webhook -> HookState] /\ HookBusy
  BY DEF TypeInv, TypeOK
<1>task. task \in [Worker -> TaskState] /\ TaskBusy
  BY DEF TypeInv, TypeOK
<1>1. ASSUME NEW j \in Key, Upload(j) \/ Duplicate(j) PROVE Abstract
  <2>1. UNCHANGED <<fileLog, queued, task, hook, lost>>
        /\ notices' = [notices EXCEPT ![j] = @ + 1]
    BY <1>1 DEF Upload, Duplicate, bounds
  <2>2. Expected(j)' /\ Others(j) /\ PhaseOf(j)' = PhaseOf(j)
    BY <2>1, <1>notices DEF Expected, Others, Same, PhaseOf
  <2> QED
    BY <2>1, <2>2, Asks DEF Abstract
<1>2. ASSUME NEW j \in Key, RpcDelay(j) \/ Reprocess(j) PROVE Abstract
  <2>1. UNCHANGED <<fileLog, notices, task, hook, lost>>
        /\ queued' = [queued EXCEPT ![j] = @ + 1]
    BY <1>2 DEF RpcDelay, Reprocess, Delay, outside, bounds
  <2>2. Expected(j)' /\ Others(j) /\ PhaseOf(j)' = PhaseOf(j)
    BY <2>1, <1>queued DEF Expected, Others, Same, PhaseOf
  <2> QED
    BY <2>1, <2>2, Asks DEF Abstract
<1>3. ASSUME NEW h \in Webhook, NEW j \in Key, HookGet(h, j) PROVE Abstract
  <2>1. /\ UNCHANGED <<queued, task, lost>>
        /\ notices[j] > 0 /\ notices' = [notices EXCEPT ![j] = @ - 1]
        /\ hook[h].key \notin Key /\ hook'[h].key = j
        /\ \A g \in Webhook : g # h => hook'[g].key = hook[g].key
    BY <1>3, <1>hook DEF HookGet, HookBusy, bounds
  <2>2. \A k \in Key : Expected(k)' <=> Expected(k)
    BY <2>1, <1>notices DEF Expected
  <2>3. \A k \in Key : PhaseOf(k)' = PhaseOf(k)
    BY <1>3, <1>fileLog DEF HookGet, Inserted, PhaseOf, Phase, Row
  <2> QED
    BY <2>1, <2>2, <2>3, Stutters DEF Abstract, Same
<1>4. ASSUME NEW h \in Webhook, HookSave(h) PROVE Abstract
  <2>j. PICK j \in Key : j = hook[h].key
    BY <1>4, <1>hook DEF HookSave, HookBusy
  <2>1. \A g \in Webhook : hook'[g].key = hook[g].key
    BY <1>4, <1>hook DEF HookSave, HookBusy, HookState
  <2>2. UNCHANGED <<notices, queued, task, lost>>
    BY <1>4 DEF HookSave, outside, bounds
  <2>3. \A k \in Key : Expected(k)' <=> Expected(k)
    BY <2>j, <2>1, <2>2 DEF Expected
  <2>4. Expected(j)
    BY <2>j DEF Expected
  <2>5. /\ \A k \in Key : k # j => PhaseOf(k)' = PhaseOf(k)
        /\ PhaseOf(j)' = "owed"
    BY <1>4, <2>j, <2>1, <1>fileLog, <1>hook DEF HookSave, PhaseOf, Phase, HookState, Row
  <2> QED
    BY <2>2, <2>3, <2>4, <2>5, Promises DEF Abstract, Others, Same
<1>5. ASSUME NEW h \in Webhook, HookDelay(h) \/ HookFail(h) \/ GunicornDies(h)
      PROVE  Abstract
  <2>j. PICK j \in Key : j = hook[h].key
    BY <1>5, <1>hook DEF HookDelay, HookFail, GunicornDies, HookBusy
  <2>1. /\ hook'[h].key \notin Key
        /\ \A g \in Webhook : g # h => hook'[g].key = hook[g].key
    BY <1>5, <1>hook, NoneIsNoKey
       DEF HookDelay, HookFail, GunicornDies, HookBusy, HookIdle
  <2>2. UNCHANGED <<task, fileLog, lost>>
    BY <1>5 DEF HookDelay, HookFail, GunicornDies, bounds
  <2>3. \/ UNCHANGED notices /\ queued' = [queued EXCEPT ![j] = @ + 1]
        \/ UNCHANGED queued /\ notices' = [notices EXCEPT ![j] = @ + 1]
    BY <1>5, <2>j DEF HookDelay, HookFail, GunicornDies, Delay, Again, outside
  <2>4. Expected(j) /\ Expected(j)'
    BY <2>j, <2>1, <2>3, <1>queued, <1>notices DEF Expected
  <2>5. ASSUME NEW k \in Key, k # j PROVE Expected(k)' <=> Expected(k)
    BY <2>j, <2>1, <2>2, <2>3, <2>5, <1>queued, <1>notices DEF Expected
  <2> QED
    BY <2>2, <2>4, <2>5, Stutters DEF Abstract, Same, PhaseOf
<1>6. ASSUME NEW j \in Key, RpcInsert(j) PROVE Abstract
  <2>1. UNCHANGED <<notices, queued, task, hook, lost>>
    BY <1>6 DEF RpcInsert, outside, bounds
  <2>2. \A k \in Key : PhaseOf(k)' = PhaseOf(k)
    BY <1>6, <1>fileLog DEF RpcInsert, Inserted, PhaseOf, Phase, Row
  <2> QED
    BY <2>1, <2>2, Stutters DEF Abstract, Same, Expected
<1>7. ASSUME NEW w \in Worker, NEW j \in Key, Take(w, j) PROVE Abstract
  <2>1. /\ UNCHANGED <<notices, hook, fileLog, lost>>
        /\ queued[j] > 0 /\ queued' = [queued EXCEPT ![j] = @ - 1]
        /\ task[w].key \notin Key /\ task'[w].key = j
        /\ \A v \in Worker : v # w => task'[v].key = task[v].key
    BY <1>7, <1>task DEF Take, TaskBusy, outside, bounds, TaskIdle, HookIdle
  <2>2. \A k \in Key : Expected(k)' <=> Expected(k)
    BY <2>1, <1>queued DEF Expected
  <2> QED
    BY <2>1, <2>2, Stutters DEF Abstract, Same, PhaseOf
<1>8. ASSUME NEW w \in Worker, Open(w) PROVE Abstract
  <2>j. PICK j \in Key : j = task[w].key
    BY <1>8, <1>task DEF Open, TaskBusy
  <2>1. \A v \in Worker : task'[v].key = task[v].key
    BY <1>8, <1>task DEF Open, TaskBusy, TaskState
  <2>2. UNCHANGED <<notices, queued, hook, lost>>
    BY <1>8 DEF Open, outside, bounds
  <2>3. \A k \in Key : Expected(k)' <=> Expected(k)
    BY <2>j, <2>1, <2>2 DEF Expected
  <2>4. Expected(j)
    BY <2>j DEF Expected
  <2>5. /\ \A k \in Key : k # j => PhaseOf(k)' = PhaseOf(k)
        /\ PhaseOf(j)' = "owed"
    BY <1>8, <2>j, <2>1, <1>fileLog DEF Open, Opened, Inserted, PhaseOf, Phase, Row
  <2> QED
    BY <2>2, <2>3, <2>4, <2>5, Promises DEF Abstract, Others, Same
<1>9. ASSUME NEW w \in Worker, Throw(w) \/ Delete(w) \/ BulkCreate(w) PROVE Abstract
  <2>1. UNCHANGED <<notices, queued, hook, fileLog, lost>>
    BY <1>9 DEF Throw, Delete, BulkCreate, outside, bounds
  <2>2. \A v \in Worker : task'[v].key = task[v].key
    BY <1>9, <1>task DEF Throw, Delete, BulkCreate, TaskState
  <2> QED
    BY <2>1, <2>2, Stutters DEF Abstract, Same, PhaseOf, Expected
<1>10. ASSUME NEW w \in Worker, Save(w) \/ MarkFailed(w) \/ ChildDies(w)
       PROVE  Abstract
  <2>j. PICK j \in Key : j = task[w].key
    BY <1>10, <1>task DEF Save, MarkFailed, ChildDies, TaskBusy
  <2>1. /\ task'[w].key \notin Key
        /\ \A v \in Worker : v # w => task'[v].key = task[v].key
    BY <1>10, <1>task, NoneIsNoKey
       DEF Save, MarkFailed, ChildDies, TaskBusy, TaskIdle, HookIdle
  <2>2. UNCHANGED <<notices, queued, hook>>
    BY <1>10 DEF Save, MarkFailed, ChildDies, outside
  <2>3. Expected(j)
    BY <2>j DEF Expected
  <2>4. \A k \in Key : k # j => (Expected(k)' <=> Expected(k))
    BY <2>j, <2>1, <2>2 DEF Expected
  <2>5. \A k \in Key : k # j => PhaseOf(k)' = PhaseOf(k)
    BY <1>10, <2>j, <2>1, <1>fileLog DEF Save, MarkFailed, ChildDies, PhaseOf, Row
  <2>6. Others(j)
    BY <2>4, <2>5 DEF Others, Same
  <2>7. \/ UNCHANGED lost /\ PhaseOf(j)' = "settled"
        \/ UNCHANGED lost /\ PhaseOf(j) = "unseen" /\ PhaseOf(j)' = "unseen"
        \/ lost' = lost \cup {j} /\ PhaseOf(j)' = PhaseOf(j)
    <3>1. CASE Save(w)
      BY <3>1, <2>j, <2>1, <1>fileLog, <1>task
         DEF Save, Processed, bounds, PhaseOf, Phase, TaskState, Row
    <3>2. CASE MarkFailed(w)
      BY <3>2, <2>j, <2>1, <1>fileLog DEF MarkFailed, PhaseOf, Phase, Row
    <3>3. CASE ChildDies(w)
      BY <3>3, <2>j DEF ChildDies, PhaseOf
    <3> QED
      BY <1>10, <3>1, <3>2, <3>3
  <2>8. CASE UNCHANGED lost /\ PhaseOf(j)' = "settled"
    BY <2>j, <2>1, <2>3, <2>6, <2>8, Settles DEF Abstract
  <2>9. CASE UNCHANGED lost /\ PhaseOf(j) = "unseen" /\ PhaseOf(j)' = "unseen"
    <3>1. CASE Expected(j)'
      BY <2>3, <2>6, <2>9, <3>1, Stutters DEF Abstract, Others, Same
    <3>2. CASE ~Expected(j)'
      BY <2>j, <2>1, <2>3, <2>6, <2>9, <3>2, GivesUp DEF Abstract
    <3> QED
      BY <3>1, <3>2
  <2>10. CASE lost' = lost \cup {j} /\ PhaseOf(j)' = PhaseOf(j)
    BY <2>j, <2>1, <2>3, <2>6, <2>10, Loses DEF Abstract
  <2> QED
    BY <2>7, <2>8, <2>9, <2>10
<1>11. CASE CeleryDies
  <2>1. UNCHANGED <<notices, hook, fileLog, lost>>
    BY <1>11 DEF CeleryDies, outside
  <2>2. \A k \in Key : queued'[k] = queued[k] + Unacked(k) /\ Unacked(k) \in Nat
    BY <1>11, UnackedIsNat DEF CeleryDies
  <2>3. \A w \in Worker : task'[w].key \notin Key
    BY <1>11, NoneIsNoKey DEF CeleryDies, TaskIdle, HookIdle
  <2>4. ASSUME NEW k \in Key PROVE Expected(k)' <=> Expected(k)
    <3>1. queued'[k] > 0 <=> queued[k] > 0 \/ \E w \in Worker : task[w].key = k
      BY <2>2, <1>queued, UnackedOfTasks
    <3> QED
      BY <2>1, <2>3, <3>1 DEF Expected
  <2> QED
    BY <2>1, <2>4, Stutters DEF Abstract, Same, PhaseOf
<1>12. CASE RetryCron
  <2>1. UNCHANGED <<notices, queued, task, hook, lost>>
    BY <1>12 DEF RetryCron, outside, bounds
  <2>2. \A k \in Key : fileLog'[k].status = fileLog[k].status
    BY <1>12, <1>fileLog DEF RetryCron, Row
  <2> QED
    BY <2>1, <2>2, Stutters DEF Abstract, Same, PhaseOf, Expected
<1>13. CASE UNCHANGED <<notices, queued, hook, task, fileLog, lost>>
  BY <1>13, Stutters DEF Abstract, Same, PhaseOf, Expected
<1> QED
  BY <1>1, <1>2, <1>3, <1>4, <1>5, <1>6, <1>7, <1>8, <1>9, <1>10, <1>11, <1>12,
     <1>13
  DEF Next, HookStep, RpcStep, WorkStep, vars, outside, bounds, RpcValidate,
      RpcFail, GrpcDies

\* TranscriptPipeline implements FileContract: to whoever looks only at the
\* phases of the files and at who is at work, the webhook, the workers and
\* their failures are steps of the contract.
THEOREM KeepsContractCorrect == Spec => KeepsContract
<1>1. Init => Contract!Init
  <2> SUFFICES ASSUME Init PROVE Contract!Init
    OBVIOUS
  <2>1. \A k \in Key : Phase(fileLog[k].status) = "unseen"
    BY DEF Init, NoRow, Phase
  <2>2. \A k \in Key : ~Expected(k)
    BY NoneIsNoKey DEF Init, Expected, HookIdle, TaskIdle
  <2> QED
    BY <2>1, <2>2 DEF Init, Contract!Init
<1>2. TypeInv /\ [Next]_vars => [Contract!Next]_Contract!vars
  BY ContractStep DEF Abstract, Contract!Next
<1> QED
  BY <1>1, <1>2, TypeInvariant, PTL DEF Spec, KeepsContract, Contract!Spec

\* A file that is notified or being processed keeps somebody who will go on
\* with it, whatever fails or dies and in whatever order, but for lost tasks:
\* the contract promises it, and the pipeline keeps the contract.
THEOREM NoForgottenFileCorrect == Spec => []NoForgottenFile
<1>1. Contract!Spec => []Contract!Kept
  BY Contract!KeptCorrect
<1>2. Contract!Kept => NoForgottenFile
  BY DEF Contract!Kept, NoForgottenFile, Phase
<1> QED
  BY <1>1, <1>2, KeepsContractCorrect, PTL DEF KeepsContract

-----------------------------------------------------------------------------
(* What a PROCESSED file has in transcription_log.  These proofs need what *)
(* the steps outside a worker leave alone, and that a task that has got    *)
(* past its first step found the archive.                                  *)

\* A step of no worker: it queues tasks but takes none, and it marks no file
\* PROCESSED.
Outside ==
    /\ UNCHANGED <<task, logs, lost, pool>>
    /\ archive \subseteq archive'
    /\ faults <= faults'
    /\ \A k \in Key :
          /\ queued[k] <= queued'[k]
          /\ fileLog'[k].status = "PROCESSED" => fileLog'[k] = fileLog[k]

\* Every other step is a task's, or the end of them all.
LEMMA OutsideSteps ==
    ASSUME TypeInv, [Next]_vars
    PROVE  \/ Outside
           \/ CeleryDies
           \/ \E w \in Worker : \/ Open(w) \/ Throw(w) \/ Delete(w)
                                \/ BulkCreate(w) \/ Save(w) \/ MarkFailed(w)
                                \/ ChildDies(w)
                                \/ \E k \in Key : Take(w, k)
<1>types. /\ queued \in [Key -> Nat] /\ faults \in Nat
          /\ fileLog \in [Key -> Row] /\ hook \in [Webhook -> HookState]
          /\ HookBusy
  BY DEF TypeInv, TypeOK
<1>1. ASSUME UNCHANGED <<task, logs, lost, pool, queued, fileLog, faults>>,
             archive \subseteq archive'
      PROVE  Outside
  BY <1>1, <1>types DEF Outside
<1>2. ASSUME NEW k \in Key, Upload(k) \/ Duplicate(k) \/ RpcValidate(k)
      PROVE  Outside
  BY <1>1, <1>2 DEF Upload, Duplicate, RpcValidate, bounds
<1>3. ASSUME NEW h \in Webhook, HookFail(h) \/ GunicornDies(h) PROVE Outside
  BY <1>3, <1>types DEF HookFail, GunicornDies, Fault, Outside
<1>4. ASSUME NEW k \in Key, RpcFail(k) PROVE Outside
  BY <1>4, <1>types DEF RpcFail, Fault, Outside, outside
<1>5. ASSUME NEW k \in Key, RpcDelay(k) \/ Reprocess(k) PROVE Outside
  BY <1>5, <1>types DEF RpcDelay, Reprocess, Delay, Outside, outside, bounds
<1>6. ASSUME NEW h \in Webhook, HookDelay(h) PROVE Outside
  BY <1>6, <1>types DEF HookDelay, Delay, Outside, outside, bounds
<1>7. ASSUME NEW h \in Webhook, NEW k \in Key, HookGet(h, k) PROVE Outside
  <2>1. \A j \in Key : fileLog'[j].status = "PROCESSED" => fileLog'[j] = fileLog[j]
    BY <1>7, <1>types DEF HookGet, Inserted, Row
  <2> QED
    BY <1>7, <2>1, <1>types DEF HookGet, Outside, bounds
<1>8. ASSUME NEW k \in Key, RpcInsert(k) PROVE Outside
  <2>1. \A j \in Key : fileLog'[j].status = "PROCESSED" => fileLog'[j] = fileLog[j]
    BY <1>8, <1>types DEF RpcInsert, Inserted, Row
  <2> QED
    BY <1>8, <2>1, <1>types DEF RpcInsert, Outside, outside, bounds
<1>9. ASSUME NEW h \in Webhook, HookSave(h) PROVE Outside
  <2>1. \A j \in Key : fileLog'[j].status = "PROCESSED" => fileLog'[j] = fileLog[j]
    BY <1>9, <1>types DEF HookSave, HookBusy, HookState, Row
  <2> QED
    BY <1>9, <2>1, <1>types DEF HookSave, Outside, outside, bounds
<1>10. ASSUME RetryCron PROVE Outside
  <2>1. \A j \in Key : fileLog'[j].status = "PROCESSED" => fileLog'[j] = fileLog[j]
    BY <1>10, <1>types DEF RetryCron, Eligible, Row
  <2> QED
    BY <1>10, <2>1, <1>types DEF RetryCron, Outside, outside, bounds
<1>11. ASSUME GrpcDies PROVE Outside
  BY <1>1, <1>11 DEF GrpcDies, outside
<1>12. ASSUME UNCHANGED vars PROVE Outside
  BY <1>1, <1>12 DEF vars
<1> QED
  BY <1>2, <1>3, <1>4, <1>5, <1>6, <1>7, <1>8, <1>9, <1>10, <1>11, <1>12
  DEF Next, HookStep, RpcStep, WorkStep

\* What a step of the task in slot w does to the slots: it moves its own, to
\* the pc given, or frees it.
LEMMA TaskMoves ==
    ASSUME TypeInv, NEW w \in Worker, task[w].pc # "idle",
           NEW pc \in {"open", "delete", "create", "save", "fail"},
           task' = [task EXCEPT ![w].pc = pc]
    PROVE  /\ task'[w].key = task[w].key /\ task'[w].pc = pc
           /\ task'[w].row = task[w].row
           /\ \A v \in Worker : v # w => task'[v] = task[v]
  BY DEF TypeInv, TypeOK, TaskState

\* A task that ends frees its slot, and no key is its key any more.
LEMMA TaskEnds ==
    ASSUME TypeInv, NEW w \in Worker, task' = [task EXCEPT ![w] = TaskIdle]
    PROVE  /\ task'[w].key \notin Key /\ task'[w].pc = "idle"
           /\ \A v \in Worker : v # w => task'[v] = task[v]
  BY NoneIsNoKey DEF TypeInv, TypeOK, TaskIdle, HookIdle

\* Without an archive no task gets past its first step, so no file whose
\* archive is missing is PROCESSED.
OpenedInv ==
    \A k \in Key :
        k \notin archive =>
            /\ fileLog[k].status # "PROCESSED"
            /\ \A w \in Worker : task[w].key = k => task[w].pc \in {"open", "fail"}

\* A task waits at its first step until the archive is there, or fails.
LEMMA OpenedStep == TypeInv /\ OpenedInv /\ [Next]_vars => OpenedInv'
<1> SUFFICES ASSUME TypeInv, OpenedInv, [Next]_vars, NEW k \in Key,
                    k \notin archive'
             PROVE  /\ fileLog'[k].status # "PROCESSED"
                    /\ \A v \in Worker :
                          task'[v].key = k => task'[v].pc \in {"open", "fail"}
  BY DEF OpenedInv
<1> DEFINE Goal == /\ fileLog'[k].status # "PROCESSED"
                   /\ \A v \in Worker :
                        task'[v].key = k => task'[v].pc \in {"open", "fail"}
<1>types. /\ task \in [Worker -> TaskState] /\ TaskBusy
          /\ fileLog \in [Key -> Row]
  BY DEF TypeInv, TypeOK
<1>1. ASSUME Outside PROVE Goal
  BY <1>1 DEF Outside, OpenedInv
<1>2. ASSUME CeleryDies PROVE Goal
  BY <1>2, NoneIsNoKey DEF CeleryDies, OpenedInv, outside, TaskIdle, HookIdle
<1>3. ASSUME NEW w \in Worker, NEW j \in Key, Take(w, j) PROVE Goal
  BY <1>3, <1>types DEF Take, outside, OpenedInv, TaskIdle, HookIdle
<1>4. ASSUME NEW w \in Worker, Open(w) PROVE Goal
  <2>1. task[w].key # k /\ k \notin archive
    BY <1>4 DEF Open, outside
  <2>2. \A v \in Worker : v # w => task'[v] = task[v]
    BY <1>4, <1>types DEF Open
  <2>3. task'[w].key = task[w].key
    BY <1>4, <1>types DEF Open, TaskState
  <2>4. fileLog'[k] = fileLog[k]
    BY <1>4, <2>1, <1>types DEF Open
  <2> QED
    BY <2>1, <2>2, <2>3, <2>4 DEF OpenedInv
<1>5. ASSUME NEW w \in Worker, Throw(w) PROVE Goal
  <2>1. task' = [task EXCEPT ![w].pc = "fail"] /\ UNCHANGED <<archive, fileLog>>
        /\ task[w].pc # "idle"
    BY <1>5 DEF Throw, outside
  <2> QED
    BY <2>1, TaskMoves DEF OpenedInv
<1>6. ASSUME NEW w \in Worker, Delete(w) PROVE Goal
  <2>1. task' = [task EXCEPT ![w].pc = "create"] /\ UNCHANGED <<archive, fileLog>>
        /\ task[w].pc = "delete"
    BY <1>6 DEF Delete, outside
  <2>2. task[w].key # k
    BY <2>1 DEF OpenedInv
  <2> QED
    BY <2>1, <2>2, TaskMoves DEF OpenedInv
<1>7. ASSUME NEW w \in Worker, BulkCreate(w) PROVE Goal
  <2>1. task' = [task EXCEPT ![w].pc = "save"] /\ UNCHANGED <<archive, fileLog>>
        /\ task[w].pc = "create"
    BY <1>7 DEF BulkCreate, outside
  <2>2. task[w].key # k
    BY <2>1 DEF OpenedInv
  <2> QED
    BY <2>1, <2>2, TaskMoves DEF OpenedInv
<1>8. ASSUME NEW w \in Worker, Save(w) \/ MarkFailed(w) \/ ChildDies(w) PROVE Goal
  <2>1. task' = [task EXCEPT ![w] = TaskIdle] /\ archive' = archive
    BY <1>8 DEF Save, MarkFailed, ChildDies, outside
  <2>2. fileLog'[k].status # "PROCESSED"
    <3>1. CASE Save(w)
      <4>1. task[w].key # k
        BY <3>1, <2>1 DEF OpenedInv, Save
      <4> QED
        BY <3>1, <4>1, <2>1, <1>types DEF OpenedInv, Save
    <3>2. CASE MarkFailed(w)
      BY <3>2, <2>1, <1>types DEF OpenedInv, MarkFailed, Row
    <3>3. CASE ChildDies(w)
      BY <3>3, <2>1 DEF OpenedInv, ChildDies, outside
    <3> QED
      BY <1>8, <3>1, <3>2, <3>3
  <2>3. /\ task'[w].key \notin Key
        /\ \A v \in Worker : v # w => task'[v] = task[v]
    BY <2>1, TaskEnds
  <2> QED
    BY <2>1, <2>2, <2>3 DEF OpenedInv
<1> QED
  BY <1>1, <1>2, <1>3, <1>4, <1>5, <1>6, <1>7, <1>8, OutsideSteps

\* A task that has still to write k's transcript, or a message for one.
ToWrite(k) ==
    \/ queued[k] > 0
    \/ \E w \in Worker : task[w].key = k /\ task[w].pc \in {"open", "delete", "create"}

\* Without a failed call, a file that is PROCESSED, or about to be, and has no
\* transcript is one that some task will still write.
Kept(k) ==
    /\ k \notin lost /\ logs[k] = 0
    /\ \/ fileLog[k].status = "PROCESSED"
       \/ \E w \in Worker : task[w].key = k /\ task[w].pc = "save"
    => ToWrite(k)

KeptInv == faults = 0 => \A k \in Key : Kept(k)

\* The step that leaves a file without a transcript leaves its task, or another,
\* before the insert; a message that is taken or given back is still a task.
LEMMA KeptStep == TypeInv /\ OpenedInv /\ KeptInv /\ [Next]_vars => KeptInv'
<1> SUFFICES ASSUME TypeInv, OpenedInv, KeptInv, [Next]_vars,
                    faults' = 0, NEW k \in Key, k \notin lost', logs'[k] = 0,
                    \/ fileLog'[k].status = "PROCESSED"
                    \/ \E w \in Worker : task'[w].key = k /\ task'[w].pc = "save"
             PROVE  ToWrite(k)'
  BY DEF KeptInv, Kept
<1>types. /\ task \in [Worker -> TaskState] /\ TaskBusy
          /\ fileLog \in [Key -> Row] /\ logs \in [Key -> Nat]
          /\ queued \in [Key -> Nat] /\ faults \in Nat
  BY DEF TypeInv, TypeOK
<1>kept. ASSUME faults = 0, k \notin lost, logs[k] = 0,
                \/ fileLog[k].status = "PROCESSED"
                \/ \E w \in Worker : task[w].key = k /\ task[w].pc = "save"
         PROVE  ToWrite(k)
  BY <1>kept DEF KeptInv, Kept
<1>1. ASSUME Outside PROVE ToWrite(k)'
  <2>1. ToWrite(k)
    BY <1>1, <1>kept, <1>types DEF Outside
  <2>2. queued'[k] \in Nat
    BY TypeStep DEF TypeInv, TypeOK
  <2> QED
    BY <1>1, <2>1, <2>2, <1>types DEF Outside, ToWrite
<1>2. ASSUME CeleryDies PROVE ToWrite(k)'
  <2>1. UNCHANGED <<fileLog, logs, lost, faults>>
    BY <1>2 DEF CeleryDies, outside
  <2>2. \A w \in Worker : task'[w].key # k
    BY <1>2, NoneIsNoKey DEF CeleryDies, TaskIdle, HookIdle
  <2>3. ToWrite(k)
    BY <2>1, <2>2, <1>kept
  <2>4. queued'[k] = queued[k] + Unacked(k) /\ Unacked(k) \in Nat
    BY <1>2, UnackedIsNat DEF CeleryDies
  <2>5. queued[k] > 0 \/ Unacked(k) > 0
    BY <2>3, UnackedOfTasks DEF ToWrite
  <2> QED
    BY <2>4, <2>5, <1>types DEF ToWrite
<1>3. ASSUME NEW w \in Worker, NEW j \in Key, Take(w, j) PROVE ToWrite(k)'
  <2>1. UNCHANGED <<fileLog, logs, lost, faults>>
    BY <1>3 DEF Take, outside, bounds
  <2>2. /\ task'[w].key = j /\ task'[w].pc = "open" /\ task[w].pc = "idle"
        /\ \A v \in Worker : v # w => task'[v] = task[v]
    BY <1>3, <1>types DEF Take, TaskIdle, HookIdle
  <2>3. ToWrite(k)
    BY <2>1, <2>2, <1>kept
  <2>4. CASE j = k
    BY <2>2, <2>4 DEF ToWrite
  <2>5. CASE j # k
    <3>1. queued'[k] = queued[k]
      BY <1>3, <2>5, <1>types DEF Take
    <3> QED
      BY <2>2, <2>3, <3>1 DEF ToWrite
  <2> QED
    BY <2>4, <2>5
<1>4. ASSUME NEW w \in Worker, Open(w) PROVE ToWrite(k)'
  <2>1. UNCHANGED <<logs, lost, faults, queued>>
    BY <1>4 DEF Open, outside, bounds
  <2>2. /\ task'[w].key = task[w].key /\ task'[w].pc = "delete"
        /\ \A v \in Worker : v # w => task'[v] = task[v]
    BY <1>4, <1>types DEF Open, TaskState
  <2>3. CASE task[w].key = k
    BY <2>2, <2>3 DEF ToWrite
  <2>4. CASE task[w].key # k
    <3>1. fileLog'[k] = fileLog[k]
      BY <1>4, <2>4, <1>types DEF Open
    <3>2. ToWrite(k)
      BY <2>1, <2>2, <3>1, <1>kept
    <3> QED
      BY <2>1, <2>2, <2>4, <3>2 DEF ToWrite
  <2> QED
    BY <2>3, <2>4
<1>5. ASSUME NEW w \in Worker, Throw(w) PROVE ToWrite(k)'
  <2>1. /\ task' = [task EXCEPT ![w].pc = "fail"] /\ task[w].pc # "idle"
        /\ UNCHANGED <<archive, fileLog, logs, lost, queued>>
    BY <1>5 DEF Throw, outside
  <2>2. task[w].key \notin archive /\ faults = 0
    BY <1>5, <1>types DEF Throw, Fault
  <2>3. /\ task'[w].key = task[w].key /\ task'[w].pc = "fail"
        /\ \A v \in Worker : v # w => task'[v] = task[v]
    BY <2>1, TaskMoves
  <2>4. \/ fileLog[k].status = "PROCESSED"
        \/ \E v \in Worker : task[v].key = k /\ task[v].pc = "save"
    BY <2>1, <2>3
  <2>5. k \in archive
    BY <2>4 DEF OpenedInv
  <2>6. ToWrite(k)
    BY <2>1, <2>2, <2>4, <1>kept
  <2> QED
    BY <2>1, <2>2, <2>3, <2>5, <2>6 DEF ToWrite
<1>6. ASSUME NEW w \in Worker, Delete(w) PROVE ToWrite(k)'
  <2>1. /\ task' = [task EXCEPT ![w].pc = "create"] /\ task[w].pc # "idle"
        /\ UNCHANGED <<fileLog, lost, queued, faults>>
    BY <1>6 DEF Delete, outside, bounds
  <2>2. /\ task'[w].key = task[w].key /\ task'[w].pc = "create"
        /\ \A v \in Worker : v # w => task'[v] = task[v]
    BY <2>1, TaskMoves
  <2>3. CASE task[w].key = k
    BY <2>2, <2>3 DEF ToWrite
  <2>4. CASE task[w].key # k
    <3>1. logs'[k] = logs[k]
      BY <1>6, <2>4, <1>types DEF Delete
    <3>2. ToWrite(k)
      BY <2>1, <2>2, <3>1, <1>kept
    <3> QED
      BY <2>1, <2>2, <2>4, <3>2 DEF ToWrite
  <2> QED
    BY <2>3, <2>4
<1>7. ASSUME NEW w \in Worker, BulkCreate(w) PROVE ToWrite(k)'
  <2>1. /\ task' = [task EXCEPT ![w].pc = "save"] /\ task[w].pc # "idle"
        /\ UNCHANGED <<fileLog, lost, queued, faults>>
    BY <1>7 DEF BulkCreate, outside, bounds
  <2>2. /\ task'[w].key = task[w].key
        /\ \A v \in Worker : v # w => task'[v] = task[v]
    BY <2>1, TaskMoves
  <2>3. task[w].key # k /\ logs'[k] = logs[k]
    BY <1>7, <1>types DEF BulkCreate
  <2>4. ToWrite(k)
    BY <2>1, <2>2, <2>3, <1>kept
  <2> QED
    BY <2>1, <2>2, <2>3, <2>4 DEF ToWrite
<1>8. ASSUME NEW w \in Worker, Save(w) PROVE ToWrite(k)'
  <2>1. /\ task' = [task EXCEPT ![w] = TaskIdle] /\ task[w].pc = "save"
        /\ UNCHANGED <<logs, lost, queued, faults>>
    BY <1>8 DEF Save, outside, bounds
  <2>2. /\ task'[w].key \notin Key
        /\ \A v \in Worker : v # w => task'[v] = task[v]
    BY <2>1, TaskEnds
  <2>3. task[w].key # k => fileLog'[k] = fileLog[k]
    BY <1>8, <1>types DEF Save
  <2>4. ToWrite(k)
    BY <2>1, <2>2, <2>3, <1>kept
  <2> QED
    BY <2>1, <2>2, <2>4 DEF ToWrite
<1>9. ASSUME NEW w \in Worker, MarkFailed(w) PROVE ToWrite(k)'
  <2>1. /\ task' = [task EXCEPT ![w] = TaskIdle] /\ task[w].pc = "fail"
        /\ UNCHANGED <<logs, queued>>
    BY <1>9, <1>types DEF MarkFailed, Fault, outside
  <2>2. UNCHANGED <<lost, faults>>
    BY <1>9, <1>types DEF MarkFailed, Fault
  <2>3. /\ task'[w].key \notin Key
        /\ \A v \in Worker : v # w => task'[v] = task[v]
    BY <2>1, TaskEnds
  <2>4. fileLog'[k].status = "PROCESSED" => fileLog[k].status = "PROCESSED"
    BY <1>9, <1>types DEF MarkFailed, Row
  <2>5. ToWrite(k)
    BY <2>1, <2>2, <2>3, <2>4, <1>kept
  <2> QED
    BY <2>1, <2>3, <2>5 DEF ToWrite
<1>10. ASSUME NEW w \in Worker, ChildDies(w) PROVE ToWrite(k)'
  <2>1. /\ task' = [task EXCEPT ![w] = TaskIdle]
        /\ lost' = lost \cup {task[w].key}
        /\ UNCHANGED <<logs, queued, fileLog, faults>>
    BY <1>10 DEF ChildDies, outside
  <2>2. /\ task'[w].key \notin Key
        /\ \A v \in Worker : v # w => task'[v] = task[v]
    BY <2>1, TaskEnds
  <2>3. task[w].key # k /\ k \notin lost
    BY <2>1
  <2>4. ToWrite(k)
    BY <2>1, <2>2, <2>3, <1>kept
  <2> QED
    BY <2>1, <2>2, <2>3, <2>4 DEF ToWrite
<1> QED
  BY <1>1, <1>2, <1>3, <1>4, <1>5, <1>6, <1>7, <1>8, <1>9, <1>10, OutsideSteps

\* However tasks of a file overlap, are queued again or come back after a
\* restart, a PROCESSED file without a transcript is one some task will still
\* write, but for failed calls and lost tasks.
THEOREM ProcessedHasTranscriptCorrect == Spec => []ProcessedHasTranscript
<1>1. Init => OpenedInv /\ KeptInv
  BY NoneIsNoKey
     DEF Init, OpenedInv, KeptInv, Kept, TaskIdle, HookIdle, NoRow
<1>2. TypeInv /\ KeptInv => ProcessedHasTranscript
  BY DEF TypeInv, TypeOK, KeptInv, Kept, ToWrite, ProcessedHasTranscript
<1> QED
  BY <1>1, <1>2, OpenedStep, KeptStep, TypeInvariant, PTL DEF Spec

\* A pool of one slot runs one task at a time.
LEMMA OneAtATime ==
    ASSUME TypeInv, PoolInv, Cardinality(pool) = 1,
           NEW v \in Worker, NEW w \in Worker,
           task[v].pc # "idle", task[w].pc # "idle"
    PROVE  v = w
<1>1. IsFiniteSet(pool) /\ v \in pool /\ w \in pool
  BY FiniteWorkers, FS_Subset DEF TypeInv, TypeOK, PoolInv
<1>2. \E x : pool = {x}
  BY <1>1, FS_Singleton
<1> QED
  BY <1>1, <1>2

\* With one slot, a PROCESSED file has its transcript, and while its task is
\* rewriting it the file is not PROCESSED.
SoloInv ==
    Cardinality(pool) = 1 =>
        /\ \A k \in Key :
              fileLog[k].status = "PROCESSED" => logs[k] = 1 /\ fileLog[k].audio
        /\ \A w \in Worker :
              task[w].pc \in {"delete", "create", "save"} =>
                  /\ fileLog[task[w].key].status # "PROCESSED"
                  /\ task[w].pc = "create" => logs[task[w].key] = 0
                  /\ task[w].pc = "save" => logs[task[w].key] = 1

\* The one task at work is the only one that touches a transcript or a result.
LEMMA SoloStep == TypeInv /\ PoolInv /\ SoloInv /\ [Next]_vars => SoloInv'
<1> DEFINE Stored(k) == fileLog[k].status = "PROCESSED" =>
                            logs[k] = 1 /\ fileLog[k].audio
           Writing(w) == task[w].pc \in {"delete", "create", "save"} =>
                  /\ fileLog[task[w].key].status # "PROCESSED"
                  /\ task[w].pc = "create" => logs[task[w].key] = 0
                  /\ task[w].pc = "save" => logs[task[w].key] = 1
           Goal == (\A k \in Key : Stored(k)') /\ (\A w \in Worker : Writing(w)')
<1> SUFFICES ASSUME TypeInv, PoolInv, SoloInv, [Next]_vars, Cardinality(pool) = 1
             PROVE  Goal
  BY PoolStep DEF SoloInv
<1>types. /\ task \in [Worker -> TaskState] /\ TaskBusy
          /\ fileLog \in [Key -> Row] /\ logs \in [Key -> Nat]
  BY DEF TypeInv, TypeOK
<1>stored. \A k \in Key : Stored(k)
  BY DEF SoloInv
<1>writing. \A w \in Worker : Writing(w)
  BY DEF SoloInv
<1>idle. ASSUME NEW w \in Worker, task[w].pc # "idle",
                NEW v \in Worker, v # w
         PROVE  task[v].pc = "idle"
  BY <1>idle, OneAtATime
<1>1. ASSUME Outside PROVE Goal
  <2>1. \A w \in Worker : task[w].pc # "idle" => task[w].key \in Key
    BY <1>types DEF TaskBusy
  <2> QED
    BY <1>1, <2>1, <1>stored, <1>writing DEF Outside
<1>2. ASSUME CeleryDies PROVE Goal
  BY <1>2, <1>stored DEF CeleryDies, outside, TaskIdle, HookIdle
<1>3. ASSUME NEW w \in Worker, NEW j \in Key, Take(w, j) PROVE Goal
  <2>1. /\ UNCHANGED <<fileLog, logs>> /\ task'[w].pc = "open"
        /\ \A v \in Worker : v # w => task'[v] = task[v]
    BY <1>3, <1>types DEF Take, bounds, outside, TaskIdle, HookIdle
  <2> QED
    BY <2>1, <1>stored, <1>writing
<1>4. ASSUME NEW w \in Worker, Open(w) PROVE Goal
  <2>k. PICK k \in Key : k = task[w].key
    BY <1>4, <1>types DEF Open, TaskBusy
  <2>1. /\ logs' = logs /\ fileLog'[k].status = "PROCESSING"
        /\ \A j \in Key : j # k => fileLog'[j] = fileLog[j]
    BY <1>4, <2>k, <1>types DEF Open, Opened, Inserted, Row
  <2>2. /\ task'[w].key = k /\ task'[w].pc = "delete"
        /\ \A v \in Worker : v # w => task'[v] = task[v]
    BY <1>4, <2>k, <1>types DEF Open, TaskState
  <2>3. \A v \in Worker : v # w => task[v].pc = "idle"
    BY <1>4, <1>idle DEF Open
  <2> QED
    BY <2>1, <2>2, <2>3, <1>stored
<1>5. ASSUME NEW w \in Worker, Throw(w) PROVE Goal
  <2>1. /\ task' = [task EXCEPT ![w].pc = "fail"] /\ task[w].pc # "idle"
        /\ UNCHANGED <<fileLog, logs>>
    BY <1>5 DEF Throw, outside
  <2>2. /\ task'[w].pc = "fail" /\ \A v \in Worker : v # w => task'[v] = task[v]
    BY <2>1, TaskMoves
  <2> QED
    BY <2>1, <2>2, <1>stored, <1>writing
<1>6. ASSUME NEW w \in Worker, Delete(w) PROVE Goal
  <2>k. PICK k \in Key : k = task[w].key
    BY <1>6, <1>types DEF Delete, TaskBusy
  <2>1. /\ task' = [task EXCEPT ![w].pc = "create"] /\ task[w].pc = "delete"
        /\ fileLog' = fileLog /\ logs'[k] = 0
        /\ \A j \in Key : j # k => logs'[j] = logs[j]
    BY <1>6, <2>k, <1>types DEF Delete, Cleared, outside, bounds
  <2>2. /\ task'[w].key = k /\ task'[w].pc = "create"
        /\ \A v \in Worker : v # w => task'[v] = task[v]
    BY <2>k, <2>1, TaskMoves
  <2>3. \A v \in Worker : v # w => task[v].pc = "idle"
    BY <2>1, <1>idle
  <2>4. fileLog[k].status # "PROCESSED"
    BY <2>k, <2>1, <1>writing
  <2> QED
    BY <2>1, <2>2, <2>3, <2>4, <1>stored
<1>7. ASSUME NEW w \in Worker, BulkCreate(w) PROVE Goal
  <2>k. PICK k \in Key : k = task[w].key
    BY <1>7, <1>types DEF BulkCreate, TaskBusy
  <2>1. /\ task' = [task EXCEPT ![w].pc = "save"] /\ task[w].pc = "create"
        /\ fileLog' = fileLog /\ logs'[k] = logs[k] + 1
        /\ \A j \in Key : j # k => logs'[j] = logs[j]
    BY <1>7, <2>k, <1>types DEF BulkCreate, outside, bounds
  <2>2. /\ task'[w].key = k /\ task'[w].pc = "save"
        /\ \A v \in Worker : v # w => task'[v] = task[v]
    BY <2>k, <2>1, TaskMoves
  <2>3. \A v \in Worker : v # w => task[v].pc = "idle"
    BY <2>1, <1>idle
  <2>4. fileLog[k].status # "PROCESSED" /\ logs[k] = 0
    BY <2>k, <2>1, <1>writing
  <2> QED
    BY <2>1, <2>2, <2>3, <2>4, <1>stored
<1>8. ASSUME NEW w \in Worker, Save(w) PROVE Goal
  <2>k. PICK k \in Key : k = task[w].key
    BY <1>8, <1>types DEF Save, TaskBusy
  <2>1. /\ task' = [task EXCEPT ![w] = TaskIdle] /\ task[w].pc = "save"
        /\ logs' = logs /\ fileLog'[k].audio
        /\ \A j \in Key : j # k => fileLog'[j] = fileLog[j]
    <3>1. task[w].row \in Row
      BY <1>types DEF TaskState
    <3> QED
      BY <1>8, <2>k, <3>1, <1>types DEF Save, Processed, Row, outside, bounds
  <2>2. task'[w].pc = "idle" /\ \A v \in Worker : v # w => task'[v] = task[v]
    BY <2>1, TaskEnds
  <2>3. \A v \in Worker : v # w => task[v].pc = "idle"
    BY <2>1, <1>idle
  <2>4. logs[k] = 1
    BY <2>k, <2>1, <1>writing
  <2> QED
    BY <2>1, <2>2, <2>3, <2>4, <1>stored
<1>9. ASSUME NEW w \in Worker, MarkFailed(w) \/ ChildDies(w) PROVE Goal
  <2>1. task' = [task EXCEPT ![w] = TaskIdle] /\ logs' = logs /\ task[w].pc # "idle"
    BY <1>9 DEF MarkFailed, ChildDies, outside
  <2>2. \A j \in Key : fileLog'[j].status = "PROCESSED" => fileLog'[j] = fileLog[j]
    BY <1>9, <1>types DEF MarkFailed, ChildDies, outside, Row
  <2>3. task'[w].pc = "idle" /\ \A v \in Worker : v # w => task'[v] = task[v]
    BY <2>1, TaskEnds
  <2>4. \A v \in Worker : v # w => task[v].pc = "idle"
    BY <2>1, <1>idle
  <2> QED
    BY <2>1, <2>2, <2>3, <2>4, <1>stored
<1> QED
  BY <1>1, <1>2, <1>3, <1>4, <1>5, <1>6, <1>7, <1>8, <1>9, OutsideSteps

\* With a pool of one slot a PROCESSED file has its transcript once and its
\* audio key, whatever is notified or reprocessed, fails or dies.
THEOREM ProcessedIsCompleteCorrect == Spec => []ProcessedIsComplete
<1>1. Init => PoolInv /\ SoloInv
  BY DEF Init, PoolInv, SoloInv, TaskIdle, HookIdle, NoRow
<1>2. SoloInv => ProcessedIsComplete
  BY DEF SoloInv, ProcessedIsComplete, CompletedSuccessfully
<1> QED
  BY <1>1, <1>2, PoolStep, SoloStep, TypeInvariant, PTL DEF Spec

=============================================================================
