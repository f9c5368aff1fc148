---------------------------- MODULE BotLifecycle ----------------------------
(***************************************************************************)
(* The life of a meeting bot in api-backend: the row of the table "bots",  *)
(* the ECS task that sits in the meeting, the retry queue, and the         *)
(* handlers that read and write them concurrently: POST /bot (createBot),  *)
(* the ten minute start job (initiateScheduledBot), POST /bot/:id/leave    *)
(* (leaveCall), the two synchronisation jobs (syncTaskStatus) and the      *)
(* BullMQ worker of the retry queue (ECSTaskProcessor).                    *)
(*                                                                         *)
(* Every handler is an async function of one Node process.  A step of the  *)
(* model runs from one await to the next that another handler can tell     *)
(* apart.  A handler keeps what it read in its own record (init, leave,    *)
(* sync, worker) and uses it later, when the row may have changed.         *)
(***************************************************************************)
EXTENDS Naturals, Sequences, FiniteSets

CONSTANTS
    Bot,                  \* ids of the bots that may be created
    TaskId,               \* ids ECS may give to tasks (bounds the launches)
    Syncer,               \* invocations of syncTaskStatus that can overlap
    Cron,                 \* the invocation of initiateScheduledBot
    None,                 \* null
    Providers,            \* classes the Nest modules instantiate
    Production,           \* nodeEnv = 'production'
    MeetingBotRetryCount, \* bot.meetingBotRetryCount
    MaxFaults,            \* bound on failed calls to PostgreSQL, ECS, Redis, gRPC
    MaxCrashes            \* bound on crashes of the api-backend process

ASSUME ConstantsAssumption ==
    /\ None \notin Bot \cup TaskId
    /\ Cron \notin Bot
    /\ Production \in BOOLEAN
    /\ MeetingBotRetryCount \in Nat
    /\ MaxFaults \in Nat
    /\ MaxCrashes \in Nat

ASSUME FiniteTasksAssumption == IsFiniteSet(TaskId)

VARIABLES
    bots,     \* the table "bots"
    due,      \* where joinAt lies: beyond the next ten minutes, within, past
    today,    \* the created bots whose createdAt lies in the current day
    ecs,      \* the tasks of the ECS cluster
    queue,    \* the waiting jobs of ECS_TASK_QUEUE, by botId
    fileLogs, \* the tar file keys for which createFileLog was called
    init,     \* the runs of initiateBot: one per create request, and Cron's
    cronTodo, \* the bots initiateScheduledBot has still to start
    leave,    \* the leave request of each bot
    sync,     \* the invocations of syncTaskStatus
    worker,   \* the worker of the retry queue
    faults, crashes,
    orphans,    \* history: the tasks launched whose record was lost
    overlapped  \* history: the bots two runs of syncTaskStatus had at once

vars == <<bots, due, today, ecs, queue, fileLogs, init, cronTodo, leave,
          sync, worker, faults, crashes, orphans, overlapped>>

rowVars     == <<bots, due, today>>
handlerVars == <<init, cronTodo, leave, sync, worker>>
outVars     == <<queue, fileLogs>>
\* No guard reads the history variables: only properties do.
noteVars    == <<crashes, orphans, overlapped>>
boundVars   == <<faults, noteVars>>

-----------------------------------------------------------------------------
(* The data.                                                               *)

\* ExecutionStatusLogEnum; "ABSENT" stands for a row not yet inserted.
Status == {"ABSENT", "PENDING", "STARTED", "COMPLETED", "FAILED", "STOPPED"}

Ended == {"COMPLETED", "FAILED", "STOPPED"}

\* A null retryCount counts as 0, as in JavaScript's null < n and null + 1.
\* A tar file key is named by the first task that was given it.
BotRow == [status: Status, taskId: TaskId \cup {None},
           tarFileKey: TaskId \cup {None}, retryCount: Nat]

\* "done" and "error" are lastStatus STOPPED without and with a stopCode in
\* TASK_STOPPED_ERROR_CODES; "stopping" has been asked to stop.
TaskState == {"unused", "running", "stopping", "done", "error"}

Task == [state: TaskState, bot: Bot \cup {None}, key: TaskId \cup {None}]

Initiator == Bot \cup {Cron}

InitState == [pc: {"idle", "inserted", "read", "run", "record"},
              bot: Bot \cup {None}, was: Status, task: TaskId \cup {None}]

LeaveState == [pc: {"idle", "stop", "mark"}, task: TaskId \cup {None},
               was: Status]

SyncState == [pc: {"idle", "mark", "enqueue", "trigger"},
              todo: SUBSET (Bot \X TaskId), bot: Bot \cup {None},
              verdict: {"none", "error", "done", "lost"}]

WorkerState == [pc: {"idle", "run", "record"}, bot: Bot \cup {None},
                task: TaskId \cup {None}, retry: Nat,
                new: TaskId \cup {None}]

InitIdle   == [pc |-> "idle", bot |-> None, was |-> "ABSENT", task |-> None]
LeaveIdle  == [pc |-> "idle", task |-> None, was |-> "ABSENT"]
SyncIdle   == [pc |-> "idle", todo |-> {}, bot |-> None, verdict |-> "none"]
WorkerIdle == [pc |-> "idle", bot |-> None, task |-> None, retry |-> 0,
               new |-> None]

TypeOK ==
    /\ bots \in [Bot -> BotRow]
    /\ due \in [Bot -> {"later", "window", "past"}]
    /\ today \in [Bot -> BOOLEAN]
    /\ ecs \in [TaskId -> Task]
    /\ queue \in Seq(Bot)
    /\ fileLogs \in SUBSET TaskId
    /\ init \in [Initiator -> InitState]
    /\ cronTodo \in SUBSET Bot
    /\ leave \in [Bot -> LeaveState]
    /\ sync \in [Syncer -> SyncState]
    /\ worker \in WorkerState
    /\ faults \in Nat
    /\ crashes \in Nat
    /\ orphans \in SUBSET TaskId
    /\ overlapped \in SUBSET Bot

Init ==
    /\ bots = [b \in Bot |-> [status |-> "ABSENT", taskId |-> None,
                              tarFileKey |-> None, retryCount |-> 0]]
    /\ due = [b \in Bot |-> "later"]
    /\ today = [b \in Bot |-> FALSE]
    /\ ecs = [t \in TaskId |-> [state |-> "unused", bot |-> None, key |-> None]]
    /\ queue = <<>>
    /\ fileLogs = {}
    /\ init = [i \in Initiator |-> InitIdle]
    /\ cronTodo = {}
    /\ leave = [b \in Bot |-> LeaveIdle]
    /\ sync = [s \in Syncer |-> SyncIdle]
    /\ worker = WorkerIdle
    /\ faults = 0
    /\ crashes = 0
    /\ orphans = {}
    /\ overlapped = {}

\* A call to PostgreSQL, ECS, Redis or the worker backend fails: it throws.
Fault == faults < MaxFaults /\ faults' = faults + 1

\* A cluster without room for another task: RunTask returns none.
Full == \A t \in TaskId : ecs[t].state # "unused"

-----------------------------------------------------------------------------
(* BotService.createBot and BotService.initiateBot.                        *)

\* createBot inserts the row; the request may ask for any joinAt.
CreateBot(b) ==
    /\ bots[b].status = "ABSENT"
    /\ bots' = [bots EXCEPT ![b].status = "PENDING"]
    /\ \E d \in {"later", "window", "past"} : due' = [due EXCEPT ![b] = d]
    /\ today' = [today EXCEPT ![b] = TRUE]
    /\ init' = [init EXCEPT ![b] = [InitIdle EXCEPT !.pc = "inserted",
                                                    !.bot = b]]
    /\ UNCHANGED <<ecs, outVars, cronTodo, leave, sync, worker, boundVars>>

\* A bot whose joinAt is still ahead is left to the scheduled job; any other
\* is started by the request itself.
CreateCheck(b) ==
    /\ init[b].pc = "inserted"
    /\ init' = [init EXCEPT ![b] =
                   IF due[b] = "past" THEN [@ EXCEPT !.pc = "read"]
                                      ELSE InitIdle]
    /\ UNCHANGED <<rowVars, ecs, outVars, cronTodo, leave, sync, worker,
                   boundVars>>

\* initiateBot reads the row: the snapshot it will update later.
InitiateRead(i) ==
    /\ init[i].pc = "read"
    /\ init' = [init EXCEPT ![i].pc = "run",
                            ![i].was = bots[init[i].bot].status]
    /\ UNCHANGED <<rowVars, ecs, outVars, cronTodo, leave, sync, worker,
                   boundVars>>

\* It signs the upload urls and runs an ECS task with them, whatever the
\* status it has read.
InitiateRun(i) ==
    /\ init[i].pc = "run"
    /\ \E t \in TaskId :
          /\ ecs[t].state = "unused"
          /\ ecs' = [ecs EXCEPT ![t] = [state |-> "running",
                                        bot |-> init[i].bot, key |-> t]]
          /\ init' = [init EXCEPT ![i].pc = "record", ![i].task = t]
    /\ UNCHANGED <<rowVars, outVars, cronTodo, leave, sync, worker, boundVars>>

\* An await of initiateBot throws: a create request answers with an error,
\* and the loop of initiateScheduledBot ends with the bots it had left.  The
\* update runs after the launch, so the task it should have recorded is on its
\* own; an answer of ECS that is lost is a launch with a failed update.
InitiateFail(i) ==
    /\ \/ init[i].pc \in {"read", "run", "record"} /\ Fault
       \/ init[i].pc = "run" /\ Full /\ UNCHANGED faults
    /\ init' = [init EXCEPT ![i] = InitIdle]
    /\ cronTodo' = IF i = Cron THEN {} ELSE cronTodo
    /\ orphans' = orphans \cup ({init[i].task} \ {None})
    /\ UNCHANGED <<rowVars, ecs, outVars, leave, sync, worker, crashes,
                   overlapped>>

\* Mutants of StartedRow: the task id is not written; a key found is kept.
StartedRowNoTask(r, t, was) == [r EXCEPT !.tarFileKey = t, !.status = "STARTED"]
StartedRowOldKey(r, t, was) ==
    [r EXCEPT !.taskId = t, !.tarFileKey = IF @ = None THEN t ELSE @,
              !.status = "STARTED"]

\* botInstance.update: Sequelize writes the columns that differ from the
\* snapshot, so a status read as STARTED is not written again.
StartedRow(r, t, was) ==
    [r EXCEPT !.taskId = t, !.tarFileKey = t,
              !.status = IF was = "STARTED" THEN @ ELSE "STARTED"]

InitiateRecord(i) ==
    /\ init[i].pc = "record"
    /\ bots' = [bots EXCEPT ![init[i].bot] =
                   StartedRow(@, init[i].task, init[i].was)]
    /\ init' = [init EXCEPT ![i] = InitIdle]
    /\ UNCHANGED <<due, today, ecs, outVars, cronTodo, leave, sync, worker,
                   boundVars>>

-----------------------------------------------------------------------------
(* BotService.initiateScheduledBot.  A tick is over before the next one.   *)

\* Mutant of ToStart: the query forgets the status.
ToStartAnyStatus == {b \in Bot : bots[b].status # "ABSENT" /\ due[b] = "window"}

\* The query: the pending bots that join within the next ten minutes.
ToStart == {b \in Bot : bots[b].status = "PENDING" /\ due[b] = "window"}

CronFindAll ==
    /\ init[Cron].pc = "idle" /\ cronTodo = {}
    /\ cronTodo' = ToStart
    /\ UNCHANGED <<rowVars, ecs, outVars, init, leave, sync, worker, boundVars>>

CronNext(b) ==
    /\ init[Cron].pc = "idle" /\ b \in cronTodo
    /\ cronTodo' = cronTodo \ {b}
    /\ init' = [init EXCEPT ![Cron] = [InitIdle EXCEPT !.pc = "read",
                                                       !.bot = b]]
    /\ UNCHANGED <<rowVars, ecs, outVars, leave, sync, worker, boundVars>>

-----------------------------------------------------------------------------
(* BotService.leaveCall.                                                   *)

LeaveRead(b) ==
    /\ leave[b].pc = "idle"
    /\ bots[b].status # "ABSENT"
    /\ leave' = [leave EXCEPT ![b] = [pc |-> "stop", task |-> bots[b].taskId,
                                      was |-> bots[b].status]]
    /\ UNCHANGED <<rowVars, ecs, outVars, init, cronTodo, sync, worker,
                   boundVars>>

LeaveStop(b) ==
    /\ leave[b].pc = "stop" /\ leave[b].task # None
    /\ ecs' = [ecs EXCEPT ![leave[b].task].state =
                  IF @ = "running" THEN "stopping" ELSE @]
    /\ leave' = [leave EXCEPT ![b].pc = "mark"]
    /\ UNCHANGED <<rowVars, outVars, init, cronTodo, sync, worker, boundVars>>

\* StopTask rejects a missing task id; it may fail for another reason, or the
\* update after it may: the task has then been asked to stop.
LeaveFail(b) ==
    /\ leave[b].pc # "idle"
    /\ \/ leave[b].task = None /\ UNCHANGED faults
       \/ leave[b].task # None /\ Fault
    /\ leave' = [leave EXCEPT ![b] = LeaveIdle]
    /\ UNCHANGED <<rowVars, ecs, outVars, init, cronTodo, sync, worker, noteVars>>

\* bot.update writes nothing when the snapshot was STOPPED already.
LeaveMark(b) ==
    /\ leave[b].pc = "mark"
    /\ bots' = [bots EXCEPT ![b].status =
                   IF leave[b].was = "STOPPED" THEN @ ELSE "STOPPED"]
    /\ leave' = [leave EXCEPT ![b] = LeaveIdle]
    /\ UNCHANGED <<due, today, ecs, outVars, init, cronTodo, sync, worker,
                   boundVars>>

-----------------------------------------------------------------------------
(* ECSClientService.syncTaskStatus.                                        *)

\* Mutant of ToSync: the query forgets taskId and status.
ToSyncAnyStatus == {<<b, bots[b].taskId>> : b \in {c \in Bot : today[c]}}

\* The query: the bots of today that are STARTED, with their task ids.
ToSync == {p \in Bot \X TaskId : /\ bots[p[1]].taskId = p[2]
                                 /\ bots[p[1]].status = "STARTED"
                                 /\ today[p[1]]}

\* Run s has bot b in its list, or in hand.
Has(s, b) == (\E p \in sync[s].todo : p[1] = b) \/ sync[s].bot = b

SyncFindAll(s) ==
    /\ sync[s].pc = "idle" /\ sync[s].todo = {}
    /\ sync' = [sync EXCEPT ![s].todo = ToSync]
    /\ overlapped' = overlapped \cup
           {b \in Bot : /\ \E p \in ToSync : p[1] = b
                        /\ \E r \in Syncer \ {s} : Has(r, b)}
    /\ UNCHANGED <<rowVars, ecs, outVars, init, cronTodo, leave, worker,
                   faults, crashes, orphans>>

\* Mutants of Verdict: desiredStatus is read for lastStatus; only an error
\* stop counts as the end.
VerdictDesired(state) ==
    IF state \in {"done", "stopping"} THEN "done"
    ELSE IF state = "error" THEN "error" ELSE "none"
VerdictErrorsOnly(state) == IF state = "error" THEN "error" ELSE "none"

\* lastStatus STOPPED with an error code, without one, or not stopped.
Verdict(state) == IF state \in {"done", "error"} THEN state ELSE "none"

\* healthCheckTask of the next bot in the list: the task it was read with.
\* "lost" is a health check that throws.
SyncCheck(s) ==
    /\ sync[s].pc = "idle"
    /\ \E p \in sync[s].todo, v \in {"none", "done", "error", "lost"} :
          /\ \/ v = Verdict(ecs[p[2]].state) /\ UNCHANGED faults
             \/ v = "lost" /\ Fault
          /\ sync' = [sync EXCEPT ![s] =
                 [pc |-> IF v = "none" THEN "idle" ELSE "mark",
                  todo |-> @.todo \ {p},
                  bot |-> IF v = "none" THEN None ELSE p[1], verdict |-> v]]
    /\ UNCHANGED <<rowVars, ecs, outVars, init, cronTodo, leave, worker, noteVars>>

\* Mutant of MarkedStatus: a bot whose health check failed is to start again.
MarkedStatusLostAgain(v) ==
    CASE v = "done" -> "COMPLETED" [] v = "lost" -> "PENDING" [] OTHER -> "FAILED"

\* bot.update: an error stop, and a failed health check, fail the bot.
MarkedStatus(v) == IF v = "done" THEN "COMPLETED" ELSE "FAILED"

\* Mutants of AfterMark: a failed health check asks for a retry too; a
\* completed bot is not transcribed.
AfterMarkRetriesLost(v) == IF v = "done" THEN "trigger" ELSE "enqueue"
AfterMarkNoTrigger(v) == IF v = "error" /\ Production THEN "enqueue" ELSE "idle"

\* What the job does next for the bot it has marked.
AfterMark(v) ==
    CASE v = "done"                 -> "trigger"
      [] v = "error" /\ Production  -> "enqueue"
      [] OTHER                      -> "idle"

SyncMark(s) ==
    LET v == sync[s].verdict
    IN  /\ sync[s].pc = "mark"
        /\ bots' = [bots EXCEPT ![sync[s].bot].status = MarkedStatus(v)]
        /\ sync' = [sync EXCEPT ![s] =
                       IF AfterMark(v) = "idle"
                       THEN [SyncIdle EXCEPT !.todo = sync[s].todo]
                       ELSE [@ EXCEPT !.pc = AfterMark(v)]]
        /\ UNCHANGED <<due, today, ecs, outVars, init, cronTodo, leave, worker,
                       boundVars>>

\* The update throws, though it may have been written: the catch fails the bot
\* and asks for nothing more.  When the update of the catch throws, the run
\* ends with the bots it had left.
SyncMarkFail(s) ==
    LET v == sync[s].verdict
    IN  /\ sync[s].pc = "mark"
        /\ Fault
        /\ \/ UNCHANGED bots
           \/ bots' = [bots EXCEPT ![sync[s].bot].status = MarkedStatus(v)]
        /\ sync' = [sync EXCEPT ![s] =
                       IF v = "lost" THEN SyncIdle
                       ELSE [@ EXCEPT !.verdict = "lost"]]
        /\ UNCHANGED <<due, today, ecs, outVars, init, cronTodo, leave, worker,
                       noteVars>>

\* The job that asks the worker to launch the bot again.  A failed add changes
\* nothing more: the catch finds the instance FAILED already.
SyncEnqueue(s) ==
    /\ sync[s].pc = "enqueue"
    /\ \/ queue' = Append(queue, sync[s].bot) /\ UNCHANGED faults
       \/ Fault /\ UNCHANGED queue
    /\ sync' = [sync EXCEPT ![s] = [SyncIdle EXCEPT !.todo = sync[s].todo]]
    /\ UNCHANGED <<rowVars, ecs, fileLogs, init, cronTodo, leave, worker,
                   noteVars>>

\* triggerTranscriptGeneration reads the row again and sends createFileLog its
\* tar file key: a failed call is swallowed.  A row that cannot be read, or a
\* missing key, throws before the call: the catch of syncTaskStatus is next.
SyncTrigger(s) ==
    LET key == bots[sync[s].bot].tarFileKey
    IN  /\ sync[s].pc = "trigger"
        /\ \/ /\ key # None
              /\ \/ fileLogs' = fileLogs \cup {key} /\ UNCHANGED faults
                 \/ Fault /\ UNCHANGED fileLogs
              /\ sync' = [sync EXCEPT ![s] =
                             [SyncIdle EXCEPT !.todo = sync[s].todo]]
           \/ /\ IF key = None THEN UNCHANGED faults ELSE Fault
              /\ sync' = [sync EXCEPT ![s].pc = "mark", ![s].verdict = "lost"]
              /\ UNCHANGED fileLogs
        /\ UNCHANGED <<rowVars, ecs, queue, init, cronTodo, leave, worker,
                       noteVars>>

-----------------------------------------------------------------------------
(* ECSTaskProcessor.reInitiateFailedTasks and ECSClientService.reInitiate- *)
(* Task.  BullMQ runs one job of a worker at a time.                       *)

\* AwsModule.providers: what Nest instantiates.  The processor is not there,
\* nor in the providers of any other module.
ShippedProviders == {"AwsService", "ECSClientService"}

\* Mutant of ProcessorRegistered: the processor is bound to another queue.
ProcessorOfOtherQueue == FALSE

\* A worker of the queue exists only if Nest instantiates its processor.
ProcessorRegistered == "ECSTaskProcessor" \in Providers

\* Mutant of Retryable: one retry too many.
RetryableAtLimit(r) ==
    /\ r.taskId # None /\ r.status = "FAILED"
    /\ r.retryCount <= MeetingBotRetryCount

\* A job goes on only for a failed bot under the limit.
Retryable(r) ==
    /\ r.taskId # None /\ r.status = "FAILED"
    /\ r.retryCount < MeetingBotRetryCount

WorkerTake ==
    LET b == Head(queue)
    IN  /\ ProcessorRegistered
        /\ worker.pc = "idle" /\ queue # <<>>
        /\ queue' = Tail(queue)
        /\ worker' = IF Retryable(bots[b])
                     THEN [pc    |-> "run", bot |-> b, task |-> bots[b].taskId,
                           retry |-> bots[b].retryCount, new |-> None]
                     ELSE WorkerIdle
        /\ UNCHANGED <<rowVars, ecs, fileLogs, init, cronTodo, leave, sync,
                       boundVars>>

\* The new task gets the command of the old one, with its upload urls.
WorkerRun ==
    /\ worker.pc = "run"
    /\ \E t \in TaskId :
          /\ ecs[t].state = "unused"
          /\ ecs' = [ecs EXCEPT ![t] = [state |-> "running", bot |-> worker.bot,
                                        key   |-> ecs[worker.task].key]]
          /\ worker' = [worker EXCEPT !.pc = "record", !.new = t]
    /\ UNCHANGED <<rowVars, outVars, init, cronTodo, leave, sync, boundVars>>

\* A job that throws is removed (removeOnFail, one attempt): the row stays
\* FAILED and the launch uncounted, though the task may be running.
WorkerFail ==
    /\ \/ worker.pc # "idle" /\ Fault
       \/ worker.pc = "run" /\ Full /\ UNCHANGED faults
    /\ worker' = WorkerIdle
    /\ orphans' = orphans \cup ({worker.new} \ {None})
    /\ UNCHANGED <<rowVars, ecs, outVars, init, cronTodo, leave, sync, crashes,
                   overlapped>>

\* Mutant of RetriedRow: the archive is named after the new task.
RetriedRowNewKey(r, t, retry) ==
    [r EXCEPT !.taskId = t, !.tarFileKey = t, !.status = "STARTED",
              !.retryCount = retry + 1]

\* bot.update writes all three columns: each differs from the snapshot.
RetriedRow(r, t, retry) ==
    [r EXCEPT !.taskId = t, !.status = "STARTED", !.retryCount = retry + 1]

WorkerRecord ==
    /\ worker.pc = "record"
    /\ bots' = [bots EXCEPT ![worker.bot] =
                   RetriedRow(@, worker.new, worker.retry)]
    /\ worker' = WorkerIdle
    /\ UNCHANGED <<due, today, ecs, outVars, init, cronTodo, leave, sync,
                   boundVars>>

-----------------------------------------------------------------------------
(* The process and its environment.                                        *)

\* The process dies and is restarted: every handler is gone, the database and
\* Redis keep their state.  An active job stalls; BullMQ gives it back to the
\* queue, or fails it when it has stalled before.
Crash ==
    /\ crashes < MaxCrashes
    /\ crashes' = crashes + 1
    /\ init' = [i \in Initiator |-> InitIdle]
    /\ cronTodo' = {}
    /\ leave' = [b \in Bot |-> LeaveIdle]
    /\ sync' = [s \in Syncer |-> SyncIdle]
    /\ worker' = WorkerIdle
    /\ \/ UNCHANGED queue
       \/ worker.pc # "idle" /\ queue' = <<worker.bot>> \o queue
    /\ orphans' = orphans \cup
           (({init[i].task : i \in Initiator} \cup {worker.new}) \ {None})
    /\ UNCHANGED <<rowVars, ecs, fileLogs, faults, overlapped>>

\* A task stops by itself, well or badly, or because it was asked to.
TaskEnds(t) ==
    /\ \E r \in {"done", "error"} :
          /\ \/ ecs[t].state = "running"
             \/ ecs[t].state = "stopping" /\ r = "done"
          /\ ecs' = [ecs EXCEPT ![t].state = r]
    /\ UNCHANGED <<rowVars, outVars, handlerVars, boundVars>>

\* Time brings joinAt nearer.
Elapse(b) ==
    /\ bots[b].status # "ABSENT"
    /\ \/ due[b] = "later"  /\ due' = [due EXCEPT ![b] = "window"]
       \/ due[b] = "window" /\ due' = [due EXCEPT ![b] = "past"]
    /\ UNCHANGED <<bots, today, ecs, outVars, handlerVars, boundVars>>

\* A new day: no bot created so far is in the query of syncTaskStatus again.
Midnight ==
    /\ \E b \in Bot : today[b]
    /\ today' = [b \in Bot |-> FALSE]
    /\ UNCHANGED <<bots, due, ecs, outVars, handlerVars, boundVars>>

-----------------------------------------------------------------------------
(* The specification.                                                      *)

InitiateStep(i) ==
    InitiateRead(i) \/ InitiateRun(i) \/ InitiateFail(i) \/ InitiateRecord(i)

LeaveStep(b) == LeaveRead(b) \/ LeaveStop(b) \/ LeaveFail(b) \/ LeaveMark(b)

SyncStep(s) ==
    SyncFindAll(s) \/ SyncCheck(s) \/ SyncMark(s) \/ SyncMarkFail(s)
        \/ SyncEnqueue(s) \/ SyncTrigger(s)

WorkerStep == WorkerTake \/ WorkerRun \/ WorkerFail \/ WorkerRecord

Next ==
    \/ \E b \in Bot : CreateBot(b) \/ CreateCheck(b) \/ CronNext(b)
                         \/ LeaveStep(b) \/ Elapse(b)
    \/ \E i \in Initiator : InitiateStep(i)
    \/ CronFindAll
    \/ \E s \in Syncer : SyncStep(s)
    \/ WorkerStep
    \/ \E t \in TaskId : TaskEnds(t)
    \/ Crash
    \/ Midnight

Spec == Init /\ [][Next]_vars

\* The event loop resumes every handler that can go on, the synchronisation
\* jobs tick for ever, and a worker that exists takes the jobs of its queue.
\* Nothing is assumed of ECS, of the users or of the calendar.
Fairness ==
    /\ \A i \in Initiator : WF_vars(InitiateStep(i))
    /\ \A s \in Syncer : WF_vars(SyncStep(s))
    /\ WF_vars(WorkerStep)

FairSpec == Spec /\ Fairness

-----------------------------------------------------------------------------
(* Properties.                                                             *)

Alive(t) == ecs[t].state \in {"running", "stopping"}

Launches(b) == {t \in TaskId : ecs[t].bot = b}

\* A task with an upload key of its own was launched by initiateBot; a task
\* with the key of another is a retry.
FirstLaunches(b) == {t \in Launches(b) : ecs[t].key = t}

Retries(b) == {t \in Launches(b) : ecs[t].key # t}

\* The row names a task exactly when the bot has left PENDING, and the task it
\* names was launched for that bot: update of initiateBot, of the processor, of
\* leaveCall and of syncTaskStatus, in any order (bot.service.ts:152-156, 203,
\* ecs-task.processor.ts:48-52, ecs.service.ts:207-236).
RowNamesOwnTask ==
    \A b \in Bot :
        /\ bots[b].taskId = None <=> bots[b].status \in {"ABSENT", "PENDING"}
        /\ bots[b].taskId # None => bots[b].taskId \in Launches(b)

\* The transcript is asked for the archive that the recorded task uploads: the
\* retry keeps tarFileKey because it keeps the upload url of the task it
\* replaces (ecs.service.ts:243, ecs-task.processor.ts:48-52).  Only two first
\* launches with a retry of one of them can separate the two columns.
ArchiveIsOfRecordedTask ==
    \A b \in Bot :
        /\ bots[b].taskId # None
        /\ ProcessorRegistered => Cardinality(FirstLaunches(b)) = 1
        => ecs[bots[b].taskId].key = bots[b].tarFileKey

\* What the row says of a bot launched once is what became of its task, though
\* leaveCall and overlapping runs of syncTaskStatus overwrite each other's
\* verdict: a completed bot's task is done, a stopped bot's task does not run
\* on, and a bot fails without an error stop only after a failed health check.
VerdictMatchesTask ==
    \A b \in Bot, t \in TaskId :
        Launches(b) = {t} =>
            /\ bots[b].status = "COMPLETED" => ecs[t].state = "done"
            /\ bots[b].status = "STOPPED" => ecs[t].state # "running"
            /\ bots[b].status = "FAILED" /\ faults = 0 => ecs[t].state = "error"

\* A task in a meeting can be stopped: the task of a bot launched once is in the
\* row, or about to be put there, unless the very update that records it after
\* runTask was rejected or died with the process (bot.service.ts:98-156).  No
\* other failed call, crash or handler loses it.
LiveTaskIsTracked ==
    \A b \in Bot, t \in TaskId :
        (Launches(b) = {t} /\ Alive(t) /\ t \notin orphans) =>
            \/ bots[b].taskId = t
            \/ \E i \in Initiator : init[i].pc = "record" /\ init[i].task = t

\* initiateBot, which never looks at the status, launches a bot at most twice:
\* once for the create request and once for the scheduled job.  Only a launch
\* that was never recorded buys one more, since the next tick finds the row
\* PENDING (bot.service.ts:152-156, 170-177).
LaunchBudget ==
    \A b \in Bot : Cardinality(FirstLaunches(b) \ orphans) <= 2

\* The processor launches a failed bot again at most meetingBotRetryCount
\* times, though it counts from the row it read before reInitiateTask and jobs
\* of both synchronisation runs wait in its queue.  Only a launch whose count
\* was lost, with a rejected update or a crash, buys one more
\* (ecs-task.processor.ts:39-52).
RetryBudget ==
    \A b \in Bot : Cardinality(Retries(b) \ orphans) <= MeetingBotRetryCount

\* Two recorded tasks of one bot never sit in the meeting together, provided
\* that initiateBot launched it once and that no run of syncTaskStatus took it
\* from the table while another run still had it: reInitiateTask does not look
\* whether the task it replaces has stopped (ecs.service.ts:239-253).  Failed
\* calls, leave requests and a stalled job that is run again do not double it.
AtMostOneLiveTask ==
    \A b \in Bot :
        Cardinality(FirstLaunches(b)) = 1 /\ b \notin overlapped
            => Cardinality({t \in Launches(b) \ orphans : Alive(t)}) <= 1

\* A bot that initiateBot launched once and that has ended is brought back by
\* a counted retry alone: no late answer of a handler returns it to STARTED
\* (bot.service.ts:152-156, 203, ecs.service.ts:207-236).
EndedStaysEnded ==
    [][\A b \in Bot :
          /\ bots[b].status \in Ended
          /\ Cardinality(FirstLaunches(b)) = 1
          => \/ bots'[b].status \in Ended
             \/ bots'[b].retryCount = bots[b].retryCount + 1]_vars

\* A started bot whose recorded task has stopped: the next run of
\* syncTaskStatus should see it.
Outdated(b) ==
    /\ bots[b].status = "STARTED"
    /\ ecs[bots[b].taskId].state \in {"done", "error"}

\* Between midnights no bot stays outdated: a synchronisation job notices the
\* end of its task, whatever fails or crashes on the way
\* (ecs.service.ts:188-237, cron-job.service.ts:16-19).
SyncNoticesTheEnd ==
    \A b \in Bot : (Outdated(b) /\ today[b]) ~> ~(Outdated(b) /\ today[b])

\* The archive of a completed bot that was launched once is handed to the
\* worker backend, unless a call failed or the process died
\* (ecs.service.ts:224-228).
CompletedIsTranscribed ==
    \A b \in Bot, t \in TaskId :
        (bots[b].status = "COMPLETED" /\ Launches(b) = {t})
            ~> (\/ t \in fileLogs
                \/ Launches(b) # {t}
                \/ faults > 0
                \/ crashes > 0)

\* A job that waits in the retry queue is taken off it: "reliable queue
\* processing" (api-backend/README.md:37).
Queued(b) == \E n \in 1 .. Len(queue) : queue[n] = b

JobsAreProcessed == \A b \in Bot : Queued(b) ~> ~Queued(b)

\* The status of a bot follows its task, on whatever day it ends: "Real-time
\* monitoring and status updates" (README.md:29).
StatusFollowsTask == \A b \in Bot : Outdated(b) ~> ~Outdated(b)
=============================================================================
