# TLA+ verification of the CueMeet control panel

This directory holds the formal model of the control panel: what its two
back ends do with a meeting bot and with the recording it leaves, which
properties that gives, and machine-checked proofs of some of them.

- `api-backend` (NestJS, one Node process): takes requests for meeting bots,
  starts a task on ECS for each, follows the task, and asks for a transcript
  when it is over.
- `worker-backend` (Django, gunicorn, a gRPC server and a Celery worker):
  learns of the archive a bot has put into S3, transcribes it, and keeps the
  transcript.

`PROJECT.json` lists the components, runs, mutants, hazards, findings and
theorems, and gives the source lines each definition stands for.

## Inventory

| Component | State it keeps | Operations | What makes it hard | Correct when |
|---|---|---|---|---|
| Bot lifecycle: `bot.service.ts` | row of `bots`: status, taskId, tarFileKey, retryCount, joinAt | createBot, initiateBot, initiateScheduledBot, leaveCall | Every handler keeps a row it read and writes after several awaits, any of which may throw. initiateBot never looks at the status, and records a task only after it has launched it. | The row names a task of its own bot and the archive of that task. An ended bot stays ended. The number of launches is bounded. |
| ECS reconciliation: `ecs.service.ts`, `cron-job.service.ts` | none of its own | syncTaskStatus (from two jobs), healthCheckTask, reInitiateTask | Two jobs tick in the same minute. A health check can fail, and so can the update after it and that of the catch. Only the bots created today are looked at. | The status says what became of the task, and the end of a task is noticed. |
| Retry queue: `ecs-task.processor.ts`, `aws.module.ts` | BullMQ jobs, retryCount | queue, take, launch again | The count is written after the launch, if it is written. The processor is not registered. | Retries stay within the limit, a bot has one live task, and jobs are processed. |
| Hand-over: `triggerTranscriptGeneration`, `worker.service.ts` | none | one gRPC call | Called after COMPLETED is written; its failure is only logged. | A completed bot is handed over unless a call failed. |
| SNS webhook: `views.py` | row of `file_log` | dispatch, get_or_create, save, delay | At-least-once delivery, four processes, full-row saves from a stale row, one answer for all records. | No notified file is forgotten, no genuine message refused without a cause. |
| DocumentCreate: `grpc/services.py` | row of `file_log` | validate, insert, delay | Races with the webhook for the row of one archive. | Neither loses the archive. |
| Transcript task: `worker.py` | `file_log`, `transcription_log`, Celery messages | update_or_create, delete, bulk_create, save, mark failed | Four threads, two messages per archive, restarts with acks_late, rows saved minutes after they were read. | A PROCESSED file has its transcript, and every archive gets settled. |
| Retry job: `worker.py`, `settings.py` | retry_count | count, queue again | Missing setting and attribute, stale counts. | The count stays within its limit; failed files are retried. |
| reprocess_transcripts | none | queues tasks | Overlaps with everything above. | As above. |
| API keys: `api-key.service.ts`, `api-key.guard.ts` | rows of `api_keys` | generate, validate, list, revoke | Count, then create, in two awaits; validation against revocation. | A user's keys are bounded; a revoked or expired key is refused, and stays so. |
| Scheduling windows | joinAt, the ticks | initiateScheduledBot | A tick that is late or missing; a loop without try. | A bot planned in time is started. |
| Listings: `getBotList`, `getTranscript`, `pagination.py` | none | pages | Query strings, page size caps, rows that come and go between the queries. | Whoever follows hasMore gets all the rows. |
| Speaker reconciliation: `speaker_reconciliation.py` | indices of two lists | one algorithm | Indices that never go back; the edges of the window. | Each sentence gets the name of the nearest similar caption. |
| SNS verifier: `sns_verifier.py` | cache of certificates, per process | verify, download, confirm | Caches failures; threads share the cache; the list of trusted domains stops early. | Only what SNS signed starts a task; a download that worked is not lost. |
| Users, throttler, presigned URLs, gRPC glue, configuration, migrations | little | | | No behaviour of their own. |

How they interact: the REST handlers, the cron jobs and the queue worker of
`api-backend` share the table `bots` and the ECS cluster. `api-backend` calls
`worker-backend` over gRPC. S3 calls it through SNS. Webhook, gRPC server,
command and Celery worker share `file_log`, `transcription_log` and the queue
in Redis.

## Modules

| Module | What it is |
|---|---|
| `BotLifecycle` | api-backend: bots, ECS tasks, retry queue and the handlers that use them |
| `BotSchedule` | api-backend: joinAt and the ten minute ticks as numbers |
| `ApiKeys` | api-backend: the keys, their guard and their revocation |
| `Listings` | both: the two lists that are read page by page |
| `SnsWebhook` | worker-backend: a message of SNS from its delivery to its answer, with the verifier |
| `TranscriptPipeline` | worker-backend: notifications, DocumentCreate, tasks, retry job |
| `FileContract` | what `TranscriptPipeline` promises of an archive; the abstract specification it implements, with its theorem |
| `SpeakerReconciliation` | worker-backend: who said each sentence |

`MC` + the name is the module of the TLC instances, and the name + `Proofs` that of
the theorems. Modules meet in the code they share: `SnsWebhook` says which
message reaches handle_put and `TranscriptPipeline` what handle_put does, statement
by statement; `BotSchedule` says when a bot is due and `BotLifecycle` what starting
it does; `FileContract` is instantiated by `TranscriptPipeline` (`Contract`) under a
refinement mapping.

### BotLifecycle

One action is what an async function does from one `await` to the next that
another handler can tell apart. What a function has read stays in a record of
its own (`init`, `leave`, `sync`, `worker`) and is used, maybe stale, by its
later actions.

| Code | Actions |
|---|---|
| createBot | `CreateBot` (the insert), `CreateCheck` (joinAt and start) |
| initiateBot | `InitiateRead`, `InitiateRun` or `InitiateFail`, `InitiateRecord` |
| initiateScheduledBot | `CronFindAll`, `CronNext`; one initiator is `Cron` |
| leaveCall | `LeaveRead`, `LeaveStop` or `LeaveFail`, `LeaveMark` |
| syncTaskStatus | `SyncFindAll`, `SyncCheck`, `SyncMark` or `SyncMarkFail`, `SyncEnqueue` or `SyncTrigger` |
| ECSTaskProcessor, reInitiateTask | `WorkerTake`, `WorkerRun` or `WorkerFail`, `WorkerRecord` |
| environment | `TaskEnds`, `Crash`, `Elapse` (joinAt comes nearer), `Midnight` |

An await that throws is a `Fault`, be it a call to PostgreSQL, ECS, Redis or gRPC:
`InitiateFail`, `LeaveFail` and `WorkerFail` end a handler at any of its awaits, also
at the update that should record what ECS has already done, and `SyncMarkFail` leads
into the catch of syncTaskStatus, or out of its loop when the update of the catch
throws too. A launch whose answer is lost is a launch with a rejected update. ECS
without room for a task (`Full`) needs no fault.

Two variables are history: no guard reads them, and without them the module has
the same behaviours. `orphans` are the tasks that were launched and whose record
was lost, to a rejected update or to a crash. `overlapped` are the bots that two runs
of syncTaskStatus had in their lists or hands at once. Properties name with them the
exceptions they need, task by task and bot by bot.

`Providers` is the list of classes the Nest modules instantiate, so that the
same module describes the program as shipped (`ShippedProviders`, where no
worker takes the retry jobs) and with the processor registered. An archive is
named by the task that was given its upload URL, which is how "the row names
the archive of its task" can be said. joinAt is reduced to later, window and
past, and createdAt to today or not.

### BotSchedule

| Code | Actions |
|---|---|
| createBot | `CreateBot` (the row, and the start at once when joinAt is not after now) |
| initiateScheduledBot | `Query` (a tick), `Launch` (an iteration of the loop), `LaunchFails` (what ends the loop) |
| clock and process | `Advance`, `Late` (a busy event loop), `Crash`, `TickMissed`, `Restart` |

The unit is the minute of joinAt; the query of a tick runs some milliseconds into
its minute, so a joinAt of that very minute may be before or after it (`from`). Gaps
below that (a tick that fires some milliseconds later after its minute than the one
before it did) are left out, and a loop is taken to be over when the next tick comes.
The variable is called `nextHalfHour` in the code and adds ten minutes.

### TranscriptPipeline

Django commits each statement by itself (`ATOMIC_REQUESTS` is not set), so an
action is a statement, a message, or an answer of S3 or AssemblyAI.

| Code | Actions |
|---|---|
| handle_put, handle_post | `HookGet`, `HookSave`, `HookDelay`; `HookFail` (the except clause, answered with 500) |
| DocumentCreate | `RpcValidate`, `RpcInsert`, `RpcDelay`, `RpcFail` |
| reprocess_transcripts | `Reprocess` |
| _transcript_generator_worker | `Take`, `Open`, `Delete`, `BulkCreate`, `Save`; `Throw`, `MarkFailed` (which fails, too: the mark itself, or a call before the try, after which there is no mark) |
| _transcript_retry_cronjob | `RetryCron` |
| Celery, gunicorn, gRPC server | `CeleryDies`, `ChildDies`, `GunicornDies`, `GrpcDies` |
| S3 and SNS | `Upload`, `Duplicate` |

`save()` writes the whole row, so `hook` and `task` carry the row they read.
The pool is made of threads (docker-compose.yml) or of processes
(`Prefork`, the other worker target of the Makefile). Only processes can be
killed one at a time, which loses the message: Celery acknowledges the message
of a lost child. When the whole worker dies, `task_acks_late` brings the
messages back. `lost` remembers the keys of tasks that ended without writing
FAILED, so that the properties can name the one exception they need.
`file_log` loses everything but status, retry_count and "audio key set";
a transcript is the number of its copies in `transcription_log`.

`pool`, chosen by `Init` among `Pools`, is the set of slots Celery has, so one run
covers a pool of one and a pool of two.

The mapping to `FileContract`: a file is *owed* a result while its row says
NOTIFICATION_RECEIVED or PROCESSING, *settled* with PROCESSED or FAILED, and *unseen*
before (`Phase`); `jobs` are the files with a message, a notification, a webhook
or a task at work (`Expected`); `lost` is `lost`.

`RetryCron` only counts. `delay(file_log.raw_file_key, file_log.file_type)`
and `_send_failure_notification` both use what FileLog does not have, and the
except clause of the loop takes the errors. `settings.py` does not define
FILE_MAX_RETRY_COUNT; the constant is `none` for the program as shipped and a
number for an installation that adds it.

### SnsWebhook

| Code | Actions |
|---|---|
| post, is_verified up to the certificate | `Receive` (`Refusal`: a body that is no JSON, or whose type, signature or URL will not do, is answered with 400; JSON that is no object, and a signature that is no base64, throw and are answered with 500) |
| certificate | `Look` (is the URL in the cache?), `Download` (and the write of the cache, of None when it fails), `Return` (the second look) |
| is_verified, the signature | `Verify` |
| handle_put, handle_post; confirm_sns_subscription; every other branch of post | `HandlePut`; `Confirm` (a URLError is logged and answered with 200, another exception with 500); `HandleOther` |
| SNS | `Answer`: 200 ends the deliveries, another answer does not, except that SNS may take a 4xx as final (`GivesUp`) |
| a process dies | `ProcessDies` |

The cache is a global of the process, and every slot of a process shares it: `p1`
is a worker of gunicorn with one slot, `p2` a server with two threads. A message is
a record of what the code looks at (its fields, what its signature is over, the URL
of its certificate, the names of its records); the cryptography is an equality.

### Listings

| Code | Actions |
|---|---|
| getBotList | `FindAll`, `Count` (the two queries of a page, and the answer), `StartListing` |
| getTranscript | `ListFileLogs`, `CountRows`, `FetchRows`, `StartReading` |
| pagination.py, Django's paginator | `CutTo`, `NotFound`, `Slice` |
| other clients and the tasks | `CreateBot`, `ShowFile`, `DeleteRows`, `InsertRows` |

A client asks for the next page as long as the answer says hasMore. `Concat` is what
`offset + limit` does with a limit that is the string of the query. An older log may
be shown after a newer one: the webhook makes the row, and only the task gives it
the execution_id by which it is found.

### ApiKeys

One action is one statement on `api_keys` with the code up to the next await.

| Code | Actions |
|---|---|
| generateApiKey | `GenerateCount`, `GenerateCreate`; `GenerateFail` |
| ApiKeyGuard, validateApiKey | `GuardFind`, `GuardTouch` (lastUsedAt), `GuardEnd` |
| revokeApiKey | `RevokeFind`, `RevokeUpdate`; `RevokeFail` |
| environment | `Elapse` (expiresAt passes) |

Requests that are refused change nothing and are no steps. Sequelize's
`record.update({...})` writes the named columns only; that is why `Touched` is
the row as it is by now, and `RevokedStaysRevoked` what depends on it. The Fail
actions are also what a restart does to a request. A key is found by the hash
of what the client sends, so a request names a row or is refused. No route
sets the metadata "permissions", so the guard never compares them.

### SpeakerReconciliation

The loops of `reconcile_speakers`, an iteration at a time: `Skip` (the while
loop that moves j), `Check` (the one that moves k), `Assign` (the end of the
for loop's body) and `Relabel` (the branch without captions). The indices,
`min_time_diff` and `matched_original_entry` are variables, and so are the
inputs, which `Init` chooses. The similarity of two texts is a relation: which
pairs reach the threshold. Captions and sentences come in the order of time
(`SortedInputs`): AssemblyAI's `get_sentences` and the bot, which is not part of
the repository, write them so.

## Runs

| Run | Instance | Question | Result |
|---|---|---|---|
| `bot_safety` | 1 bot, 3 tasks, 2 overlapping syncs, the retry worker with a limit of 1, 1 fault, 1 crash; 3.3 million states | Do row, task, archive and status agree? How often is a bot launched, and can two of its tasks be in the meeting together? | pass |
| `bot_liveness` | 1 bot, 2 tasks, 1 sync, the retry worker, 1 fault, 1 crash, fairness; 240,000 states | Does every job leave the queue, is the end noticed, and the archive handed over? | pass |
| `bot_no_worker` | as shipped, fairness | Does every job leave the queue? | violated |
| `bot_overnight` | as shipped, midnight | Does the status follow the task on any day? | violated |
| `schedule` | 2 bots, ticks every 3 minutes up to minute 9, ticks up to 2 late, 2 faults | Do the windows leave a gap? What does a fault cost? | pass |
| `pipe` | 1 archive, pools of 1 and of 2 processes, 2 webhooks, 2 extra messages, fault, crash, fairness | Is PROCESSED true? Copies and count bounded? Is `FileContract` kept? Does every archive settle for good, and get its transcript when nothing fails? | pass |
| `pipe_overlap` | 1 archive, 2 threads, no fault, no crash | Has a file that is completed successfully one transcript? | violated |
| `pipe_failed` | 1 archive, 1 fault, fairness, settings as shipped | Are failed files retried? | violated |
| `sns` | 16 contents of messages, 2 processes with 3 slots, fault, crash, fairness | What is refused and why, what may SNS forget, what starts a task, does a genuine upload get through? | pass |
| `keys` | 2 users, 3 keys, 2 create requests, limit 1 | How far past the limit, and what is final? | pass |
| `listing` | up to 5 bots, limits 1 and the default of 2; 2 file logs of up to 4 rows, sizes -1, 1, 2 and 3 under a cap of 2, stored twice | Does hasMore leave anything out? | pass |
| `speakers` | up to 2 sentences of 2 speakers, 3 captions, times 0..4, limit 2 | Is it the nearest similar caption? Do ids stand for labels? | pass |

Why the bounds are enough. Bots do not interact but through the loops of the
jobs, and archives not at all but through the pool, so one of each with all of
its writers is the interesting case. Three tasks let a bot be launched
by the create request, by the scheduled job and once more after a lost update, or by
one of them with a retry that is lost and one that is not; after the last a
launch fails as in a cluster without room. `bot_safety` has the retry processor: it
guards `WorkerTake` alone, so the program as shipped has a part of these behaviours
and every property that does not mention it holds there as well.
(`ArchiveIsOfRecordedTask` promises more without it, for bots launched twice; that
part is proved only.) `bot_liveness` has no symmetry and one sync: a second run
changes only how soon the end of a task is seen. Two syncs are what two jobs in the same minute give. Two slots and two
extra messages allow a task to overlap another and a third to follow; for more
slots `CopiesBounded` is proved. Two webhooks are two deliveries of one
notification at work together. One fault and one crash, in the
same behaviour, reach each await; in `BotLifecycle` the fault may be that of a rejected
update after a launch. What any number of them does is proved.
`schedule` has two bots because a failed launch loses the bots behind it, and three
periods so that a bot has notice, is looked for and is found missing; a period of
three minutes has its two edges and a minute between. `sns` delivers one message at
a time, and that again and again: messages share only the cache, which overlapping
deliveries of the same one fill as two messages would. `listing` reaches a third
page with either limit, and a page past the last. Users meet in the count of
their keys only; limits of one key and of two time units reach every side of the
comparisons; two sentences are needed for j to be carried on, three captions
for one before, one in and one behind a window. Each property fails in its run
for a plausible mutation of the code (PROJECT.json, "mutants"), so the
instances do reach the cases that matter. Deadlock is not checked, except in
`listing`: uploads, requests and faults are bounded, and a system with nothing left
to do may stop.

What the properties need, as the checks found out:

- Several promises of `BotLifecycle` hold for a bot launched once. The create
  request and the scheduled job may both launch a bot, and then the row forgets
  one of the tasks. `LaunchBudget` says how far this goes: two launches.
- A task whose recording update is rejected (bot.service.ts:152,
  ecs-task.processor.ts:48), or dies with the process, is on its own: no row names it,
  nobody can stop it, the next tick starts the bot once more, and a retry is not
  counted. `LiveTaskIsTracked`, `LaunchBudget`, `RetryBudget` and `AtMostOneLiveTask`
  leave out these `orphans` and show that nothing else loses a task or a count: no
  other failed call, no crash at another await, no late handler.
- `AtMostOneLiveTask` leaves out the `overlapped` bots. The two jobs tick together every
  ten minutes; two runs that have the same bot may both find its error stop and
  queue two jobs, or one marks it FAILED once more after the worker has launched it
  again. Runs that overlap on other bots, or one after the other, do no harm.
  `RetryBudget` holds for the overlapped bots too.
- `SyncNoticesTheEnd` holds through a failed update and a crash, since the row is
  then still STARTED and the next run finds it again. `CompletedIsTranscribed` does
  not: the row is COMPLETED before the call, and no run looks at it again. The
  property makes a failed call and a crash the only causes.
- `ProcessedIsComplete` and `ArchiveIsTranscribed` need a pool of one: with more,
  overlapping tasks may store a transcript twice (`pipe_overlap`), and a task that
  began before the archive came may mark FAILED over the PROCESSED of an overlapping one.
- `ProcessedHasTranscript` needs the absence of failed calls: a task that fails
  between its delete and its insert leaves the transcript of an overlapping
  task empty, and that task then marks PROCESSED.
- `ScheduledIsStarted` needs more than a period of notice. A bot created less than
  that before its joinAt, with no tick in between, is PENDING for good:
  createBot leaves it to the job (bot.service.ts:66), whose window starts at now.
- `LossBudget` counts ticks, not bots: one failed launch loses every bot of its
  tick that the loop had not reached (bot.service.ts:175).
- `CertificateKept` needs one request per process: in a threaded server a slower
  download that fails writes None over the certificate of a faster one, and a
  request that has just checked it answers 500.
- `GenuineGetsThrough` has the exception of a 400, which SNS may take as final.
- `ListComplete` with a limit of the client's own holds for two pages, and
  `TranscriptComplete` for sizes up to the cap, see below.

### Fairness

`BotLifecycle`: weak fairness of the steps of initiateBot, of syncTaskStatus
(the event loop resumes a promise; the cron ticks come again) and of the worker.
Tasks need not end, users need not leave, and midnight need not come.
`SnsWebhook`: weak fairness of the steps of each request, and strong fairness of the
delivery of each upload (SNS delivers again until it has an answer it accepts,
though every slot may be busy at times).
`TranscriptPipeline`: weak fairness of each webhook process (SNS retries and
gunicorn serves), of a DocumentCreate under way, of each slot of the pool, and
of the retry job where celery beat runs it (`make worker-beats`;
docker-compose.yml starts no beat, which can only make `pipe_failed` worse).
Faults and crashes are bounded, so a retry of SNS succeeds in the end.

### Findings

1. `bot_no_worker`: ECSTaskProcessor is in no module's providers, so the jobs
   of syncTaskStatus wait for ever (aws.module.ts:16).
2. `bot_overnight`: syncTaskStatus looks at bots created today only
   (ecs.service.ts:194); a bot still STARTED at midnight stays STARTED.
3. `pipe_overlap`: the notification of S3 and a DocumentCreate that comes before it
   queue a task each for the same archive, and so do two deliveries of the
   notification (once the webhook has made the row, the validator of DocumentCreate
   refuses). In a pool of two or more both may delete the old
   transcript and then both insert theirs: PROCESSED, with the transcript twice
   (worker.py:143).
4. `pipe_failed`: the retry job never retries (worker.py:178 and 197).

What the models show without a run of its own, because the property is stated for
the case in which it holds:

- api-key.service.ts:27 speaks of a limit of five keys. Two overlapping requests
  may give a user a sixth; `KeyBudget` says how far it goes.
- sns_verifier.py:138 caches a failed download as None: until the process is
  restarted it refuses every message with that certificate, with 400
  (`RefusalHasCause`, `ForgottenIsDone` name the failed call as the cause).
- With the default list of trusted domains, which begins with amazonaws.com,
  certificates of amazon.com and of amazonaws.com.cn are never accepted: the loop
  returns at the first short amazonaws.com entry (`StopsAt`). Only SHA1 signatures
  are checked, whatever SignatureVersion says.
- A subscription whose URL cannot be visited is answered with 200 and stays
  unconfirmed (sns_verifier.py:247).
- bot.service.ts:191 adds a limit that is the string of the query: "10" + "10" on
  page 2 gives 1010, and hasMore is false with bots left. pagination.dto.ts:8
  declares a number, and no ValidationPipe makes one of it.
- bot.service.ts:391 computes hasMore with the size asked for, while
  pagination.py:13 caps it at 20: with a limit above 20 a client is told that there
  is no more with rows left. A negative limit is cut to 20 and the list ends with a
  refused page.
- A similar caption exactly MAX_TIME_DIFF away is looked at and never taken
  (`Candidate`, speaker_reconciliation.py:100).

## Proofs

All theorems hold for every value of the constants that satisfies the named
assumptions: `ConstantsAssumption`, `FiniteTasksAssumption`,
`PipelineConstants`, `FiniteWorkers`, `SnsConstants`, `ScheduleConstants`,
`WindowCoversPeriod`, `ListingsConstants`, `ApiKeyConstants`, `FiniteRequests`,
`ReconciliationConstants`, `SortedInputs`. They say that null is no bot, task,
user, key or message, that limits and periods are numbers, that tasks,
pool slots, keys and requests are finitely many, that the list of
trusted domains begins with amazonaws.com, that a tick's window reaches the next tick, and that transcripts and
captions are in the order of time.

`BotLifecycleProofs`

- `TypeInvariant`, `TypeCorrect`. TypeOK is not inductive: InitiateRecord writes
  a row at `init[i].bot`, which is null when the handler is idle. `TypeInv` adds
  that a handler that is at work holds a bot and the tasks it goes on with.
- `RetryBudgetCorrect`. The property counts launches, which no variable counts:
  retryCount is written after the launch, from a value read before it, or not at
  all. The inductive `RetryInv` says that the worker's copy of the count is current
  (only the worker writes it), that it is below the limit, and that the retries of a
  bot, without its orphans and without the one in the worker's hand (`Counted`), are at
  most its count. A rejected update and a crash turn the task in hand into an
  orphan in the same step in which the worker lets go of it.
- `RowNamesOwnTaskCorrect`. The five writers hold task ids and old statuses
  across awaits. `RowInv` says what each holds: a launched task keeps its bot,
  what is being recorded was launched for the bot it is recorded for, and
  whoever is going to write an ended status works on a row that has its task.

The other theorems rest on `LifeInv`: the two above and `HeldInv`, which says that a
create request works on the bot it inserted, that the scheduled job takes a bot off
its list before it starts it, and that leave, sync and worker hold tasks of the bot
they act for.

- `LiveTaskIsTrackedCorrect`. `TrackInv` leaves out that the task lives. A launch begins
  with a recorder; a recorder ends with its own update, or its task is an orphan
  (`RecorderStays`), whatever throws or dies; and a retry is a second launch.
- `EndedStaysEndedCorrect`, an action property. An initiator that could write STARTED to
  an ended row would hold a second first launch: by `KeyInv` the row has the key of one,
  and by `FreshKey` not of that which is to be recorded. The worker's update raises the
  count it finds by one, since its copy is current (`RetryInv`).
- `ArchiveIsOfRecordedTaskCorrect`. `KeyInv`: the key of each task, and of each row, is
  a first launch of the bot. A bot with one first launch has one key.
- `VerdictMatchesTaskCorrect`. `VerdictInv`: a leave that is about to mark the row has
  stopped the task it read, and a sync holds what became of some task of its bot, or a
  call has failed. Of a bot launched once that is the task, and an ended task is final.
- `LaunchBudgetCorrect`. No variable counts first launches. `BudgetInv` adds to those
  `Made`, without the orphans and the one in the hands of the scheduled job, those
  `ToCome`: one while the create request may run the task, one while the scheduled job
  may, which it may as long as the bot is PENDING. `RunSpends`: a launch uses one of
  them up; a lost record gives it back, and its task is then not counted.
- `AtMostOneLiveTaskCorrect`. reInitiateTask does not look at the task it replaces, so
  the reason why that task is dead lies in where the bot has been. `InOrder(b)` has three
  parts: `OnePlace`, b is in the list of syncTaskStatus, in its hands, in the queue (once)
  or at the worker, and in one of these only; `NotListedAgain`, from the mark to the
  worker's update the row is not STARTED, so no query takes it up a second time;
  `Replaced`, from the error verdict to the launch every task of b that is no orphan
  (`Known`) is dead, and otherwise only the task in the row, in the list or about to be recorded may be alive.
  None of the three is inductive without the others. `FreshKey` and `NoRetryYet` keep
  initiateBot out of the way: the record of the only first launch finds a row that
  names no task, and nothing is retried before it. `CalmStep` is the frame: a step that
  does not have b in its hands (`AtHand`) keeps b in order; the eleven steps that do
  have a lemma each. Two of them lose records: after a rejected update of the worker
  (`LoseInOrder`) the new task is an orphan and all other tasks are dead, and after a
  crash (`CrashInOrder`) the stalled job is the only place where b can be
  (`JobComesBack`).
  Nothing is assumed of the number of runs of syncTaskStatus nor of crashes: a run
  that takes b from the table while another has it puts b among the overlapped bots for
  good (`OverlappedGrows`), and of the others at most one run has each.

`TranscriptPipelineProofs`

- `TypeInvariant`, `TypeCorrect`: TypeOK with "a handler holds a key exactly
  when it is at work".
- `CopiesBoundedCorrect`. The copies alone are not inductive: a slot between its
  delete and its insert will add one. `CopiesInv` bounds the copies and those
  slots together by the size of the pool: a delete leaves at most the slots, and
  an insert turns one of them into a copy.
- `RetryCountBoundedCorrect`. Rows are written back by webhooks and tasks with
  old counts; `CountsInv` adds that the counts in their hands are within the
  limit too.
- `KeepsContractCorrect`: every step maps to one of `FileContract` or to none. The
  lemmas `Promises`, `Settles`, `GivesUp` and `Loses` name the steps that are: who
  writes PROCESSING holds a task, and whoever takes a message, a notification or a
  task away puts the next one in its place or writes a result. When the worker
  dies, a task it held means a message that is given back (`UnackedOfTask`).
- `NoForgottenFileCorrect` is `KeptCorrect` of `FileContract` under that mapping.
- `ProcessedHasTranscriptCorrect`. The property speaks of PROCESSED rows without a
  transcript; `KeptInv` speaks of those that are about to be PROCESSED too: as long as
  no call failed, a file of either kind with no transcript has a message, or a task
  that has not inserted yet (`ToWrite`). A task that deletes satisfies this itself, and
  one whose worker dies comes back as a message, or is lost. `OpenedInv` (no task is
  past its first step before the archive is there) rules out that such a task stops for
  want of the archive.
- `ProcessedIsCompleteCorrect`. `SoloInv`: the task at work, the only one in a pool of
  one slot (`OneAtATime`), works on a file that is not PROCESSED, with no copy before
  its insert and one after it.

`FileContract`

- `KeptCorrect`: a file that is owed a result has somebody at work on it, or has lost
  one; inductive with the type of `file`.

`SnsWebhookProofs`

- `TypeInvariant`, `TypeCorrect`: a request at work holds a message, and one that asks
  for a certificate a URL.
- `OnlyWhatSnsSignedCorrect`: a request that handles a message has a fitting
  signature, and nothing it read from the shared cache is needed for that.
- `CertificateKeptCorrect`, an action property. `KeptInv`: a request that is alone in
  its process and downloads a certificate is the only one that could have cached it.
- `RefusalHasCauseCorrect`. `RefusalInv`: as long as no call has failed, a request past
  the cache finds a certificate there, and the answer to a genuine message is 200
  (`Clean`).
- `ForgottenIsDoneCorrect`. `DoneInv` ties an answer, given or on its way, to what was
  done for it.

`BotScheduleProofs`

- `TypeCorrect`.
- `ScheduledIsStartedCorrect`. `WindowsInv`: as long as nothing has failed, the clock is
  not past the next tick, and a pending bot with notice that the loop does not hold
  joins after that tick.
- `LossBudgetCorrect`, under `MaxLate <= Period`, as in `Schedule.cfg`: a tick that is
  later than a period is two ticks lost for one fault. Missed bots can be counted only
  when it is too late; `Budget(m)` counts, after m ticks, the windows of the pending bots
  with notice (`Owing`) that are due before the last tick, and of those due before the
  next one that the loop does not hold. Each count is within the faults, and while the
  tick is late the second has one fault to spare, for the window it may lose.

`ListingsProofs`

- `ListCompleteCorrect`. `ListerInv`: of the bots there were at the start the client has
  those that fewer than offset others precede; bots that are created only push a bot
  further down.
- `TranscriptCompleteCorrect`. `ReaderInv`: an undisturbed client has the rows of the
  pages before the one it asks for, all of the newest log (`FirstRows`), and the count
  and the file it holds are that log's. That a newest log exists (`Greatest`) is proved by the
  pigeonhole principle, from a map of numbers to their successors: the induction
  theorems of the library are out of the provers' reach.

`ApiKeysProofs`

- `TypeInvariant`, `TypeCorrect`: a request in the guard holds an existing key.
- `KeyBudgetCorrect`. `BudgetInv` adds the requests that have counted and not yet
  created; with one request at a time it gives the limit itself.
- `RevokedStaysRevokedCorrect`: an action property, from the types alone.
- `DeadKeyIsRefusedCorrect` and `FullUserStaysFullCorrect` have the form "once P,
  for ever Q". P (the key is dead and no request holds it; the user is full and
  no request has counted) is stable under every action, and implies Q.

`SpeakerReconciliationProofs`

- `TypeInvariant`, `TypeCorrect`: the indices stay within their lists.
- `NearestSpeakerCorrect`. `NearestInv` says what the three indices stand for:
  captions before j are too early for this entry and, by the order of the
  entries, for the later ones; match is the best of the candidates before k; by
  the order of the captions, what follows the window is too late.
- `SameVoiceSameIdCorrect`: `IdsInv` says that the dictionary is one to one and
  that the entries before i have been renamed by it.

Only model-checked: the liveness properties (`JobsAreProcessed`,
`SyncNoticesTheEnd`, `CompletedIsTranscribed`, `ArchiveIsSettled`,
`ArchiveIsTranscribed`, `GenuineGetsThrough`), which are out of the prover's reach, as
is ENABLED. Every invariant and every action property of a passing run, and the
refinement of `FileContract`, is a theorem.

## Plan

Done, in this order: `BotLifecycle`, `TranscriptPipeline`, `ApiKeys`,
`SpeakerReconciliation`, `SnsWebhook`, `FileContract` with its refinement,
`BotSchedule`, `Listings`, each with its proofs.

Left:

1. `BotContract`: what a client is promised of a bot (requested, in the meeting, over)
   and the refinement by `BotLifecycle`.
2. `ControlPanel`: both back ends together through createFileLog, S3 and SNS, with the
   deadline of the gRPC call.

## Not modelled

The content of transcripts, URLs, hashes and logs; the parameters of runTask;
the throttler and other libraries; users; configuration, migrations and the
generated gRPC code. The hand-over is modelled at both ends, not as one system.
`BotLifecycle` reduces the clock to what its properties tell apart; `BotSchedule` has
it, and the expiry of presigned URLs (8000 s, aws.service.ts:23) against the
waiting time of a bot (8100 s, bot.service.ts:214) is a matter of two constants and of
no state. leaveAt of CreateBotDto is used nowhere. A page size of 0 is answered by
the library and left out of `Listings`. A row of `file_log` is never deleted by the code, nor
is one of `bots`, so no action deletes one. Redis giving a message out a second
time after its visibility timeout has the effect of one more `Reprocess`.
