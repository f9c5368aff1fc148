------------------------- MODULE TranscriptPipeline -------------------------
(***************************************************************************)
(* The worker backend: how an archive in S3 becomes a transcript.  The     *)
(* webhook of the S3 notifications (S3SNSEventWebhookView), the gRPC call  *)
(* of api-backend (DocumentCreate) and an operator (reprocess_transcripts) *)
(* queue tasks in Celery; the workers (_transcript_generator_worker) read  *)
(* the archive and write the tables file_log and transcription_log; a      *)
(* periodic task (_transcript_retry_cronjob) looks at the failed files.    *)
(*                                                                         *)
(* Django commits every statement (ATOMIC_REQUESTS is not set), so a step  *)
(* of the model is a statement, a message, or an answer of S3 and          *)
(* AssemblyAI.  save() writes the whole row, as the handler last saw it.   *)
(***************************************************************************)
EXTENDS Naturals, FiniteSets

CONSTANTS
    Key,               \* the raw_file_key of the archives
    Worker,            \* the slots a Celery worker's pool may have
    Pools,             \* the pools it may be started with
    Webhook,           \* the processes of gunicorn, one request at a time each
    None,              \* no value
    Prefork,           \* the pool is made of processes, not of threads
    FileMaxRetryCount, \* settings.FILE_MAX_RETRY_COUNT, None if there is none
    MaxExtra,          \* bound on duplicated notifications and reprocessings
    MaxFaults,         \* bound on failed calls to S3, AssemblyAI and Redis
    MaxCrashes         \* bound on processes that die

ASSUME PipelineConstants ==
    /\ None \notin Key
    /\ Pools \subseteq SUBSET Worker
    /\ FileMaxRetryCount \in Nat \/ FileMaxRetryCount = None
    /\ Prefork \in BOOLEAN
    /\ MaxExtra \in Nat /\ MaxFaults \in Nat /\ MaxCrashes \in Nat

ASSUME FiniteWorkers == IsFiniteSet(Worker)

VARIABLES
    archive,  \* the keys that have been uploaded to S3
    notices,  \* the notifications SNS has still to deliver, by key
    asked,    \* the keys DocumentCreate was called for
    fileLog,  \* the table file_log, one row per raw_file_key
    logs,     \* the copies of a file's transcript in transcription_log
    pool,     \* the slots it has: the concurrency the worker was started with
    queued,   \* the messages for _transcript_generator_worker, by key
    hook,     \* the requests of the webhook
    rpc,      \* the calls of DocumentCreate
    task,     \* the tasks the workers run
    extra, faults, crashes,
    lost      \* the keys of tasks that ended without a word, their messages gone

vars == <<archive, notices, asked, fileLog, logs, queued, hook, rpc, task,
          extra, faults, crashes, lost, pool>>

outside == <<archive, notices, asked, extra, pool>>
bounds  == <<faults, crashes, lost>>

-----------------------------------------------------------------------------
(* The data.                                                               *)

\* FileState; "ABSENT" is no row.
FileState == {"ABSENT", "INITIALIZED", "NOTIFICATION_RECEIVED", "PROCESSING",
              "PROCESSED", "FAILED"}

\* audio: whether audio_file_key is set, as the last step of a task does.
Row == [status: FileState, retryCount: Nat, audio: BOOLEAN]

NoRow == [status |-> "ABSENT", retryCount |-> 0, audio |-> FALSE]

\* get_or_create, update_or_create and the serializer insert the defaults.
InsertedOtherEnum(r) == IF r.status = "ABSENT" THEN [r EXCEPT !.status = "PENDING"]
                                               ELSE r

Inserted(r) == IF r.status = "ABSENT" THEN [r EXCEPT !.status = "INITIALIZED"]
                                      ELSE r

HookState == [pc: {"idle", "save", "delay"}, key: Key \cup {None}, row: Row]

TaskState == [pc: {"idle", "open", "delete", "create", "save", "fail"},
              key: Key \cup {None}, row: Row]

HookIdle == [pc |-> "idle", key |-> None, row |-> NoRow]
TaskIdle == HookIdle

TypeOK ==
    /\ archive \in SUBSET Key /\ asked \in SUBSET Key
    /\ notices \in [Key -> Nat]
    /\ fileLog \in [Key -> Row]
    /\ logs \in [Key -> Nat]
    /\ queued \in [Key -> Nat]
    /\ hook \in [Webhook -> HookState]
    /\ rpc \in [Key -> {"idle", "insert", "delay"}]
    /\ task \in [Worker -> TaskState]
    /\ extra \in Nat /\ faults \in Nat /\ crashes \in Nat
    /\ lost \in SUBSET Key
    /\ pool \in SUBSET Worker

Init ==
    /\ archive = {} /\ asked = {}
    /\ notices = [k \in Key |-> 0]
    /\ fileLog = [k \in Key |-> NoRow]
    /\ logs = [k \in Key |-> 0]
    /\ queued = [k \in Key |-> 0]
    /\ hook = [h \in Webhook |-> HookIdle]
    /\ rpc = [k \in Key |-> "idle"]
    /\ task = [w \in Worker |-> TaskIdle]
    /\ extra = 0 /\ faults = 0 /\ crashes = 0 /\ lost = {}
    /\ pool \in Pools

Fault == faults < MaxFaults /\ faults' = faults + 1

\* _transcript_generator_worker.delay
Delay(k) == queued' = [queued EXCEPT ![k] = @ + 1]

-----------------------------------------------------------------------------
(* S3 and SNS.                                                             *)

\* The meeting bot puts its archive; S3 tells SNS.
Upload(k) ==
    /\ k \notin archive
    /\ archive' = archive \cup {k}
    /\ notices' = [notices EXCEPT ![k] = @ + 1]
    /\ UNCHANGED <<pool, asked, fileLog, logs, queued, hook, rpc, task, extra, bounds>>

\* SNS delivers at least once.
Duplicate(k) ==
    /\ k \in archive /\ extra < MaxExtra
    /\ extra' = extra + 1
    /\ notices' = [notices EXCEPT ![k] = @ + 1]
    /\ UNCHANGED <<pool, archive, asked, fileLog, logs, queued, hook, rpc, task, bounds>>

-----------------------------------------------------------------------------
(* S3SNSEventWebhookView: handle_put and handle_post.                      *)

\* get_or_create
HookGet(h, k) ==
    /\ hook[h].pc = "idle" /\ notices[k] > 0
    /\ notices' = [notices EXCEPT ![k] = @ - 1]
    /\ fileLog' = [fileLog EXCEPT ![k] = Inserted(@)]
    /\ hook' = [hook EXCEPT ![h] =
                  [pc |-> "save", key |-> k, row |-> Inserted(fileLog[k])]]
    /\ UNCHANGED <<pool, archive, asked, logs, queued, rpc, task, extra, bounds>>

\* obj.save() writes the row of get_or_create back, with the new status.
HookSave(h) ==
    /\ hook[h].pc = "save"
    /\ fileLog' = [fileLog EXCEPT ![hook[h].key] =
                     [hook[h].row EXCEPT !.status = "NOTIFICATION_RECEIVED"]]
    /\ hook' = [hook EXCEPT ![h].pc = "delay"]
    /\ UNCHANGED <<outside, logs, queued, rpc, task, bounds>>

\* A request that was not answered, or answered with 500, comes again.
AgainAnswered200(n, k) == n
Again(n, k) == [n EXCEPT ![k] = @ + 1]

\* The last step of a request that is answered with 200.
HookDelay(h) ==
    /\ hook[h].pc = "delay"
    /\ Delay(hook[h].key)
    /\ hook' = [hook EXCEPT ![h] = HookIdle]
    /\ UNCHANGED <<outside, fileLog, logs, rpc, task, bounds>>

\* The except clause: PostgreSQL or Redis failed, the answer is 500.
HookFail(h) ==
    /\ hook[h].pc \in {"save", "delay"} /\ Fault
    /\ notices' = Again(notices, hook[h].key)
    /\ hook' = [hook EXCEPT ![h] = HookIdle]
    /\ UNCHANGED <<pool, archive, asked, fileLog, logs, queued, rpc, task, extra,
                   crashes, lost>>

-----------------------------------------------------------------------------
(* DocumentFileManagementService.DocumentCreate.                           *)

\* ais_valid: raw_file_key must be new, or the call answers with an error.
RpcValidate(k) ==
    /\ k \notin asked
    /\ asked' = asked \cup {k}
    /\ rpc' = [rpc EXCEPT ![k] = IF fileLog[k].status = "ABSENT" THEN "insert"
                                                                 ELSE "idle"]
    /\ UNCHANGED <<pool, archive, notices, fileLog, logs, queued, hook, task, extra,
                   bounds>>

\* asave: the insert fails if a row has come in between.
RpcInsert(k) ==
    /\ rpc[k] = "insert"
    /\ rpc' = [rpc EXCEPT ![k] = IF fileLog[k].status = "ABSENT" THEN "delay"
                                                                 ELSE "idle"]
    /\ fileLog' = [fileLog EXCEPT ![k] = Inserted(@)]
    /\ UNCHANGED <<outside, logs, queued, hook, task, bounds>>

RpcDelay(k) ==
    /\ rpc[k] = "delay"
    /\ Delay(k)
    /\ rpc' = [rpc EXCEPT ![k] = "idle"]
    /\ UNCHANGED <<outside, fileLog, logs, hook, task, bounds>>

\* PostgreSQL or Redis failed; api-backend takes the error and goes on.
RpcFail(k) ==
    /\ rpc[k] # "idle" /\ Fault
    /\ rpc' = [rpc EXCEPT ![k] = "idle"]
    /\ UNCHANGED <<outside, fileLog, logs, queued, hook, task, crashes, lost>>

-----------------------------------------------------------------------------
(* reprocess_transcripts, for the files of the table or for any key.       *)

Reprocess(k) ==
    /\ extra < MaxExtra
    /\ extra' = extra + 1
    /\ Delay(k)
    /\ UNCHANGED <<pool, archive, notices, asked, fileLog, logs, hook, rpc, task, bounds>>

-----------------------------------------------------------------------------
(* _transcript_generator_worker.                                           *)

Take(w, k) ==
    /\ w \in pool /\ task[w].pc = "idle" /\ queued[k] > 0
    /\ queued' = [queued EXCEPT ![k] = @ - 1]
    /\ task' = [task EXCEPT ![w] = [TaskIdle EXCEPT !.pc = "open", !.key = k]]
    /\ UNCHANGED <<outside, fileLog, logs, hook, rpc, bounds>>

\* get_meta_data and update_or_create: the row this task will save in the end.
OpenedUnmarked(r) == Inserted(r)
Opened(r) == [Inserted(r) EXCEPT !.status = "PROCESSING"]

Open(w) ==
    LET k   == task[w].key
        row == Opened(fileLog[k])
    IN  /\ task[w].pc = "open" /\ k \in archive
        /\ fileLog' = [fileLog EXCEPT ![k] = row]
        /\ task' = [task EXCEPT ![w].pc = "delete", ![w].row = row]
        /\ UNCHANGED <<outside, logs, queued, hook, rpc, bounds>>

\* The archive is not there yet, or a later step throws: download, tar file,
\* AssemblyAI, database.
Throw(w) ==
    /\ \/ task[w].pc = "open" /\ task[w].key \notin archive /\ UNCHANGED faults
       \/ task[w].pc \in {"open", "delete", "create", "save"} /\ Fault
    /\ task' = [task EXCEPT ![w].pc = "fail"]
    /\ UNCHANGED <<outside, fileLog, logs, queued, hook, rpc, crashes, lost>>

\* Transcribed: the old rows of the transcript are deleted ...
ClearedNot(n) == n
Cleared(n) == 0

Delete(w) ==
    /\ task[w].pc = "delete"
    /\ logs' = [logs EXCEPT ![task[w].key] = Cleared(@)]
    /\ task' = [task EXCEPT ![w].pc = "create"]
    /\ UNCHANGED <<outside, fileLog, queued, hook, rpc, bounds>>

\* ... and the new ones inserted by a statement of its own.
BulkCreate(w) ==
    /\ task[w].pc = "create"
    /\ logs' = [logs EXCEPT ![task[w].key] = @ + 1]
    /\ task' = [task EXCEPT ![w].pc = "save"]
    /\ UNCHANGED <<outside, fileLog, queued, hook, rpc, bounds>>

\* file_ref.save() writes the row of update_or_create back.
ProcessedNoStatus(r) == [r EXCEPT !.audio = TRUE]
Processed(r) == [r EXCEPT !.status = "PROCESSED", !.audio = TRUE]

Save(w) ==
    /\ task[w].pc = "save"
    /\ fileLog' = [fileLog EXCEPT ![task[w].key] = Processed(task[w].row)]
    /\ task' = [task EXCEPT ![w] = TaskIdle]
    /\ UNCHANGED <<outside, logs, queued, hook, rpc, bounds>>

\* The except clause: filter(...).update(...) of the row, if there is one.
\* The exception it raises ends the task: max_retries is never asked for.  An
\* exception of the update itself ends the task too, with no word of it, and so
\* does one before the try block (S3Client, the settings).
MarkFailed(w) ==
    LET k == task[w].key
    IN  /\ \/ /\ task[w].pc = "fail"
              /\ fileLog' = [fileLog EXCEPT ![k].status =
                                IF @ = "ABSENT" THEN @ ELSE "FAILED"]
              /\ UNCHANGED <<faults, lost>>
           \/ /\ task[w].pc \in {"open", "fail"} /\ Fault
              /\ lost' = lost \cup {k}
              /\ UNCHANGED fileLog
        /\ task' = [task EXCEPT ![w] = TaskIdle]
        /\ UNCHANGED <<outside, logs, queued, hook, rpc, crashes>>

-----------------------------------------------------------------------------
(* _transcript_retry_cronjob.                                              *)

\* The failed files under the limit that failed long enough ago are counted,
\* but none is queued: delay is given file_log.file_type, which FileLog does
\* not have, and the except clause takes the error.  Without the setting the
\* query itself throws.  The transaction locks the rows it has read.
EligibleAtLimit(r) == r.status = "FAILED" /\ r.retryCount <= FileMaxRetryCount
Eligible(r) == r.status = "FAILED" /\ r.retryCount < FileMaxRetryCount

RetryCron ==
    /\ FileMaxRetryCount # None
    /\ \E due \in (SUBSET {k \in Key : Eligible(fileLog[k])}) \ {{}} :
          fileLog' = [k \in Key |->
                        IF k \in due
                        THEN [fileLog[k] EXCEPT !.retryCount = @ + 1]
                        ELSE fileLog[k]]
    /\ UNCHANGED <<outside, logs, queued, hook, rpc, task, bounds>>

-----------------------------------------------------------------------------
(* Crashes.                                                                *)

Dies == crashes < MaxCrashes /\ crashes' = crashes + 1

\* With task_acks_late a message is acknowledged when its task has ended.
UnackedEarly(k) == 0
Unacked(k) == Cardinality({w \in Worker : task[w].key = k})

\* The Celery worker dies: the messages it holds are delivered again.
CeleryDies ==
    /\ Dies
    /\ queued' = [k \in Key |-> queued[k] + Unacked(k)]
    /\ task' = [w \in Worker |-> TaskIdle]
    /\ UNCHANGED <<outside, fileLog, logs, hook, rpc, faults, lost>>

\* A process of the pool dies, or is killed at CELERY_TASK_TIME_LIMIT (which
\* threads do not have): Celery acknowledges the message of its task.
ChildDies(w) ==
    /\ Prefork /\ task[w].pc # "idle" /\ Dies
    /\ task' = [task EXCEPT ![w] = TaskIdle]
    /\ lost' = lost \cup {task[w].key}
    /\ UNCHANGED <<outside, fileLog, logs, queued, hook, rpc, faults>>

GunicornDies(h) ==
    /\ hook[h].pc # "idle" /\ Dies
    /\ notices' = Again(notices, hook[h].key)
    /\ hook' = [hook EXCEPT ![h] = HookIdle]
    /\ UNCHANGED <<pool, archive, asked, fileLog, logs, queued, rpc, task, extra,
                   faults, lost>>

\* Nobody calls again.
GrpcDies ==
    /\ Dies
    /\ rpc' = [k \in Key |-> "idle"]
    /\ UNCHANGED <<outside, fileLog, logs, queued, hook, task, faults, lost>>

-----------------------------------------------------------------------------
HookStep(h) == HookSave(h) \/ HookDelay(h) \/ HookFail(h)
                  \/ \E k \in Key : HookGet(h, k)

RpcStep(k) == RpcValidate(k) \/ RpcInsert(k) \/ RpcDelay(k) \/ RpcFail(k)

WorkStep(w) == Open(w) \/ Throw(w) \/ Delete(w) \/ BulkCreate(w) \/ Save(w)
                  \/ MarkFailed(w) \/ \E k \in Key : Take(w, k)

Next ==
    \/ \E k \in Key : Upload(k) \/ Duplicate(k) \/ RpcStep(k) \/ Reprocess(k)
    \/ \E h \in Webhook : HookStep(h) \/ GunicornDies(h)
    \/ \E w \in Worker : WorkStep(w) \/ ChildDies(w)
    \/ CeleryDies \/ GrpcDies
    \/ RetryCron

Spec == Init /\ [][Next]_vars

\* SNS, the web process and the workers go on; the retry job ticks.
Fairness ==
    /\ \A h \in Webhook : WF_vars(HookStep(h))
    /\ \A k \in Key : WF_vars(RpcInsert(k) \/ RpcDelay(k) \/ RpcFail(k))
    /\ \A w \in Worker : WF_vars(WorkStep(w))
    /\ WF_vars(RetryCron)

FairSpec == Spec /\ Fairness

-----------------------------------------------------------------------------
(* Safety.                                                                 *)

\* A task, a message or a notification that has still to do its work on k.
Expected(k) ==
    \/ queued[k] > 0 \/ notices[k] > 0
    \/ \E w \in Worker : task[w].key = k
    \/ \E h \in Webhook : hook[h].key = k

\* The copies that transcription_log holds of a transcript: the delete before
\* the insert (worker.py:143) keeps earlier runs from adding up, and only the
\* tasks that pass between the two statements at the same time are doubled.
CopiesBounded == \A k \in Key : logs[k] <= Cardinality(pool)

\* A PROCESSED file (worker.py:151) that no task is at work on has its
\* transcript, once, and its audio key: "File processing completed
\* successfully" (worker.py:155).
CompletedSuccessfully ==
    \A k \in Key :
        /\ fileLog[k].status = "PROCESSED"
        /\ \A w \in Worker : task[w].key # k
        => logs[k] = 1 /\ fileLog[k].audio

\* With a pool of one slot that holds, whatever is notified or reprocessed and
\* wherever the worker dies.  (Tasks that overlap may double a transcript.)
ProcessedIsComplete == Cardinality(pool) = 1 => CompletedSuccessfully

\* Tasks of one file that overlap may double its transcript, but without a
\* failed call they never lose it: a PROCESSED file with nothing in
\* transcription_log is one that a task is writing again, or will after the
\* restart of the worker.
ProcessedHasTranscript ==
    \A k \in Key :
        fileLog[k].status = "PROCESSED" /\ logs[k] = 0 =>
            \/ queued[k] > 0
            \/ \E w \in Worker : task[w].key = k
            \/ faults > 0 \/ k \in lost

\* A file whose state promises more work (notified, or being processed) has
\* a task, a message or a notification on its way, across failed calls and
\* restarts, unless a task of it was lost.
NoForgottenFile ==
    \A k \in Key :
        fileLog[k].status \in {"NOTIFICATION_RECEIVED", "PROCESSING"} =>
            Expected(k) \/ k \in lost

\* The phase of a file: has its row promised more work, or told a result?
Phase(s) == CASE s \in {"ABSENT", "INITIALIZED"} -> "unseen"
              [] s \in {"NOTIFICATION_RECEIVED", "PROCESSING"} -> "owed"
              [] s \in {"PROCESSED", "FAILED"} -> "settled"

Contract == INSTANCE FileContract
    WITH file <- [k \in Key |-> Phase(fileLog[k].status)],
         jobs <- {k \in Key : Expected(k)}

\* The backend keeps the contract: whatever overlaps, fails or is delivered
\* again, each step is one that FileContract allows, or none.
KeepsContract == Contract!Spec

\* The retry job counts a file up to the limit and not past it, although two
\* other writers save whole rows with counts they have read before.
RetryCountBounded ==
    FileMaxRetryCount # None =>
        \A k \in Key : fileLog[k].retryCount <= FileMaxRetryCount

-----------------------------------------------------------------------------
(* Liveness.                                                               *)

\* An archive in S3 ends PROCESSED or FAILED, for good: neither overlapping
\* tasks nor the stale rows of a webhook leave it half way, unless a task of
\* it was lost.
ArchiveIsSettled ==
    \A k \in Key : k \in archive ~>
        [](fileLog[k].status \in {"PROCESSED", "FAILED"} \/ k \in lost)

\* Without failures the archive ends PROCESSED, though tasks may have been
\* queued for it before it was there, if the pool has one slot: of two tasks
\* that overlap, one that began before the archive came may mark FAILED last.
ArchiveIsTranscribed ==
    \A k \in Key : k \in archive /\ Cardinality(pool) = 1 ~>
        [](fileLog[k].status = "PROCESSED" \/ faults > 0 \/ crashes > 0)

\* The retry job's log line says "Retrying processing for transcript"
\* (worker.py:188): a failed file does not stay FAILED.
FailedIsRetried ==
    \A k \in Key : fileLog[k].status = "FAILED" ~> fileLog[k].status # "FAILED"
=============================================================================
