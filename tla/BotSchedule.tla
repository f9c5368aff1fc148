----------------------------- MODULE BotSchedule -----------------------------
(***************************************************************************)
(* When a scheduled bot is started: createBot leaves a bot whose joinAt    *)
(* lies ahead to the job of the ten minute ticks (initiateScheduledBot),   *)
(* which starts, one after the other, the pending bots that join within    *)
(* the next ten minutes.  BotLifecycle says what starting a bot does; this *)
(* module has the clock that BotLifecycle leaves out.                      *)
(*                                                                         *)
(* The unit of time is the minute of joinAt.  A minute holds many steps,   *)
(* so a bot may be created before or after the query of the same minute.   *)
(***************************************************************************)
EXTENDS Naturals, FiniteSets

CONSTANTS
    Bot,       \* ids of the bots that may be created
    Period,    \* minutes from tick to tick: CronExpression.EVERY_10_MINUTES
    Window,    \* minutes the query looks ahead: moment().add(10, 'minutes')
    MaxLate,   \* bound on the minutes a busy process handles a tick late
    Horizon,   \* bound on the clock
    MaxFaults  \* bound on failed launches, crashes, late and missed ticks

ASSUME ScheduleConstants ==
    /\ Period \in Nat \ {0} /\ Window \in Nat
    /\ MaxLate \in Nat /\ Horizon \in Nat /\ MaxFaults \in Nat

\* Both are ten minutes in the code.
ASSUME WindowCoversPeriod == Period <= Window

VARIABLES
    now,       \* the minute
    nextTick,  \* the next tick of the job
    up,        \* whether the process of api-backend is up
    status, joinAt, created,  \* these columns of the table "bots"
    loop,      \* the bots that the loop of the job has still to start
    faults

vars == <<now, nextTick, up, status, joinAt, created, loop, faults>>

rows == <<status, joinAt, created>>

TypeOK ==
    /\ now \in Nat /\ nextTick \in Nat /\ up \in BOOLEAN
    /\ status \in [Bot -> {"ABSENT", "PENDING", "STARTED"}]
    /\ joinAt \in [Bot -> Nat] /\ created \in [Bot -> Nat]
    /\ loop \in SUBSET Bot
    /\ faults \in Nat

Init ==
    /\ now = 0 /\ nextTick = Period /\ up = TRUE
    /\ status = [b \in Bot |-> "ABSENT"]
    /\ joinAt = [b \in Bot |-> 0] /\ created = [b \in Bot |-> 0]
    /\ loop = {} /\ faults = 0

Fault == faults < MaxFaults /\ faults' = faults + 1

-----------------------------------------------------------------------------
(* createBot: a bot whose joinAt is not after now is started by the        *)
(* request itself, and stays PENDING when that fails.                      *)

CreateBot(b, at) ==
    /\ up /\ status[b] = "ABSENT"
    /\ joinAt' = [joinAt EXCEPT ![b] = at]
    /\ created' = [created EXCEPT ![b] = now]
    /\ \/ /\ at > now /\ status' = [status EXCEPT ![b] = "PENDING"]
          /\ UNCHANGED faults
       \/ /\ at <= now /\ status' = [status EXCEPT ![b] = "STARTED"]
          /\ UNCHANGED faults
       \/ at <= now /\ status' = [status EXCEPT ![b] = "PENDING"] /\ Fault
    /\ UNCHANGED <<now, nextTick, up, loop>>

-----------------------------------------------------------------------------
(* initiateScheduledBot.                                                   *)

\* Mutants of Due: the end of the window is left out; a bot that was created
\* more than a period before the query is not looked for.
DueBefore(b, from) ==
    status[b] = "PENDING" /\ from <= joinAt[b] /\ joinAt[b] < now + Window
DueJustMade(b, from) ==
    /\ status[b] = "PENDING" /\ from <= joinAt[b] /\ joinAt[b] <= now + Window
    /\ created[b] + Period >= now

\* joinAt BETWEEN currentTime AND nextHalfHour, both ends included.
Due(b, from) ==
    status[b] = "PENDING" /\ from <= joinAt[b] /\ joinAt[b] <= now + Window

\* The query of a tick.  It runs some milliseconds into the minute, when the
\* joinAt of this minute is past, unless it runs at its very beginning.
Query ==
    /\ up /\ now >= nextTick /\ loop = {}
    /\ nextTick' = nextTick + Period
    /\ \E from \in {now, now + 1} : loop' = {b \in Bot : Due(b, from)}
    /\ UNCHANGED <<now, up, rows, faults>>

\* Mutant of Launch: the status written is none of the enumeration.
LaunchOtherEnum(b) ==
    /\ b \in loop /\ \A c \in loop : created[b] <= created[c]
    /\ status' = [status EXCEPT ![b] = "INITIATED"]
    /\ loop' = loop \ {b}
    /\ UNCHANGED <<now, nextTick, up, joinAt, created, faults>>

\* initiateBot of the next bot, in the order of createdAt.
Launch(b) ==
    /\ b \in loop /\ \A c \in loop : created[b] <= created[c]
    /\ status' = [status EXCEPT ![b] = "STARTED"]
    /\ loop' = loop \ {b}
    /\ UNCHANGED <<now, nextTick, up, joinAt, created, faults>>

\* It throws, and the loop ends with the bots it had left.
LaunchFails ==
    /\ loop # {} /\ Fault
    /\ loop' = {}
    /\ UNCHANGED <<now, nextTick, up, rows>>

-----------------------------------------------------------------------------
(* The clock and the process.                                              *)

\* Time goes on until a tick is due; a loop is over when the next one is.
Advance ==
    /\ now < Horizon /\ now < nextTick
    /\ now' = now + 1
    /\ UNCHANGED <<nextTick, up, rows, loop, faults>>

\* The event loop is busy when the tick comes.
Late ==
    /\ up /\ now = nextTick /\ loop = {} /\ Fault
    /\ \E d \in 1 .. MaxLate : now' = now + d
    /\ UNCHANGED <<nextTick, up, rows, loop>>

Crash ==
    /\ up /\ Fault
    /\ up' = FALSE /\ loop' = {}
    /\ UNCHANGED <<now, nextTick, rows>>

\* A tick that comes while the process is down is not made up for.
TickMissed ==
    /\ ~up /\ now >= nextTick /\ Fault
    /\ nextTick' = nextTick + Period
    /\ UNCHANGED <<now, up, rows, loop>>

Restart ==
    /\ ~up /\ up' = TRUE
    /\ UNCHANGED <<now, nextTick, rows, loop, faults>>

Next ==
    \/ \E b \in Bot : Launch(b) \/ \E at \in 0 .. Horizon : CreateBot(b, at)
    \/ Query \/ LaunchFails
    \/ Advance \/ Late \/ Crash \/ TickMissed \/ Restart

Spec == Init /\ [][Next]_vars

-----------------------------------------------------------------------------
(* Properties.                                                             *)

\* A pending bot whose time has come, whom the loop does not hold: no later
\* query looks for it, it is never started.
Missed(b) ==
    /\ status[b] = "PENDING" /\ joinAt[b] <= now /\ b \notin loop
    /\ now >= nextTick => joinAt[b] < now

\* It was created more than a period before its time, so that a tick lay in
\* between.  Without such notice a bot may be missed for no other reason.
Noticed(b) == joinAt[b] > created[b] + Period

\* A bot created with notice is started, if nothing failed: the windows of the
\* ticks leave no gap of a minute (bot.service.ts:162-173, cron-job.service.ts:21).
\* The code compares timestamps: the milliseconds by which a tick is later than
\* the one before are below the grain of this module.
ScheduledIsStarted ==
    faults = 0 => \A b \in Bot : Noticed(b) => ~Missed(b)

\* What one fault can cost: a failed launch (which ends the loop,
\* bot.service.ts:175), a crash, a late or a missed tick loses bots of one tick
\* only.  The minutes of the bots missed lie in no more windows than there were
\* faults.
LossBudget ==
    Cardinality({(joinAt[b] - 1) \div Period :
                    b \in {c \in Bot : Noticed(c) /\ Missed(c)}}) <= faults
=============================================================================
