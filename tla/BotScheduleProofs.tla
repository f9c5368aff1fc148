-------------------------- MODULE BotScheduleProofs --------------------------
(***************************************************************************)
(* Theorems about BotSchedule, for every period, every window that covers  *)
(* it and any number of bots.                                              *)
(***************************************************************************)
EXTENDS BotSchedule, FiniteSetTheorems, TLAPS

\* The columns hold times and the loop bots.
THEOREM TypeCorrect == Spec => []TypeOK
<1>1. Init => TypeOK
  BY ScheduleConstants DEF Init, TypeOK
<1>2. TypeOK /\ [Next]_vars => TypeOK'
  <2> SUFFICES ASSUME TypeOK, [Next]_vars PROVE TypeOK'
    OBVIOUS
  <2> USE ScheduleConstants
  <2>1. ASSUME NEW b \in Bot, NEW at \in 0 .. Horizon, CreateBot(b, at)
        PROVE  TypeOK'
    BY <2>1 DEF TypeOK, CreateBot, Fault
  <2>2. ASSUME NEW b \in Bot, Launch(b) PROVE TypeOK'
    BY <2>2 DEF TypeOK, Launch
  <2>3. CASE Query
    BY <2>3 DEF TypeOK, Query, rows
  <2>4. CASE LaunchFails
    BY <2>4 DEF TypeOK, LaunchFails, Fault, rows
  <2>5. CASE Crash
    <3>1. up' \in BOOLEAN
      BY <2>5 DEF Crash
    <3> QED
      BY <2>5, <3>1 DEF TypeOK, Crash, Fault, rows
  <2>6. CASE TickMissed
    BY <2>6 DEF TypeOK, TickMissed, Fault, rows
  <2>7. CASE Restart \/ Advance
    <3>1. up' \in BOOLEAN
      BY <2>7 DEF TypeOK, Restart, Advance
    <3>2. now' \in Nat
      BY <2>7 DEF TypeOK, Restart, Advance
    <3> QED
      BY <2>7, <3>1, <3>2 DEF TypeOK, Restart, Advance, rows
  <2>8. CASE Late
    <3>1. PICK d \in 1 .. MaxLate : now' = now + d
      BY <2>8 DEF Late
    <3> QED
      BY <2>8, <3>1 DEF TypeOK, Late, Fault, rows
  <2>9. CASE UNCHANGED vars
    BY <2>9 DEF TypeOK, vars
  <2> QED
    BY <2>1, <2>2, <2>3, <2>4, <2>5, <2>6, <2>7, <2>8, <2>9 DEF Next
<1> QED
  BY <1>1, <1>2, PTL DEF Spec

-----------------------------------------------------------------------------
(* The windows leave no gap.  While nothing fails the clock is never past  *)
(* the next tick, nor more than a period before it, and a bot with notice  *)
(* that waits outside the loop waits for that tick or a later one.         *)

InTime == now <= nextTick /\ nextTick <= now + Period

Awaited ==
    \A b \in Bot :
        status[b] = "PENDING" /\ Noticed(b) /\ b \notin loop =>
            nextTick < joinAt[b]

WindowsInv == faults = 0 => InTime /\ Awaited

\* A query takes every bot up to the end of its window, which the tick after it
\* does not pass; a bot created with notice joins after the next tick.
LEMMA WindowsStep == TypeOK /\ WindowsInv /\ [Next]_vars => WindowsInv'
<1> SUFFICES ASSUME TypeOK, WindowsInv, [Next]_vars, faults' = 0
             PROVE  InTime' /\ Awaited'
  BY DEF WindowsInv
<1> USE ScheduleConstants
<1>0. ~Late /\ ~Crash /\ ~TickMissed /\ ~LaunchFails
  BY DEF TypeOK, Late, Crash, TickMissed, LaunchFails, Fault
<1>1. ASSUME NEW b \in Bot, NEW at \in 0 .. Horizon, CreateBot(b, at)
      PROVE  InTime' /\ Awaited'
  <2>1. faults = 0 /\ InTime /\ Awaited
    BY <1>1 DEF CreateBot, Fault, TypeOK, WindowsInv
  <2>2. ASSUME NEW c \in Bot, status'[c] = "PENDING", Noticed(c)', c \notin loop'
        PROVE  nextTick' < joinAt'[c]
    <3>1. CASE c = b
      <4>1. joinAt'[c] > now + Period
        BY <1>1, <2>2, <3>1 DEF CreateBot, Noticed, TypeOK
      <4> QED
        BY <1>1, <2>1, <4>1 DEF CreateBot, InTime, TypeOK
    <3>2. CASE c # b
      <4>1. /\ status[c] = "PENDING" /\ Noticed(c) /\ c \notin loop
            /\ joinAt'[c] = joinAt[c]
        BY <1>1, <2>2, <3>2 DEF CreateBot, Noticed, TypeOK
      <4> QED
        BY <1>1, <2>1, <4>1 DEF CreateBot, Awaited
    <3> QED
      BY <3>1, <3>2
  <2> QED
    BY <1>1, <2>1, <2>2 DEF CreateBot, InTime, Awaited
<1>2. ASSUME NEW b \in Bot, Launch(b) PROVE InTime' /\ Awaited'
  BY <1>2 DEF Launch, WindowsInv, InTime, Awaited, Noticed, TypeOK
<1>3. CASE Query
  <2>1. InTime /\ Awaited /\ now = nextTick
    BY <1>3 DEF Query, WindowsInv, InTime, TypeOK
  <2>2. PICK from \in {now, now + 1} : loop' = {b \in Bot : Due(b, from)}
    BY <1>3 DEF Query
  <2>3. ASSUME NEW b \in Bot, status[b] = "PENDING", Noticed(b), b \notin loop'
        PROVE  now + Window < joinAt[b]
    <3>1. now < joinAt[b]
      BY <1>3, <2>1, <2>3 DEF Query, Awaited
    <3>2. ~Due(b, from)
      BY <2>2, <2>3
    <3> QED
      BY <2>3, <3>1, <3>2 DEF Due, TypeOK
  <2>4. nextTick' = now + Period
    BY <1>3, <2>1 DEF Query
  <2>5. InTime'
    BY <1>3, <2>4 DEF Query, InTime, TypeOK
  <2>6. Awaited'
    BY <1>3, <2>3, <2>4, WindowCoversPeriod DEF Query, rows, Awaited, Noticed, TypeOK
  <2> QED
    BY <2>5, <2>6
<1>4. CASE Advance \/ Restart
  BY <1>4 DEF Advance, Restart, rows, WindowsInv, InTime, Awaited, Noticed, TypeOK
<1>5. CASE UNCHANGED vars
  BY <1>5 DEF vars, WindowsInv, InTime, Awaited, Noticed
<1> QED
  BY <1>0, <1>1, <1>2, <1>3, <1>4, <1>5 DEF Next

\* As long as the window of the query covers the period of the ticks, a bot
\* that is created more than a period before its time is started in time,
\* whatever other bots there are, if nothing failed.
THEOREM ScheduledIsStartedCorrect == Spec => []ScheduledIsStarted
<1>1. Init => WindowsInv
  BY ScheduleConstants DEF Init, WindowsInv, InTime, Awaited
<1>2. TypeOK /\ WindowsInv => ScheduledIsStarted
  BY DEF WindowsInv, InTime, Awaited, ScheduledIsStarted, Missed, TypeOK
<1> QED
  BY <1>1, <1>2, WindowsStep, TypeCorrect, PTL DEF Spec

-----------------------------------------------------------------------------
(* What a fault can cost.  The m-th window is the minutes from tick m, not *)
(* included, to tick m + 1.  A query serves the window that begins with    *)
(* its tick; whoever it leaves out, or a fault drops from the loop, waits  *)
(* in that window or in one that is paid for already.                      *)

\* The bots with notice that still wait and whose minute is t or earlier.
Owing(t) == {b \in Bot : status[b] = "PENDING" /\ Noticed(b) /\ joinAt[b] <= t}

Windows(B) == {(joinAt[b] - 1) \div Period : b \in B}

\* m ticks have been due.  The windows up to the last tick, whatever the loop
\* still holds, and those up to the next tick that the loop does not hold, are
\* paid for by faults; a late tick has one fault to spare.
Budget(m) ==
    /\ nextTick = Period * m
    /\ nextTick <= now + Period /\ now <= nextTick + Period
    /\ now > nextTick \/ ~up => loop = {}
    /\ Cardinality(Windows(Owing(nextTick - Period))) <= faults
    /\ Cardinality(Windows(Owing(nextTick) \ loop)) <= faults
    /\ now > nextTick => Cardinality(Windows(Owing(nextTick) \ loop)) < faults

\* The window of a minute, by the ticks before and after it.
LEMMA WindowOf ==
    ASSUME NEW j \in Nat, 0 < j, NEW m \in Nat
    PROVE  /\ (j - 1) \div Period \in Nat
           /\ j <= Period * m => (j - 1) \div Period < m
           /\ Period * m < j /\ j <= Period * m + Period => (j - 1) \div Period = m
<1> DEFINE q == (j - 1) \div Period
<1>1. Period \in Nat /\ Period > 0 /\ j - 1 \in Nat
  BY ScheduleConstants
<1>2. /\ q \in Nat /\ Period * q <= j - 1 /\ j - 1 < Period * q + Period
  BY <1>1
<1> HIDE DEF q
<1>3. ASSUME j <= Period * m PROVE q < m
  <2>1. Period * q < Period * m
    BY <1>1, <1>2, <1>3
  <2> QED
    BY <1>1, <1>2, <2>1
<1>4. ASSUME Period * m < j, j <= Period * m + Period PROVE q = m
  <2>1. Period * m < Period * q + Period
    BY <1>1, <1>2, <1>4
  <2>2. Period * q < Period * m + Period
    BY <1>1, <1>2, <1>4
  <2>3. Period * m < Period * (q + 1) /\ Period * q < Period * (m + 1)
    BY <1>1, <1>2, <2>1, <2>2
  <2>4. m < q + 1
    BY <1>1, <1>2, <2>3
  <2>5. q < m + 1
    BY <1>1, <1>2, <2>3
  <2> QED
    BY <1>2, <2>4, <2>5
<1> QED
  BY <1>2, <1>3, <1>4 DEF q

\* The bots that wait up to tick m lie in the windows before it, which are
\* finitely many.
LEMMA FiniteWindows ==
    ASSUME TypeOK, NEW m \in Nat, NEW B \in SUBSET Owing(Period * m)
    PROVE  /\ IsFiniteSet(Windows(B)) /\ Cardinality(Windows(B)) \in Nat
<1>1. \A b \in B : (joinAt[b] - 1) \div Period \in 0 .. m - 1
  <2> SUFFICES ASSUME NEW b \in B PROVE (joinAt[b] - 1) \div Period \in 0 .. m - 1
    OBVIOUS
  <2>1. /\ joinAt[b] \in Nat /\ 0 < joinAt[b] /\ joinAt[b] <= Period * m
    BY ScheduleConstants DEF Owing, Noticed, TypeOK
  <2> QED
    BY <2>1, WindowOf
<1>2. Windows(B) \subseteq 0 .. m - 1
  BY <1>1 DEF Windows
<1>3. IsFiniteSet(0 .. m - 1)
  BY FS_Interval
<1> QED
  BY <1>2, <1>3, FS_Subset, FS_CardinalityType

\* Windows that lie among others are no more, and with one more at most one
\* more.
LEMMA FewerWindows ==
    ASSUME NEW S, NEW T, IsFiniteSet(T), NEW x, S \subseteq T \cup {x}
    PROVE  /\ Cardinality(T) \in Nat /\ Cardinality(S) \in Nat
           /\ Cardinality(S) <= Cardinality(T) + 1
           /\ S \subseteq T => Cardinality(S) <= Cardinality(T)
<1>1. /\ Cardinality(T) \in Nat /\ IsFiniteSet(T \cup {x})
      /\ Cardinality(T \cup {x}) <= Cardinality(T) + 1
  <2>1. /\ IsFiniteSet(T \cup {x})
        /\ Cardinality(T \cup {x}) =
             IF x \in T THEN Cardinality(T) ELSE Cardinality(T) + 1
    BY FS_AddElement
  <2>2. Cardinality(T) \in Nat
    BY FS_CardinalityType
  <2> QED
    BY <2>1, <2>2
<1> QED
  BY <1>1, FS_Subset, FS_CardinalityType

\* A step keeps the budget, or moves it to the next tick: the windows without
\* their bots are those there were, or one more for which a fault pays.
LEMMA BudgetStep ==
    ASSUME MaxLate <= Period, TypeOK, TypeOK', [Next]_vars,
           NEW m \in Nat \ {0}, Budget(m)
    PROVE  \E n \in Nat \ {0} : Budget(n)'
<1> DEFINE A == Windows(Owing(nextTick - Period))
           S == Windows(Owing(nextTick) \ loop)
           Goal == \E n \in Nat \ {0} : Budget(n)'
<1>types. /\ Period \in Nat \ {0} /\ Window \in Nat /\ MaxLate \in Nat
          /\ now \in Nat /\ nextTick \in Nat /\ faults \in Nat
          /\ loop \in SUBSET Bot
          /\ joinAt \in [Bot -> Nat] /\ created \in [Bot -> Nat]
          /\ status \in [Bot -> {"ABSENT", "PENDING", "STARTED"}]
  BY ScheduleConstants DEF TypeOK
<1>tick. /\ nextTick = Period * m /\ nextTick - Period = Period * (m - 1)
         /\ nextTick + Period = Period * (m + 1)
         /\ m - 1 \in Nat /\ m + 1 \in Nat \ {0}
         /\ nextTick - Period \in Nat
  BY <1>types DEF Budget
<1>clock. /\ nextTick <= now + Period /\ now <= nextTick + Period
          /\ now > nextTick \/ ~up => loop = {}
  BY DEF Budget
<1>cards. /\ IsFiniteSet(A) /\ Cardinality(A) \in Nat
          /\ IsFiniteSet(S) /\ Cardinality(S) \in Nat
          /\ Cardinality(A) <= faults /\ Cardinality(S) <= faults
          /\ now > nextTick => Cardinality(S) < faults
  <2>1. IsFiniteSet(A) /\ Cardinality(A) \in Nat
    BY <1>tick, FiniteWindows
  <2>2. IsFiniteSet(S) /\ Cardinality(S) \in Nat
    BY <1>tick, FiniteWindows
  <2> QED
    BY <2>1, <2>2 DEF Budget
<1>last. Windows(Owing(nextTick)) \subseteq A \cup {m - 1}
  <2> SUFFICES ASSUME NEW b \in Owing(nextTick)
               PROVE  (joinAt[b] - 1) \div Period \in A \cup {m - 1}
    BY DEF Windows
  <2>1. joinAt[b] \in Nat /\ 0 < joinAt[b] /\ joinAt[b] <= nextTick
    BY <1>types DEF Owing, Noticed
  <2>2. CASE joinAt[b] <= nextTick - Period
    BY <2>2 DEF Owing, Windows
  <2>3. CASE ~(joinAt[b] <= nextTick - Period)
    <3>1. Period * (m - 1) < joinAt[b] /\ joinAt[b] <= Period * (m - 1) + Period
      BY <2>1, <2>3, <1>tick, <1>types
    <3> QED
      BY <2>1, <3>1, <1>tick, WindowOf
  <2> QED
    BY <2>2, <2>3
<1>next. ASSUME NEW T, T \subseteq Windows(Owing(nextTick))
         PROVE  Cardinality(T) \in Nat /\ Cardinality(T) <= faults + 1
  <2>1. /\ Cardinality(T) \in Nat /\ Cardinality(T) <= Cardinality(A) + 1
    BY <1>next, <1>last, <1>cards, FewerWindows
  <2> QED
    BY <2>1, <1>cards, <1>types
<1>1. ASSUME NEW b \in Bot, NEW at \in 0 .. Horizon, CreateBot(b, at) PROVE Goal
  <2>1. /\ UNCHANGED <<now, nextTick, up, loop>> /\ faults <= faults'
        /\ faults' \in Nat
    BY <1>1, <1>types DEF CreateBot, Fault
  <2>2. ASSUME NEW t \in Nat, t <= nextTick PROVE Owing(t)' = Owing(t)
    <3>1. b \notin Owing(t)
      BY <1>1 DEF CreateBot, Owing
    <3>2. b \notin Owing(t)'
      <4>1. Noticed(b)' => joinAt'[b] > now + Period
        BY <1>1, <1>types DEF CreateBot, Noticed
      <4>2. joinAt'[b] \in Nat
        BY <1>1, <1>types DEF CreateBot
      <4> QED
        BY <2>2, <4>1, <4>2, <1>clock, <1>types DEF Owing
    <3>3. \A c \in Bot : c # b => (c \in Owing(t)' <=> c \in Owing(t))
      BY <1>1, <1>types DEF CreateBot, Owing, Noticed
    <3> QED
      BY <3>1, <3>2, <3>3 DEF Owing
  <2>3. \A c \in Owing(nextTick) : joinAt'[c] = joinAt[c]
    BY <1>1, <1>types DEF CreateBot, Owing
  <2>4. Owing(nextTick)' = Owing(nextTick) /\ Owing(nextTick - Period)' = Owing(nextTick - Period)
    <3>1. nextTick - Period <= nextTick
      BY <1>types
    <3> QED
      BY <2>1, <2>2, <3>1, <1>types, <1>tick DEF Owing
  <2>5. A' = A
    <3>1. \A c \in Owing(nextTick - Period) : joinAt'[c] = joinAt[c]
      BY <2>3, <1>types DEF Owing
    <3> QED
      BY <2>4, <3>1 DEF Windows
  <2>6. S' = S
    BY <2>1, <2>3, <2>4 DEF Windows
  <2> QED
    BY <2>1, <2>5, <2>6, <1>tick, <1>clock, <1>cards, <1>types DEF Budget
<1>2. ASSUME NEW b \in Bot, Launch(b) PROVE Goal
  <2>1. /\ UNCHANGED <<now, nextTick, up, faults, joinAt>>
        /\ loop' = loop \ {b} /\ b \in loop
    BY <1>2 DEF Launch
  <2>2. A' \subseteq A /\ S' \subseteq S
    BY <1>2, <1>types DEF Launch, Windows, Owing, Noticed
  <2>3. /\ Cardinality(A') <= Cardinality(A) /\ Cardinality(S') <= Cardinality(S)
        /\ Cardinality(A') \in Nat /\ Cardinality(S') \in Nat
    BY <2>2, <1>cards, FewerWindows
  <2>4. now' <= nextTick'
    BY <2>1, <1>clock, <1>types
  <2> QED
    BY <2>1, <2>3, <2>4, <1>tick, <1>clock, <1>cards, <1>types DEF Budget
<1>3. ASSUME Query PROVE Goal
  <2>1. /\ now >= nextTick /\ loop = {} /\ nextTick' = nextTick + Period
        /\ UNCHANGED <<now, up, status, joinAt, created, faults>> /\ up
    BY <1>3 DEF Query, rows
  <2>2. A' = S
    <3>1. nextTick' - Period = nextTick
      BY <2>1, <1>types
    <3>2. Owing(nextTick - Period)' = Owing(nextTick) \ loop
      BY <2>1, <3>1 DEF Owing, Noticed
    <3> QED
      BY <2>1, <3>2 DEF Windows
  <2>3. ASSUME NEW b \in (Owing(nextTick) \ loop)' PROVE joinAt[b] <= now
    <3>1. PICK from \in {now, now + 1} : loop' = {c \in Bot : Due(c, from)}
      BY <1>3 DEF Query
    <3>2. /\ b \in Bot /\ status[b] = "PENDING" /\ joinAt[b] <= nextTick + Period
          /\ b \notin loop'
      BY <2>1 DEF Owing
    <3>3. joinAt[b] <= now + Window
      BY <2>1, <3>2, <1>types, WindowCoversPeriod
    <3>4. ~(from <= joinAt[b])
      BY <3>1, <3>2, <3>3 DEF Due
    <3> QED
      BY <3>1, <3>2, <3>4, <1>types
  <2>4. CASE now = nextTick
    <3>1. S' \subseteq S
      BY <2>1, <2>3, <2>4 DEF Windows, Owing, Noticed
    <3>2. Cardinality(S') <= Cardinality(S) /\ Cardinality(S') \in Nat
      BY <3>1, <1>cards, FewerWindows
    <3>3. Budget(m + 1)'
      BY <2>1, <2>2, <2>4, <3>2, <1>tick, <1>clock, <1>cards, <1>types DEF Budget
    <3> QED
      BY <3>3, <1>tick
  <2>5. CASE now # nextTick
    <3>1. S' \subseteq S \cup {m}
      <4> SUFFICES ASSUME NEW b \in (Owing(nextTick) \ loop)'
                   PROVE  (joinAt[b] - 1) \div Period \in S \cup {m}
        BY <2>1 DEF Windows
      <4>1. /\ b \in Bot /\ status[b] = "PENDING" /\ Noticed(b)
            /\ joinAt[b] <= nextTick + Period
        BY <2>1 DEF Owing, Noticed
      <4>2. CASE joinAt[b] <= nextTick
        BY <2>1, <4>1, <4>2 DEF Owing, Windows
      <4>3. CASE ~(joinAt[b] <= nextTick)
        <5>1. /\ joinAt[b] \in Nat /\ 0 < joinAt[b] /\ Period * m < joinAt[b]
              /\ joinAt[b] <= Period * m + Period
          BY <4>1, <4>3, <1>tick, <1>types
        <5> QED
          BY <5>1, WindowOf
      <4> QED
        BY <4>2, <4>3
    <3>2. Cardinality(S') <= Cardinality(S) + 1 /\ Cardinality(S') \in Nat
      BY <3>1, <1>cards, FewerWindows
    <3>3. Cardinality(S') <= faults
      BY <2>1, <2>5, <3>2, <1>cards, <1>types
    <3>4. Budget(m + 1)'
      BY <2>1, <2>2, <3>3, <1>tick, <1>clock, <1>cards, <1>types DEF Budget
    <3> QED
      BY <3>4, <1>tick
  <2> QED
    BY <2>4, <2>5
<1>4. ASSUME LaunchFails \/ Crash PROVE Goal
  <2>1. /\ UNCHANGED <<now, nextTick, status, joinAt, created>>
        /\ loop' = {} /\ faults' = faults + 1
    BY <1>4 DEF LaunchFails, Crash, Fault, rows
  <2>2. A' = A
    BY <2>1 DEF Windows, Owing, Noticed
  <2>3. S' \subseteq Windows(Owing(nextTick))
    BY <2>1 DEF Windows, Owing, Noticed
  <2>4. Cardinality(S') \in Nat /\ Cardinality(S') <= faults'
    BY <2>1, <2>3, <1>next
  <2>5. now' > nextTick' => Cardinality(S') < faults'
    <3> SUFFICES ASSUME now > nextTick PROVE Cardinality(S') < faults + 1
      BY <2>1
    <3>1. S' = S
      BY <2>1, <1>clock DEF Windows, Owing, Noticed
    <3> QED
      BY <3>1, <1>cards, <1>types
  <2> QED
    BY <2>1, <2>2, <2>4, <2>5, <1>tick, <1>clock, <1>cards, <1>types DEF Budget
<1>5. ASSUME TickMissed PROVE Goal
  <2>1. /\ now >= nextTick /\ ~up /\ loop = {} /\ nextTick' = nextTick + Period
        /\ UNCHANGED <<now, up, status, joinAt, created, loop>>
        /\ faults' = faults + 1
    BY <1>5, <1>clock DEF TickMissed, Fault, rows
  <2>2. A' = S
    <3>1. nextTick' - Period = nextTick
      BY <2>1, <1>types
    <3>2. Owing(nextTick - Period)' = Owing(nextTick) \ loop
      BY <2>1, <3>1 DEF Owing, Noticed
    <3> QED
      BY <2>1, <3>2 DEF Windows
  <2>3. S' \subseteq S \cup {m}
    <3> SUFFICES ASSUME NEW b \in (Owing(nextTick) \ loop)'
                 PROVE  (joinAt[b] - 1) \div Period \in S \cup {m}
      BY <2>1 DEF Windows
    <3>1. /\ b \in Bot /\ status[b] = "PENDING" /\ Noticed(b)
          /\ joinAt[b] <= nextTick + Period
      BY <2>1 DEF Owing, Noticed
    <3>2. CASE joinAt[b] <= nextTick
      BY <2>1, <3>1, <3>2 DEF Owing, Windows
    <3>3. CASE ~(joinAt[b] <= nextTick)
      <4>1. /\ joinAt[b] \in Nat /\ 0 < joinAt[b] /\ Period * m < joinAt[b]
            /\ joinAt[b] <= Period * m + Period
        BY <3>1, <3>3, <1>tick, <1>types
      <4> QED
        BY <4>1, WindowOf
    <3> QED
      BY <3>2, <3>3
  <2>4. Cardinality(S') <= Cardinality(S) + 1 /\ Cardinality(S') \in Nat
    BY <2>3, <1>cards, FewerWindows
  <2>5. Budget(m + 1)'
    BY <2>1, <2>2, <2>4, <1>tick, <1>clock, <1>cards, <1>types DEF Budget
  <2> QED
    BY <2>5, <1>tick
<1>6. ASSUME NEW d \in 1 .. MaxLate, Late, now' = now + d PROVE Goal
  <2>1. /\ now = nextTick /\ loop = {} /\ faults' = faults + 1
        /\ UNCHANGED <<nextTick, up, status, joinAt, created, loop>>
    BY <1>6 DEF Late, Fault, rows
  <2>2. A' = A /\ S' = S
    BY <2>1 DEF Windows, Owing, Noticed
  <2> QED
    BY <1>6, <2>1, <2>2, <1>tick, <1>clock, <1>cards, <1>types DEF Budget
<1>7. ASSUME Advance \/ Restart \/ UNCHANGED vars PROVE Goal
  <2>1. UNCHANGED <<nextTick, status, joinAt, created, loop, faults>>
    BY <1>7 DEF Advance, Restart, rows, vars
  <2>2. A' = A /\ S' = S
    BY <2>1 DEF Windows, Owing, Noticed
  <2>3. /\ nextTick' <= now' + Period /\ now' <= nextTick' + Period
        /\ now' > nextTick' => now > nextTick
    BY <1>7, <2>1, <1>clock, <1>types DEF Advance, Restart, vars
  <2>4. now' > nextTick' \/ ~up' => loop' = {}
    BY <1>7, <2>1, <2>3, <1>clock DEF Advance, Restart, vars
  <2> QED
    BY <2>1, <2>2, <2>3, <2>4, <1>tick, <1>cards DEF Budget
<1> QED
  BY <1>1, <1>2, <1>3, <1>4, <1>5, <1>6, <1>7 DEF Next, Late

\* As long as no tick is more than a period late (a later one is more than one
\* tick), the bots that are missed although they were created with notice lie
\* in no more windows than there were failed launches, crashes, late and missed
\* ticks.
THEOREM LossBudgetCorrect == MaxLate <= Period => (Spec => []LossBudget)
<1> DEFINE Inv == \E m \in Nat \ {0} : Budget(m)
<1> SUFFICES ASSUME MaxLate <= Period PROVE Spec => []LossBudget
  OBVIOUS
<1>1. Init => Inv
  <2> SUFFICES ASSUME Init PROVE Budget(1)
    OBVIOUS
  <2>1. \A t : Owing(t) = {}
    BY DEF Init, Owing
  <2>2. Windows({}) = {} /\ Cardinality({}) = 0
    BY FS_EmptySet DEF Windows
  <2>3. Windows(Owing(nextTick) \ loop) = {} /\ Windows(Owing(nextTick - Period)) = {}
    BY <2>1, <2>2
  <2> QED
    BY <2>2, <2>3, ScheduleConstants DEF Init, Budget
<1>2. TypeOK /\ TypeOK' /\ Inv /\ [Next]_vars => Inv'
  BY BudgetStep
<1>3. TypeOK /\ Inv => LossBudget
  <2> SUFFICES ASSUME TypeOK, NEW m \in Nat \ {0}, Budget(m) PROVE LossBudget
    OBVIOUS
  <2> DEFINE S == Windows(Owing(nextTick) \ loop)
             L == Windows({c \in Bot : Noticed(c) /\ Missed(c)})
  <2>types. /\ Period \in Nat \ {0} /\ now \in Nat /\ nextTick \in Nat
            /\ faults \in Nat /\ joinAt \in [Bot -> Nat] /\ created \in [Bot -> Nat]
    BY ScheduleConstants DEF TypeOK
  <2>tick. nextTick = Period * m /\ m \in Nat
    BY DEF Budget
  <2>1. IsFiniteSet(S) /\ Cardinality(S) \in Nat
    BY <2>tick, FiniteWindows
  <2>2. CASE now <= nextTick
    <3>1. L \subseteq S
      BY <2>2, <2>types DEF Windows, Missed, Owing
    <3>2. Cardinality(L) \in Nat /\ Cardinality(L) <= Cardinality(S)
      BY <2>1, <3>1, FewerWindows
    <3> QED
      BY <2>1, <2>types, <3>2 DEF Budget, LossBudget, Windows
  <2>3. CASE now > nextTick
    <3>1. L \subseteq S \cup {m}
      <4> SUFFICES ASSUME NEW b \in Bot, Noticed(b), Missed(b)
                   PROVE  (joinAt[b] - 1) \div Period \in S \cup {m}
        BY DEF Windows
      <4>1. /\ joinAt[b] \in Nat /\ 0 < joinAt[b] /\ joinAt[b] <= nextTick + Period
        BY <2>3, <2>types DEF Missed, Noticed, Budget
      <4>2. CASE joinAt[b] <= nextTick
        BY <4>2 DEF Missed, Owing, Windows
      <4>3. CASE ~(joinAt[b] <= nextTick)
        <5>1. Period * m < joinAt[b] /\ joinAt[b] <= Period * m + Period
          BY <4>1, <4>3, <2>tick, <2>types
        <5> QED
          BY <4>1, <5>1, <2>tick, WindowOf
      <4> QED
        BY <4>2, <4>3
    <3>2. Cardinality(L) \in Nat /\ Cardinality(L) <= Cardinality(S) + 1
      BY <2>1, <3>1, FewerWindows
    <3>3. Cardinality(S) < faults
      BY <2>3 DEF Budget
    <3>4. Cardinality(L) <= faults
      BY <2>1, <2>types, <3>2, <3>3
    <3> QED
      BY <3>4 DEF LossBudget, Windows
  <2> QED
    BY <2>2, <2>3, <2>types
<1> QED
  BY <1>1, <1>2, <1>3, TypeCorrect, PTL DEF Spec
=============================================================================
