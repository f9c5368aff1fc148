---------------------------- MODULE ListingsProofs ----------------------------
(***************************************************************************)
(* The list of the bots is read whole, for every limit, any number of      *)
(* bots and any number created meanwhile; and so is a transcript that no   *)
(* task writes meanwhile, for every size and any number of rows.           *)
(***************************************************************************)
EXTENDS Listings, FiniteSetTheorems, TLAPS

ListerType ==
    /\ bots \in Nat
    /\ lister \in [at : {"rest", "find", "count", "done"}, page : Nat \ {0},
                   limit : Nat \ {0}, given : BOOLEAN, first : Nat,
                   seen : SUBSET Nat]
    /\ lister.first <= bots

\* Of the bots there were at the start, the client has those that n others or
\* more do not precede.  New bots only push a bot further down.
Covered(n) ==
    \A b \in 1 .. lister.first : bots - b < n => b \in lister.seen

\* The client has the pages before the one it asks for, and in the end, on the
\* condition of ListComplete, all.
ListerInv ==
    /\ ListerType
    /\ lister.at = "find" => Covered(Offset(lister.page, lister.limit))
    /\ lister.at = "count" =>
            Covered(Offset(lister.page, lister.limit) + lister.limit)
    /\ ListComplete

\* Page p ends where page p + 1 begins.
LEMMA OffsetStep ==
  ASSUME NEW p \in Nat \ {0}, NEW l \in Nat \ {0}
  PROVE  /\ Offset(p, l) \in Nat
         /\ Offset(p + 1, l) = Offset(p, l) + l
         /\ p = 1 => Offset(p, l) = 0
         /\ p # 1 => Offset(p, l) >= l
<1>1. Offset(p, l) = p * l - l /\ Offset(p + 1, l) = p * l
  BY DEF Offset
<1>2. p * l \in Nat /\ p * l >= l
  OBVIOUS
<1>3. p # 1 => p * l >= 2 * l
  <2> SUFFICES ASSUME p # 1 PROVE p * l >= 2 * l
    OBVIOUS
  <2>1. p - 2 \in Nat /\ (p - 2) * l \in Nat
    OBVIOUS
  <2>2. (p - 2) * l = p * l - 2 * l
    OBVIOUS
  <2> QED
    BY <2>1, <2>2
<1>4. p = 1 => p * l = l
  OBVIOUS
<1> QED
  BY <1>1, <1>2, <1>3, <1>4

\* A query that finds the page at hand extends what the client has by one page.
LEMMA FindAllStep == ListerInv /\ FindAll => ListerInv'
<1> SUFFICES ASSUME ListerInv, FindAll PROVE ListerInv'
  OBVIOUS
<1> DEFINE offset == Offset(lister.page, lister.limit)
<1>1. offset \in Nat
  BY OffsetStep DEF ListerInv, ListerType
<1>2. /\ bots' = bots
      /\ lister' = [lister EXCEPT !.at = "count",
                                  !.seen = lister.seen \cup PageOfBots(lister)]
  BY DEF FindAll
<1>3. ListerType'
  <2>1. lister.seen \cup PageOfBots(lister) \in SUBSET Nat
    BY DEF ListerInv, ListerType, PageOfBots
  <2>2. lister' = [at |-> "count", page |-> lister.page, limit |-> lister.limit,
                   given |-> lister.given, first |-> lister.first,
                   seen |-> lister.seen \cup PageOfBots(lister)]
    BY <1>2 DEF ListerInv, ListerType
  <2> QED
    BY <1>2, <2>1, <2>2 DEF ListerInv, ListerType
<1>4. /\ lister'.at = "count" /\ lister'.first = lister.first
      /\ lister'.page = lister.page /\ lister'.limit = lister.limit
      /\ lister'.seen = lister.seen \cup PageOfBots(lister)
  BY <1>2 DEF ListerInv, ListerType
<1>5. ASSUME NEW b \in 1 .. lister.first, bots - b < offset + lister.limit
      PROVE  b \in lister.seen \cup PageOfBots(lister)
  <2>1. CASE bots - b < offset
    BY <2>1 DEF FindAll, ListerInv, Covered
  <2>2. CASE ~(bots - b < offset)
    <3>1. b \in 1 .. bots /\ offset <= bots - b
      BY <1>1, <2>2 DEF ListerInv, ListerType
    <3> QED
      BY <1>5, <3>1 DEF PageOfBots
  <2> QED
    BY <2>1, <2>2
<1>6. Covered(Offset(lister.page, lister.limit) + lister.limit)'
  BY <1>2, <1>4, <1>5 DEF Covered, Offset
<1> QED
  BY <1>3, <1>4, <1>6 DEF ListerInv, ListComplete

\* When there is no more, the pages read hold every bot.
LEMMA CountStep == ListerInv /\ Count => ListerInv'
<1> SUFFICES ASSUME ListerInv, Count PROVE ListerInv'
  OBVIOUS
<1> DEFINE offset == Offset(lister.page, lister.limit)
<1>1. /\ offset \in Nat
      /\ Offset(lister.page + 1, lister.limit) = offset + lister.limit
      /\ lister.page = 1 => offset = 0
      /\ lister.page # 1 => offset >= lister.limit
  BY OffsetStep DEF ListerInv, ListerType
<1>2. bots' = bots /\ lister.at = "count" /\ Covered(offset + lister.limit)
  BY DEF Count, ListerInv
<1>3. CASE lister' = [lister EXCEPT !.at = "find", !.page = lister.page + 1]
  <2>1. ListerType'
    <3>1. lister' = [at |-> "find", page |-> lister.page + 1,
                     limit |-> lister.limit, given |-> lister.given,
                     first |-> lister.first, seen |-> lister.seen]
      BY <1>3 DEF ListerInv, ListerType
    <3> QED
      BY <1>2, <3>1 DEF ListerInv, ListerType
  <2>2. /\ lister'.at = "find" /\ lister'.page = lister.page + 1
        /\ lister'.limit = lister.limit /\ lister'.first = lister.first
        /\ lister'.seen = lister.seen
    BY <1>3 DEF ListerInv, ListerType
  <2>3. Covered(Offset(lister.page, lister.limit))'
    BY <1>1, <1>2, <2>2 DEF Covered
  <2> QED
    BY <2>1, <2>2, <2>3 DEF ListerInv, ListComplete
<1>4. CASE /\ ~HasMoreBots(lister, bots)
           /\ lister' = [lister EXCEPT !.at = "done"]
  <2>1. ListerType'
    BY <1>2, <1>4 DEF ListerInv, ListerType
  <2>2. /\ lister'.at = "done" /\ lister'.given = lister.given
        /\ lister'.limit = lister.limit /\ lister'.first = lister.first
        /\ lister'.seen = lister.seen
    BY <1>4 DEF ListerInv, ListerType
  <2>3. ASSUME ~lister.given \/ bots <= 2 * lister.limit
        PROVE  bots <= offset + lister.limit
    <3>1. CASE ~lister.given
      BY <1>1, <1>4, <3>1 DEF HasMoreBots, ListerInv, ListerType
    <3>2. CASE lister.page = 1
      BY <1>1, <1>4, <3>2 DEF HasMoreBots, Concat, ListerInv, ListerType
    <3>3. CASE lister.given /\ lister.page # 1
      BY <1>1, <2>3, <3>3 DEF ListerInv, ListerType
    <3> QED
      BY <3>1, <3>2, <3>3
  <2>4. ASSUME ~lister.given \/ bots <= 2 * lister.limit,
               NEW b \in 1 .. lister.first
        PROVE  b \in lister.seen
    <3>1. bots - b < offset + lister.limit
      BY <1>1, <2>3, <2>4 DEF ListerInv, ListerType
    <3> QED
      BY <1>2, <3>1 DEF Covered
  <2>5. ListComplete'
    BY <1>2, <2>2, <2>4 DEF ListComplete
  <2> QED
    BY <2>1, <2>2, <2>5 DEF ListerInv
<1> QED
  BY <1>3, <1>4 DEF Count

\* A new bot pushes every other one place down.
LEMMA CreateBotStep == ListerInv /\ CreateBot => ListerInv'
<1> SUFFICES ASSUME ListerInv, CreateBot PROVE ListerInv'
  OBVIOUS
<1>1. bots' = bots + 1 /\ lister' = lister
  BY DEF CreateBot
<1>2. ListerType'
  BY <1>1 DEF ListerInv, ListerType
<1>3. ASSUME NEW n \in Nat, Covered(n) PROVE Covered(n)'
  BY <1>1, <1>3 DEF Covered, ListerInv, ListerType
<1>4. /\ Offset(lister.page, lister.limit) \in Nat
      /\ Offset(lister.page, lister.limit) + lister.limit \in Nat
  BY OffsetStep DEF ListerInv, ListerType
<1>5. ListComplete'
  BY <1>1 DEF ListerInv, ListerType, ListComplete
<1>6. lister'.at = "find" => Covered(Offset(lister.page, lister.limit))'
  BY <1>1, <1>3, <1>4 DEF ListerInv, Covered
<1>7. lister'.at = "count" =>
        Covered(Offset(lister.page, lister.limit) + lister.limit)'
  BY <1>1, <1>3, <1>4 DEF ListerInv, Covered
<1> QED
  BY <1>2, <1>5, <1>6, <1>7 DEF ListerInv

\* A client begins with no page.
LEMMA StartListingStep == ListerInv /\ StartListing => ListerInv'
<1> SUFFICES ASSUME ListerInv, StartListing PROVE ListerInv'
  OBVIOUS
<1> USE ListingsConstants
<1>1. PICK limit \in Nat \ {0}, given \in BOOLEAN :
        lister' = [at |-> "find", page |-> 1, limit |-> limit,
                   given |-> given, first |-> bots, seen |-> {}]
  BY DEF StartListing
<1>2. bots' = bots
  BY DEF StartListing
<1>3. ListerType'
  BY <1>1, <1>2 DEF ListerInv, ListerType
<1>4. Offset(lister'.page, lister'.limit) = 0
  BY <1>1, OffsetStep
<1>5. Covered(Offset(lister.page, lister.limit))'
  BY <1>1, <1>2, <1>4 DEF Covered, ListerInv, ListerType
<1> QED
  BY <1>1, <1>3, <1>5 DEF ListerInv, ListComplete

\* A client that follows hasMore has every bot there was when it began: always
\* with the default limit, within two pages with one of its own.
THEOREM ListCompleteCorrect == Spec => []ListComplete
<1>1. Init => ListerInv
  BY ListingsConstants DEF Init, ListerInv, ListerType, ListComplete
<1>2. ListerInv /\ [Next]_vars => ListerInv'
  <2> SUFFICES ASSUME ListerInv, [Next]_vars PROVE ListerInv'
    OBVIOUS
  <2>1. ASSUME bots' = bots, lister' = lister PROVE ListerInv'
    BY <2>1 DEF ListerInv, ListerType, Covered, ListComplete, Offset
  <2>2. CASE StartReading \/ ListFileLogs \/ CountRows \/ FetchRows
    BY <2>1, <2>2 DEF StartReading, ListFileLogs, CountRows, FetchRows
  <2>3. ASSUME NEW f \in 1 .. MaxFiles, ShowFile(f) \/ DeleteRows(f)
        PROVE  ListerInv'
    BY <2>1, <2>3 DEF ShowFile, DeleteRows
  <2>4. ASSUME NEW f \in 1 .. MaxFiles, NEW n \in 0 .. MaxRows, InsertRows(f, n)
        PROVE  ListerInv'
    BY <2>1, <2>4 DEF InsertRows
  <2>5. CASE UNCHANGED vars
    BY <2>1, <2>5 DEF vars
  <2> QED
    BY <2>2, <2>3, <2>4, <2>5, FindAllStep, CountStep, CreateBotStep,
       StartListingStep DEF Next
<1>3. ListerInv => ListComplete
  BY DEF ListerInv
<1> QED
  BY <1>1, <1>2, <1>3, PTL DEF Spec

-----------------------------------------------------------------------------
(* The transcript of a bot is read whole.                                  *)

\* A set of numbers up to n has a greatest one: otherwise the numbers below
\* some member would go on for ever, and x + 1 for x would map those up to n,
\* finitely many, into themselves without the zero.
LEMMA Greatest ==
    ASSUME NEW n \in Nat, NEW S, S \subseteq 1 .. n, S # {}
    PROVE  \E f \in S : \A g \in S : g <= f
<1> SUFFICES ASSUME \A f \in S : \E g \in S : f < g PROVE FALSE
  <2>1. \A f \in S, g \in S : g <= f \/ f < g
    OBVIOUS
  <2> QED
    BY <2>1
<1> DEFINE Below == {x \in 0 .. n : \E y \in S : x <= y}
           up == [x \in Below |-> x + 1]
<1>1. 0 \in Below /\ \A x \in Below : x \in Nat /\ x + 1 \in Below
  <2>1. 0 \in Below
    <3>1. PICK y \in S : TRUE
      OBVIOUS
    <3>2. 0 \in 0 .. n /\ 0 <= y
      OBVIOUS
    <3> QED
      BY <3>1, <3>2
  <2>2. ASSUME NEW x \in Below PROVE x \in Nat /\ x + 1 \in Below
    <3>1. PICK y \in S : x <= y
      OBVIOUS
    <3>2. PICK z \in S : y < z
      OBVIOUS
    <3> QED
      BY <3>1, <3>2
  <2> QED
    BY <2>1, <2>2
<1>2. IsFiniteSet(Below) /\ IsFiniteSet(Below \ {0})
  <2>1. IsFiniteSet(0 .. n)
    BY FS_Interval
  <2>2. Below \subseteq 0 .. n /\ Below \ {0} \subseteq 0 .. n
    OBVIOUS
  <2> QED
    BY <2>1, <2>2, FS_Subset
<1>3. Cardinality(Below) \in Nat /\ Cardinality(Below \ {0}) = Cardinality(Below) - 1
  BY <1>1, <1>2, FS_CardinalityType, FS_RemoveElement
<1>4. Cardinality(Below \ {0}) < Cardinality(Below)
  BY <1>3
<1>5. up \in [Below -> Below \ {0}]
  BY <1>1
<1>6. \E x, y \in Below : x # y /\ up[x] = up[y]
  <2> HIDE DEF Below, up
  <2> QED
    BY <1>2, <1>4, <1>5, FS_PigeonHole
<1> QED
  BY <1>1, <1>6

\* The newest of the logs that are shown, if there is one.
LEMMA NewestIsLog ==
    ASSUME MaxFiles \in Nat
    PROVE  /\ Newest \in 0 .. MaxFiles
           /\ Newest = 0 <=> Logs = {}
           /\ Logs # {} => Newest = CHOOSE f \in Logs : \A g \in Logs : g <= f
<1>1. Logs \subseteq 1 .. MaxFiles
  BY DEF Logs
<1>2. CASE Logs = {}
  BY <1>2 DEF Newest
<1>3. CASE Logs # {}
  <2>1. \E f \in Logs : \A g \in Logs : g <= f
    BY <1>1, <1>3, Greatest
  <2>2. Newest = CHOOSE f \in Logs : \A g \in Logs : g <= f
    BY <1>3 DEF Newest
  <2>3. Newest \in Logs
    BY <2>1, <2>2
  <2>4. Newest \in 0 .. MaxFiles /\ Newest # 0
    BY <1>1, <2>3
  <2> QED
    BY <1>3, <2>2, <2>4
<1> QED
  BY <1>2, <1>3

ReaderType ==
    /\ files \in [1 .. MaxFiles -> [shown : BOOLEAN, rows : Nat, store : Nat]]
    /\ stores \in Nat
    /\ reader \in [at : {"rest", "files", "count", "slice", "done", "refused"},
                   page : Nat \ {0}, size : Int \ {0}, file : 0 .. MaxFiles,
                   count : Nat, seen : SUBSET (Nat \X Nat), disturbed : BOOLEAN]
    /\ reader.at \in {"count", "slice"} => reader.file # 0

\* The first n rows of the newest transcript.
FirstRows(n) ==
    IF Logs = {} THEN {}
    ELSE {<<files[Newest].store, k>> :
            k \in {i \in 1 .. files[Newest].rows : i <= n}}

\* A client whom no task disturbed, and whose pages are no larger than the
\* cap, has the rows of the pages before the one it asks for, of the newest
\* transcript throughout.
ReaderInv ==
    /\ ReaderType
    /\ ~reader.disturbed /\ reader.size <= MaxPageSize =>
         /\ reader.at \in {"files", "count", "slice"} =>
              reader.seen = FirstRows((reader.page - 1) * CutTo(reader.size))
         /\ reader.at \in {"count", "slice"} => reader.file = Newest
         /\ reader.at = "slice" => reader.count = files[Newest].rows
    /\ TranscriptComplete

\* The pages of worker-backend have at least a row, and as many as were asked
\* for unless that is past the cap or below zero.
LEMMA PagesAsAsked ==
    ASSUME NEW size \in Int \ {0}
    PROVE  /\ CutTo(size) \in Nat \ {0}
           /\ 0 < size /\ size <= MaxPageSize => CutTo(size) = size
  BY ListingsConstants DEF CutTo

\* The transcript that TranscriptComplete asks for.
Transcript ==
    IF Logs = {} THEN {}
    ELSE LET last == CHOOSE f \in Logs : \A g \in Logs : g <= f
         IN  {<<files[last].store, k>> : k \in 1 .. files[last].rows}

\* Who has the rows up to the last has the transcript.
LEMMA AllRows ==
    ASSUME ReaderType, NEW n \in Int, Logs # {} => files[Newest].rows <= n
    PROVE  FirstRows(n) = Transcript
<1>1. CASE Logs = {}
  BY <1>1 DEF FirstRows, Transcript
<1>2. CASE Logs # {}
  <2>1. Newest \in 1 .. MaxFiles
        /\ Newest = CHOOSE f \in Logs : \A g \in Logs : g <= f
    BY <1>2, NewestIsLog, ListingsConstants
  <2>2. files[Newest].rows \in Nat
    BY <2>1 DEF ReaderType
  <2>3. {i \in 1 .. files[Newest].rows : i <= n} = 1 .. files[Newest].rows
    BY <1>2, <2>2
  <2> QED
    BY <1>2, <2>1, <2>3 DEF FirstRows, Transcript
<1> QED
  BY <1>1, <1>2

\* A client starts with no row.
LEMMA StartReadingStep == ReaderInv /\ StartReading => ReaderInv'
<1> SUFFICES ASSUME ReaderInv, StartReading PROVE ReaderInv'
  OBVIOUS
<1>1. PICK size \in Sizes :
        reader' = [at |-> "files", page |-> 1, size |-> size, file |-> 0,
                   count |-> 0, seen |-> {}, disturbed |-> FALSE]
  BY DEF StartReading
<1>2. UNCHANGED <<files, stores>> /\ size \in Int \ {0}
  BY ListingsConstants DEF StartReading
<1>3. ReaderType'
  BY <1>1, <1>2, ListingsConstants DEF ReaderInv, ReaderType
<1>4. FirstRows(0)' = {}
  <2>1. ~ \E i \in 1 .. files'[Newest'].rows : i <= 0
    OBVIOUS
  <2> QED
    BY <2>1 DEF FirstRows
<1>5. (reader'.page - 1) * CutTo(reader'.size) = 0
  BY <1>1, <1>2, PagesAsAsked
<1>6. reader'.seen = FirstRows((reader.page - 1) * CutTo(reader.size))'
  BY <1>1, <1>4, <1>5 DEF FirstRows
<1> QED
  BY <1>1, <1>3, <1>6 DEF ReaderInv, TranscriptComplete

\* The newest log is the same for every page.
LEMMA ListFileLogsStep == ReaderInv /\ ListFileLogs => ReaderInv'
<1> SUFFICES ASSUME ReaderInv, ListFileLogs PROVE ReaderInv'
  OBVIOUS
<1>1. /\ reader' = [reader EXCEPT !.at = IF Newest = 0 THEN "done" ELSE "count",
                                  !.file = Newest]
      /\ UNCHANGED <<files, stores>> /\ reader.at = "files"
  BY DEF ListFileLogs
<1>2. /\ Newest \in 0 .. MaxFiles
      /\ Newest = 0 <=> Logs = {}
  BY NewestIsLog, ListingsConstants
<1>3. /\ reader'.at = IF Newest = 0 THEN "done" ELSE "count"
      /\ reader'.file = Newest /\ reader'.page = reader.page
      /\ reader'.size = reader.size /\ reader'.seen = reader.seen
      /\ reader'.disturbed = reader.disturbed
  BY <1>1 DEF ReaderInv, ReaderType
<1>4. ReaderType'
  BY <1>1, <1>2 DEF ReaderInv, ReaderType
<1>5. Newest' = Newest /\ Logs' = Logs
  BY <1>1 DEF Newest, Logs
<1>6. ASSUME ~reader.disturbed, reader.size <= MaxPageSize
      PROVE  reader'.seen = FirstRows((reader.page - 1) * CutTo(reader.size))'
  <2>1. reader.seen = FirstRows((reader.page - 1) * CutTo(reader.size))
    BY <1>1, <1>6 DEF ReaderInv
  <2> QED
    BY <1>1, <1>3, <1>5, <2>1 DEF FirstRows
<1>7. TranscriptComplete'
  BY <1>1, <1>2, <1>3, <1>5, <1>6 DEF TranscriptComplete, FirstRows
<1> QED
  BY <1>3, <1>4, <1>5, <1>6, <1>7 DEF ReaderInv

\* A page past the last is refused to one who has every row.
LEMMA CountRowsStep == ReaderInv /\ CountRows => ReaderInv'
<1> SUFFICES ASSUME ReaderInv, CountRows PROVE ReaderInv'
  OBVIOUS
<1> DEFINE count == files[reader.file].rows
           offset == (reader.page - 1) * CutTo(reader.size)
<1>1. /\ reader' = [reader EXCEPT !.count = count,
                        !.at = IF NotFound(reader.page, count, CutTo(reader.size))
                               THEN "refused" ELSE "slice"]
      /\ UNCHANGED <<files, stores>> /\ reader.at = "count"
  BY DEF CountRows
<1>2. count \in Nat
  BY <1>1 DEF ReaderInv, ReaderType
<1>3. /\ reader'.at = IF NotFound(reader.page, count, CutTo(reader.size))
                      THEN "refused" ELSE "slice"
      /\ reader'.file = reader.file /\ reader'.page = reader.page
      /\ reader'.size = reader.size /\ reader'.seen = reader.seen
      /\ reader'.disturbed = reader.disturbed /\ reader'.count = count
  BY <1>1 DEF ReaderInv, ReaderType
<1>4. ReaderType'
  BY <1>1, <1>2 DEF ReaderInv, ReaderType
<1>5. Newest' = Newest /\ Logs' = Logs
  BY <1>1 DEF Newest, Logs
<1>6. ASSUME ~reader.disturbed, reader.size <= MaxPageSize
      PROVE  /\ reader'.file = Newest /\ reader'.count = files[Newest].rows
             /\ reader'.seen = FirstRows((reader.page - 1) * CutTo(reader.size))'
  <2>1. reader.seen = FirstRows(offset) /\ reader.file = Newest
    BY <1>1, <1>6 DEF ReaderInv
  <2> QED
    BY <1>1, <1>3, <1>5, <2>1 DEF FirstRows
<1>7. TranscriptComplete'
  <2> SUFFICES ASSUME ~reader.disturbed, reader.size <= MaxPageSize,
                      NotFound(reader.page, count, CutTo(reader.size))
               PROVE  TranscriptComplete'
    BY <1>3 DEF TranscriptComplete
  <2>1. files[Newest].rows <= offset
    BY <1>1, <1>3, <1>6 DEF NotFound
  <2>2. offset \in Int
    BY PagesAsAsked DEF ReaderInv, ReaderType
  <2>3. reader'.seen = FirstRows(offset)
    BY <1>1, <1>3 DEF ReaderInv
  <2>4. reader'.seen = Transcript
    BY <2>1, <2>2, <2>3, AllRows DEF ReaderInv
  <2> QED
    BY <1>1, <1>5, <2>4 DEF TranscriptComplete, Transcript
<1> QED
  BY <1>1, <1>3, <1>4, <1>5, <1>6, <1>7 DEF ReaderInv

\* hasMore, which compares with the size asked for, ends the pages exactly when
\* they hold every row, and never for a size below zero.
LEMMA FetchRowsStep == ReaderInv /\ FetchRows => ReaderInv'
<1> SUFFICES ASSUME ReaderInv, FetchRows PROVE ReaderInv'
  OBVIOUS
<1> DEFINE rows == {<<files[reader.file].store, k>> : k \in Slice(reader)}
           more == reader.count > reader.size * reader.page
           perPage == CutTo(reader.size)
           offset == (reader.page - 1) * perPage
<1>1. /\ reader' = IF more
                    THEN [reader EXCEPT !.seen = @ \cup rows,
                                        !.at = "files", !.page = @ + 1]
                    ELSE [reader EXCEPT !.seen = @ \cup rows, !.at = "done"]
      /\ UNCHANGED <<files, stores>> /\ reader.at = "slice"
  BY DEF FetchRows, ReaderInv, ReaderType
<1>2. /\ reader.page \in Nat \ {0} /\ reader.size \in Int \ {0}
      /\ reader.count \in Nat /\ reader.file \in 1 .. MaxFiles
      /\ files[reader.file].rows \in Nat /\ files[reader.file].store \in Nat
  BY <1>1 DEF ReaderInv, ReaderType
<1>3. /\ perPage \in Nat \ {0} /\ offset \in Nat
      /\ offset + perPage = reader.page * perPage
      /\ offset + perPage = (reader.page + 1 - 1) * perPage
  BY <1>2, PagesAsAsked
<1>4. rows \subseteq Nat \X Nat
  BY <1>2 DEF Slice
<1>5. /\ reader'.at = IF more THEN "files" ELSE "done"
      /\ reader'.page = IF more THEN reader.page + 1 ELSE reader.page
      /\ reader'.file = reader.file /\ reader'.size = reader.size
      /\ reader'.seen = reader.seen \cup rows
      /\ reader'.disturbed = reader.disturbed
  BY <1>1 DEF ReaderInv, ReaderType
<1>6. ReaderType'
  <2>1. reader.seen \cup rows \in SUBSET (Nat \X Nat)
    BY <1>4 DEF ReaderInv, ReaderType
  <2> HIDE DEF rows, more
  <2>2. CASE more
    <3>1. reader.page + 1 \in Nat \ {0}
      BY <1>2
    <3> QED
      BY <1>1, <2>1, <2>2, <3>1 DEF ReaderInv, ReaderType
  <2>3. CASE ~more
    BY <1>1, <2>1, <2>3 DEF ReaderInv, ReaderType
  <2> QED
    BY <2>2, <2>3
<1>7. Newest' = Newest /\ Logs' = Logs
  BY <1>1 DEF Newest, Logs
<1>8. ASSUME ~reader.disturbed, reader.size <= MaxPageSize
      PROVE  reader'.seen = FirstRows(offset + perPage)
  <2>1. /\ reader.seen = FirstRows(offset) /\ reader.file = Newest
        /\ reader.count = files[Newest].rows
    BY <1>1, <1>8 DEF ReaderInv
  <2>2. Logs # {}
    BY <1>2, <2>1, NewestIsLog, ListingsConstants
  <2>3. Slice(reader) = {k \in 1 .. files[Newest].rows :
                            offset < k /\ k <= offset + perPage}
    BY <1>2, <1>3, <2>1 DEF Slice
  <2> QED
    BY <1>2, <1>3, <1>5, <2>1, <2>2, <2>3 DEF FirstRows
<1>9. ASSUME ~reader.disturbed, reader.size <= MaxPageSize, ~more
      PROVE  reader'.seen = Transcript
  <2>1. reader.count = files[Newest].rows
    BY <1>1, <1>9 DEF ReaderInv
  <2>2. 0 < reader.size
    <3> SUFFICES ASSUME reader.size < 0 PROVE FALSE
      BY <1>2
    <3>1. reader.size * reader.page < 0
      BY <1>2
    <3> QED
      BY <1>2, <1>9, <3>1
  <2>3. perPage = reader.size
    BY <1>2, <1>9, <2>2, PagesAsAsked
  <2>4. reader.count <= offset + perPage
    BY <1>2, <1>3, <1>9, <2>3
  <2> QED
    BY <1>3, <1>8, <1>9, <2>1, <2>4, AllRows DEF ReaderInv
<1>10. ASSUME ~reader.disturbed, reader.size <= MaxPageSize, more
       PROVE  reader'.seen = FirstRows((reader.page - 1) * CutTo(reader.size))'
  <2>1. (reader'.page - 1) * CutTo(reader'.size) = offset + perPage
    <3>1. reader'.page = reader.page + 1 /\ reader'.size = reader.size
      BY <1>5, <1>10
    <3>2. CutTo(reader'.size) = perPage
      BY <3>1
    <3> HIDE DEF perPage, more
    <3>3. (reader'.page - 1) * CutTo(reader'.size) = reader.page * perPage
      BY <1>2, <1>3, <3>1, <3>2
    <3> QED
      BY <1>3, <3>3
  <2> QED
    BY <1>1, <1>7, <1>8, <1>10, <2>1 DEF FirstRows
<1>11. TranscriptComplete'
  BY <1>1, <1>5, <1>7, <1>9 DEF TranscriptComplete, Transcript
<1> QED
  BY <1>5, <1>6, <1>10, <1>11 DEF ReaderInv

\* A task that writes a transcript disturbs the client.
LEMMA WriterStep ==
    ASSUME ReaderInv, NEW f \in 1 .. MaxFiles,
           \/ ShowFile(f) \/ DeleteRows(f)
           \/ \E n \in 0 .. MaxRows : InsertRows(f, n)
    PROVE  ReaderInv'
<1>1. reader' = [reader EXCEPT !.disturbed = TRUE]
  BY DEF ShowFile, DeleteRows, InsertRows
<1>2. /\ files' \in [1 .. MaxFiles -> [shown : BOOLEAN, rows : Nat, store : Nat]]
      /\ stores' \in Nat
  <2>1. CASE ShowFile(f)
    BY <2>1 DEF ShowFile, ReaderInv, ReaderType
  <2>2. CASE DeleteRows(f)
    BY <2>2 DEF DeleteRows, ReaderInv, ReaderType
  <2>3. ASSUME NEW n \in 0 .. MaxRows, InsertRows(f, n)
        PROVE  /\ files' \in [1 .. MaxFiles ->
                                [shown : BOOLEAN, rows : Nat, store : Nat]]
               /\ stores' \in Nat
    <3>1. n \in Nat /\ stores + 1 \in Nat
      BY ListingsConstants DEF ReaderInv, ReaderType
    <3>2. files' = [files EXCEPT ![f] =
                       [files[f] EXCEPT !.rows = n, !.store = stores + 1]]
      BY <2>3 DEF InsertRows, ReaderInv, ReaderType
    <3>3. [files[f] EXCEPT !.rows = n, !.store = stores + 1]
            \in [shown : BOOLEAN, rows : Nat, store : Nat]
      BY <3>1 DEF ReaderInv, ReaderType
    <3>4. files \in [1 .. MaxFiles -> [shown : BOOLEAN, rows : Nat, store : Nat]]
      BY DEF ReaderInv, ReaderType
    <3>5. stores' = stores + 1
      BY <2>3 DEF InsertRows
    <3> QED
      BY <3>1, <3>2, <3>3, <3>4, <3>5
  <2> QED
    BY <2>1, <2>2, <2>3
<1>3. ReaderType' /\ reader'.disturbed
  BY <1>1, <1>2 DEF ReaderInv, ReaderType
<1> QED
  BY <1>3 DEF ReaderInv, TranscriptComplete

\* A client that follows hasMore, whom no task disturbs, has the whole newest
\* transcript, for every size of pages up to the cap and however long it is.
THEOREM TranscriptCompleteCorrect == Spec => []TranscriptComplete
<1>1. Init => ReaderInv
  BY ListingsConstants DEF Init, ReaderInv, ReaderType, TranscriptComplete
<1>2. ReaderInv /\ [Next]_vars => ReaderInv'
  <2> SUFFICES ASSUME ReaderInv, [Next]_vars PROVE ReaderInv'
    OBVIOUS
  <2>1. ASSUME UNCHANGED <<files, stores, reader>> PROVE ReaderInv'
    <3>1. Newest' = Newest /\ Logs' = Logs
      BY <2>1 DEF Newest, Logs
    <3> QED
      BY <2>1, <3>1 DEF ReaderInv, ReaderType, FirstRows, TranscriptComplete, CutTo
  <2>2. CASE CreateBot \/ StartListing \/ FindAll \/ Count \/ UNCHANGED vars
    BY <2>1, <2>2 DEF CreateBot, StartListing, FindAll, Count, vars
  <2> QED
    BY <2>2, WriterStep, StartReadingStep, ListFileLogsStep, CountRowsStep,
       FetchRowsStep DEF Next
<1>3. ReaderInv => TranscriptComplete
  BY DEF ReaderInv
<1> QED
  BY <1>1, <1>2, <1>3, PTL DEF Spec
=============================================================================
