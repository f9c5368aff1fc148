------------------------------- MODULE Listings -------------------------------
(***************************************************************************)
(* The two lists a client reads page by page until an answer says that     *)
(* there is no more: the bots (getBotList), newest first, and the          *)
(* transcript of a bot (getTranscript), whose pages are cut by worker-     *)
(* backend.  Both lists change between the pages, and between the queries  *)
(* of one page.                                                            *)
(***************************************************************************)
EXTENDS Integers

CONSTANTS
    Limits,        \* what "?limit=" of a list of bots may be
    DefaultLimit,  \* the limit without it: 10
    Sizes,         \* what "?limit=" of a transcript may be
    MaxPageSize,   \* ResultsPagination.max_page_size: 20
    PageSize,      \* PAGE_SIZE of the settings: 20
    MaxBots,       \* bound on the bots
    MaxFiles,      \* bound on the file logs of the bot
    MaxRows,       \* bound on the rows of a transcript
    MaxStores      \* bound on how often a transcript is stored

ASSUME ListingsConstants ==
    /\ Limits \subseteq Nat \ {0} /\ DefaultLimit \in Nat \ {0}
    /\ Sizes \subseteq Int \ {0}
    /\ MaxPageSize \in Nat \ {0} /\ PageSize \in Nat \ {0}
    /\ MaxBots \in Nat /\ MaxFiles \in Nat
    /\ MaxRows \in Nat /\ MaxStores \in Nat

VARIABLES
    bots,    \* the number of rows of "bots"; bot b is the b-th by createdAt
    lister,  \* the client that lists the bots
    files,   \* the file logs by created_at, and their transcripts; those that
             \* are shown have the id of the bot
    stores,  \* how often a transcript was stored
    reader   \* the client that reads the transcript of that bot

vars == <<bots, lister, files, stores, reader>>

Init ==
    /\ bots \in 0 .. MaxBots
    /\ lister = [at |-> "rest", page |-> 1, limit |-> DefaultLimit,
                 given |-> FALSE, first |-> 0, seen |-> {}]
    /\ files = [f \in 1 .. MaxFiles |-> [shown |-> FALSE, rows |-> 0, store |-> 0]]
    /\ stores = 0
    /\ reader = [at |-> "rest", page |-> 1, size |-> 1, file |-> 0, count |-> 0,
                 seen |-> {}, disturbed |-> FALSE]

-----------------------------------------------------------------------------
(* getBotList.                                                             *)

\* Mutant of Offset: pages counted from zero.
OffsetFromZero(page, limit) == page * limit

Offset(page, limit) == (page - 1) * limit

\* What + makes of a number and the string of a limit: the digits of both,
\* which Postgres and > read as a number again.
Concat(offset, limit) ==
    IF offset = 0 THEN limit
    ELSE LET digits == CHOOSE d \in 1 .. limit :
                            10 ^ (d - 1) <= limit /\ limit < 10 ^ d
         IN  offset * 10 ^ digits + limit

\* Nothing converts the query, so a limit that is given is a string; the
\* default is a number.
HasMoreBots(l, total) ==
    LET offset == Offset(l.page, l.limit)
    IN  total > IF l.given THEN Concat(offset, l.limit) ELSE offset + l.limit

\* Any client, at any time.
CreateBot ==
    /\ bots < MaxBots /\ bots' = bots + 1
    /\ UNCHANGED <<lister, files, stores, reader>>

StartListing ==
    /\ lister.at \in {"rest", "done"}
    /\ \/ lister' = [at |-> "find", page |-> 1, limit |-> DefaultLimit,
                     given |-> FALSE, first |-> bots, seen |-> {}]
       \/ \E limit \in Limits :
            lister' = [at |-> "find", page |-> 1, limit |-> limit,
                       given |-> TRUE, first |-> bots, seen |-> {}]
    /\ UNCHANGED <<bots, files, stores, reader>>

\* Newest first: bots - b rows come before bot b.
PageOfBots(l) ==
    LET offset == Offset(l.page, l.limit)
    IN  {b \in 1 .. bots : offset <= bots - b /\ bots - b < offset + l.limit}

FindAll ==
    /\ lister.at = "find"
    /\ lister' = [lister EXCEPT !.at = "count", !.seen = @ \cup PageOfBots(lister)]
    /\ UNCHANGED <<bots, files, stores, reader>>

\* The answer goes out, and the client asks for the next page.
Count ==
    /\ lister.at = "count"
    /\ \/ /\ HasMoreBots(lister, bots)
          /\ lister' = [lister EXCEPT !.at = "find", !.page = @ + 1]
       \/ /\ ~HasMoreBots(lister, bots)
          /\ lister' = [lister EXCEPT !.at = "done"]
    /\ UNCHANGED <<bots, files, stores, reader>>

-----------------------------------------------------------------------------
(* The writers of transcripts, see TranscriptPipeline.                     *)

\* Only the task writes the id of the bot on a file log, which the webhook may
\* have made long before: an older log may show up after a newer one.
ShowFile(f) ==
    /\ ~files[f].shown
    /\ files' = [files EXCEPT ![f].shown = TRUE]
    /\ reader' = [reader EXCEPT !.disturbed = TRUE]
    /\ UNCHANGED <<bots, lister, stores>>

DeleteRows(f) ==
    /\ files[f].rows > 0
    /\ files' = [files EXCEPT ![f].rows = 0]
    /\ reader' = [reader EXCEPT !.disturbed = TRUE]
    /\ UNCHANGED <<bots, lister, stores>>

InsertRows(f, n) ==
    /\ files[f].shown /\ files[f].rows = 0 /\ stores < MaxStores
    /\ stores' = stores + 1
    /\ files' = [files EXCEPT ![f].rows = n, ![f].store = stores + 1]
    /\ reader' = [reader EXCEPT !.disturbed = TRUE]
    /\ UNCHANGED <<bots, lister>>

-----------------------------------------------------------------------------
(* getTranscript.                                                          *)

\* get_page_size for a size other than 0.
CutTo(size) ==
    LET capped == IF size < MaxPageSize THEN size ELSE MaxPageSize
    IN  IF capped > 0 THEN capped ELSE PageSize

\* Paginator.validate_number: page 1 may be empty, no other.
NotFound(page, count, perPage) == page > 1 /\ count <= (page - 1) * perPage

\* Page.object_list.
Slice(r) ==
    LET perPage == CutTo(r.size)
        bottom  == (r.page - 1) * perPage
        top     == IF bottom + perPage < r.count THEN bottom + perPage
                                                 ELSE r.count
    IN  {k \in 1 .. files[r.file].rows : bottom < k /\ k <= top}

\* IdGrpcFilterBackend
Logs == {f \in 1 .. MaxFiles : files[f].shown}

\* Mutant of Newest: the list of the logs is not ordered by -created_at.
Oldest ==
    IF Logs = {} THEN 0 ELSE CHOOSE f \in Logs : \A g \in Logs : f <= g

\* fileLogs.results[0], or none.
Newest ==
    IF Logs = {} THEN 0 ELSE CHOOSE f \in Logs : \A g \in Logs : g <= f

StartReading ==
    /\ reader.at \in {"rest", "done", "refused"}
    /\ \E size \in Sizes :
         reader' = [at |-> "files", page |-> 1, size |-> size, file |-> 0,
                    count |-> 0, seen |-> {}, disturbed |-> FALSE]
    /\ UNCHANGED <<bots, lister, files, stores>>

\* listFileLogs; without a log the answer is empty.
ListFileLogs ==
    /\ reader.at = "files"
    /\ reader' = [reader EXCEPT !.at = IF Newest = 0 THEN "done" ELSE "count",
                                !.file = Newest]
    /\ UNCHANGED <<bots, lister, files, stores>>

\* listTranscriptionLogs: the count of the paginator, then the rows, of the
\* file log asked for (fileLogIdGrpcFilterBackend).
CountRows ==
    /\ reader.at = "count"
    /\ LET count == files[reader.file].rows
       IN  reader' = [reader EXCEPT
                        !.count = count,
                        !.at = IF NotFound(reader.page, count,
                                           CutTo(reader.size))
                               THEN "refused" ELSE "slice"]
    /\ UNCHANGED <<bots, lister, files, stores>>

\* The answer has hasMore, and the client asks for the next page.
FetchRows ==
    /\ reader.at = "slice"
    /\ LET rows == {<<files[reader.file].store, k>> : k \in Slice(reader)}
           read == [reader EXCEPT !.seen = @ \cup rows]
       IN  reader' = IF reader.count > reader.size * reader.page
                     THEN [read EXCEPT !.at = "files", !.page = @ + 1]
                     ELSE [read EXCEPT !.at = "done"]
    /\ UNCHANGED <<bots, lister, files, stores>>

Next ==
    \/ CreateBot \/ StartListing \/ FindAll \/ Count
    \/ \E f \in 1 .. MaxFiles : \/ ShowFile(f) \/ DeleteRows(f)
                                \/ \E n \in 0 .. MaxRows : InsertRows(f, n)
    \/ StartReading \/ ListFileLogs \/ CountRows \/ FetchRows

Spec == Init /\ [][Next]_vars

-----------------------------------------------------------------------------
(* Properties.                                                             *)

\* A client that leaves out the limit has, when told that there is no more,
\* every bot there was when it began, whatever was created while it read and
\* between the two queries of a page.  With a limit of its own it has them if
\* they fit into two pages: from page 2 on hasMore compares with the digits of
\* offset and limit put together (bot.service.ts:183-192).
ListComplete ==
    lister.at = "done" /\ (~lister.given \/ bots <= 2 * lister.limit) =>
        1 .. lister.first \subseteq lister.seen

\* A client that asks for pages no larger than worker-backend's has, when told
\* that there is no more or refused a page past the last, the whole transcript
\* of the newest archive, if no task wrote meanwhile.  (hasMore is computed from
\* the size asked for, bot.service.ts:391, not from the size of the pages that
\* pagination.py:13 makes of it.)
TranscriptComplete ==
    /\ reader.at \in {"done", "refused"} /\ ~reader.disturbed
    /\ reader.size <= MaxPageSize
    => reader.seen = IF Logs = {} THEN {}
                     ELSE LET last == CHOOSE f \in Logs : \A g \in Logs : g <= f
                          IN  {<<files[last].store, k>> : k \in 1 .. files[last].rows}
=============================================================================
