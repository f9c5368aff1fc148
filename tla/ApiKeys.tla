------------------------------- MODULE ApiKeys -------------------------------
(***************************************************************************)
(* The API keys of api-backend: ApiKeyService, its REST controller and the *)
(* guard of the bot routes (ApiKeyGuard).  All three work on the table     *)
(* api_keys, through statements that other requests can come between.  A   *)
(* step of the model is one statement with the code up to the next await.  *)
(***************************************************************************)
EXTENDS Naturals, FiniteSets

CONSTANTS
    User,      \* the users of the table users
    KeyId,     \* ids the rows of api_keys may get (bounds the keys)
    Generator, \* requests POST /api-keys that can overlap
    Caller,    \* requests to the bot routes that can overlap
    None,      \* null
    KeyLimit   \* the keys a user may have; 5 in the code

ASSUME ApiKeyConstants ==
    /\ None \notin User \cup KeyId
    /\ KeyLimit \in Nat \ {0}

ASSUME FiniteRequests == IsFiniteSet(KeyId) /\ IsFiniteSet(Generator)

VARIABLES
    apiKeys,  \* the table api_keys
    generate, \* the requests that are in generateApiKey
    guard,    \* the requests that are in ApiKeyGuard or in the route behind it
    revoking  \* the keys a revokeApiKey has found and not yet updated

vars == <<apiKeys, generate, guard, revoking>>

-----------------------------------------------------------------------------
(* The data.                                                               *)

\* expiresAt is null, or lies ahead, or has passed; userId None is no row.
ApiKey == [userId: User \cup {None}, isActive: BOOLEAN,
           expiresAt: {"never", "later", "past"}]

NoRow == [userId |-> None, isActive |-> FALSE, expiresAt |-> "never"]

GuardState == [pc: {"idle", "touch", "admitted"}, key: KeyId \cup {None},
               row: ApiKey]

GuardIdle == [pc |-> "idle", key |-> None, row |-> NoRow]

TypeOK ==
    /\ apiKeys \in [KeyId -> ApiKey]
    /\ generate \in [Generator -> User \cup {None}]
    /\ guard \in [Caller -> GuardState]
    /\ revoking \in SUBSET KeyId

Init ==
    /\ apiKeys = [k \in KeyId |-> NoRow]
    /\ generate = [g \in Generator |-> None]
    /\ guard = [c \in Caller |-> GuardIdle]
    /\ revoking = {}

Exists(k) == apiKeys[k].userId # None

KeysOf(u) == {k \in KeyId : apiKeys[k].userId = u}

-----------------------------------------------------------------------------
(* generateApiKey.                                                         *)

\* count(...): every key of the user counts, revoked and expired ones too.
CountedActive(u) == {k \in KeysOf(u) : apiKeys[k].isActive}
Counted(u) == KeysOf(u)

\* A user at the limit is refused, and the request is over.
GenerateCount(g, u) ==
    /\ generate[g] = None
    /\ Cardinality(Counted(u)) < KeyLimit
    /\ generate' = [generate EXCEPT ![g] = u]
    /\ UNCHANGED <<apiKeys, guard, revoking>>

\* create(...): expiresAt is what the client asked for, passed or not.
GenerateCreate(g, k) ==
    /\ generate[g] # None /\ ~Exists(k)
    /\ \E e \in {"never", "later", "past"} :
          apiKeys' = [apiKeys EXCEPT ![k] =
                        [userId |-> generate[g], isActive |-> TRUE, expiresAt |-> e]]
    /\ generate' = [generate EXCEPT ![g] = None]
    /\ UNCHANGED <<guard, revoking>>

\* The insert fails, or the process restarts.
GenerateFail(g) ==
    /\ generate[g] # None
    /\ generate' = [generate EXCEPT ![g] = None]
    /\ UNCHANGED <<apiKeys, guard, revoking>>

-----------------------------------------------------------------------------
(* ApiKeyGuard.canActivate, with validateApiKey.                           *)

Expired(row) == row.expiresAt = "past"

\* What findOne and the comparison of expiresAt let through.
ValidUnexpired(row) == ~Expired(row)
Valid(row) == row.isActive /\ ~Expired(row)

\* A request with any other key, or none, is refused and over.
GuardFind(c, k) ==
    /\ guard[c].pc = "idle"
    /\ Exists(k) /\ Valid(apiKeys[k])
    /\ guard' = [guard EXCEPT ![c] = [pc |-> "touch", key |-> k, row |-> apiKeys[k]]]
    /\ UNCHANGED <<apiKeys, generate, revoking>>

\* update({ lastUsedAt }) writes the columns that change and leaves the others
\* of the row as they are by now.
TouchedRow(now, read) == read
TouchedExpiry(now, read) == [now EXCEPT !.expiresAt = "used"]
Touched(now, read) == now

\* No route asks for permissions, so the record found admits the request.
GuardTouch(c) ==
    LET k == guard[c].key
    IN  /\ guard[c].pc = "touch"
        /\ apiKeys' = [apiKeys EXCEPT ![k] = Touched(@, guard[c].row)]
        /\ guard' = [guard EXCEPT ![c].pc = "admitted"]
        /\ UNCHANGED <<generate, revoking>>

\* The route is done, a statement fails, or the process restarts.
GuardEnd(c) ==
    /\ guard[c].pc # "idle"
    /\ guard' = [guard EXCEPT ![c] = GuardIdle]
    /\ UNCHANGED <<apiKeys, generate, revoking>>

-----------------------------------------------------------------------------
(* revokeApiKey.                                                           *)

RevokeFind(k) ==
    /\ Exists(k)
    /\ revoking' = revoking \cup {k}
    /\ UNCHANGED <<apiKeys, generate, guard>>

RevokeUpdate(k) ==
    /\ k \in revoking
    /\ apiKeys' = [apiKeys EXCEPT ![k].isActive = FALSE]
    /\ revoking' = revoking \ {k}
    /\ UNCHANGED <<generate, guard>>

RevokeFail(k) ==
    /\ k \in revoking
    /\ revoking' = revoking \ {k}
    /\ UNCHANGED <<apiKeys, generate, guard>>

\* The clock.
Elapse(k) ==
    /\ apiKeys[k].expiresAt = "later"
    /\ apiKeys' = [apiKeys EXCEPT ![k].expiresAt = "past"]
    /\ UNCHANGED <<generate, guard, revoking>>

-----------------------------------------------------------------------------
GenerateStep(g) ==
    \/ \E u \in User : GenerateCount(g, u)
    \/ \E k \in KeyId : GenerateCreate(g, k)
    \/ GenerateFail(g)

GuardStep(c) ==
    \/ \E k \in KeyId : GuardFind(c, k)
    \/ GuardTouch(c)
    \/ GuardEnd(c)

RevokeStep(k) == RevokeFind(k) \/ RevokeUpdate(k) \/ RevokeFail(k)

Next ==
    \/ \E g \in Generator : GenerateStep(g)
    \/ \E c \in Caller : GuardStep(c)
    \/ \E k \in KeyId : RevokeStep(k) \/ Elapse(k)

Spec == Init /\ [][Next]_vars

-----------------------------------------------------------------------------
(* Properties.                                                             *)

\* The requests that have counted the keys of u and are going to add one.
Pending(u) == {g \in Generator : generate[g] = u}

\* The comment of generateApiKey (api-key.service.ts:27) and the answer
\* "Maximum number of API keys reached": nobody has more keys than the limit.
KeyLimitHolds == \A u \in User : Cardinality(KeysOf(u)) <= KeyLimit

\* What the count before the create (api-key.service.ts:28) does give: a user
\* is over the limit by at most the requests that overlap, less one, and no
\* sequence of requests adds up to more.
KeyBudget ==
    \A u \in User : Cardinality(KeysOf(u)) < KeyLimit + Cardinality(Generator)

Full(u) == Cardinality(KeysOf(u)) >= KeyLimit /\ Pending(u) = {}

\* Revoked and expired keys are counted and never deleted: a user who has
\* reached the limit gets no key any more, whatever is revoked.
FullUserStaysFull ==
    \A u \in User, k \in KeyId :
        [](Full(u) /\ k \notin KeysOf(u) => [](k \notin KeysOf(u)))

\* A revoked key is never active again: the guard saves a record it has found
\* earlier (api-key.service.ts:75), but only the column lastUsedAt of it.
RevokedStaysRevoked ==
    [][\A k \in KeyId : Exists(k) /\ ~apiKeys[k].isActive => ~apiKeys'[k].isActive]_vars

Dead(k) == Exists(k) /\ (~apiKeys[k].isActive \/ apiKeys[k].expiresAt = "past")

\* Once a key is revoked or expired, and the requests that came with it are
\* answered, no request is let through with it ("Invalid or expired API key").
DeadKeyIsRefused ==
    \A k \in KeyId :
        []( Dead(k) /\ (\A c \in Caller : guard[c].key # k)
              => [](\A c \in Caller : guard[c].key = k => guard[c].pc # "admitted"))
=============================================================================
