---------------------------- MODULE ApiKeysProofs ----------------------------
(***************************************************************************)
(* Theorems about ApiKeys, for every number of users, keys and requests    *)
(* and every limit.                                                        *)
(***************************************************************************)
EXTENDS ApiKeys, FiniteSetTheorems, TLAPS

-----------------------------------------------------------------------------
(* Type correctness.  A request in the guard holds an existing key, and a  *)
(* revocation has found one; rows are never deleted.                       *)

GuardBusy ==
    \A c \in Caller :
        /\ guard[c].pc # "idle" <=> guard[c].key \in KeyId
        /\ guard[c].pc # "idle" => Exists(guard[c].key)

TypeInv == TypeOK /\ GuardBusy /\ \A k \in revoking : Exists(k)

\* An idle request's key or user is none.
LEMMA NoneIsNothing == None \notin User /\ None \notin KeyId
  BY ApiKeyConstants

\* No statement takes a row, or the user of a row, away.
LEMMA RowsStay ==
    ASSUME TypeInv, [Next]_vars, NEW k \in KeyId, Exists(k)
    PROVE  apiKeys'[k].userId = apiKeys[k].userId
<1>types. apiKeys \in [KeyId -> ApiKey]
  BY DEF TypeInv, TypeOK
<1>1. ASSUME NEW g \in Generator, GenerateStep(g) PROVE apiKeys'[k].userId = apiKeys[k].userId
  BY <1>1, <1>types DEF GenerateStep, GenerateCount, GenerateCreate, GenerateFail, Exists
<1>2. ASSUME NEW c \in Caller, GuardStep(c) PROVE apiKeys'[k].userId = apiKeys[k].userId
  BY <1>2, <1>types DEF GuardStep, GuardFind, GuardTouch, GuardEnd, Touched
<1>3. ASSUME NEW j \in KeyId, RevokeStep(j) \/ Elapse(j)
      PROVE  apiKeys'[k].userId = apiKeys[k].userId
  BY <1>3, <1>types DEF RevokeStep, RevokeFind, RevokeUpdate, RevokeFail, Elapse, ApiKey
<1> QED
  BY <1>1, <1>2, <1>3 DEF Next, vars

\* Every action keeps every variable in its type.
LEMMA TypeStep == TypeInv /\ [Next]_vars => TypeInv'
<1> SUFFICES ASSUME TypeInv, [Next]_vars PROVE TypeInv'
  OBVIOUS
<1>types. /\ apiKeys \in [KeyId -> ApiKey]
          /\ generate \in [Generator -> User \cup {None}]
          /\ guard \in [Caller -> GuardState]
          /\ revoking \in SUBSET KeyId
          /\ GuardBusy
          /\ \A k \in revoking : Exists(k)
  BY DEF TypeInv, TypeOK
<1>rows. \A k \in KeyId : Exists(k) => Exists(k)'
  BY RowsStay DEF Exists
<1>1. ASSUME NEW g \in Generator, GenerateStep(g) PROVE TypeInv'
  <2>1. UNCHANGED <<guard, revoking>>
    BY <1>1 DEF GenerateStep, GenerateCount, GenerateCreate, GenerateFail
  <2>2. apiKeys' \in [KeyId -> ApiKey]
    <3>1. ASSUME NEW k \in KeyId, GenerateCreate(g, k) PROVE apiKeys' \in [KeyId -> ApiKey]
      <4>1. \A e \in {"never", "later", "past"} :
              [userId |-> generate[g], isActive |-> TRUE, expiresAt |-> e] \in ApiKey
        BY <1>types DEF ApiKey
      <4> QED
        BY <3>1, <4>1, <1>types DEF GenerateCreate
    <3> QED
      BY <1>1, <3>1, <1>types DEF GenerateStep, GenerateCount, GenerateFail
  <2>3. generate' \in [Generator -> User \cup {None}]
    BY <1>1, <1>types DEF GenerateStep, GenerateCount, GenerateCreate, GenerateFail
  <2> QED
    BY <2>1, <2>2, <2>3, <1>types, <1>rows DEF TypeInv, TypeOK, GuardBusy
<1>2. ASSUME NEW c \in Caller, GuardStep(c) PROVE TypeInv'
  <2>1. UNCHANGED <<generate, revoking>>
    BY <1>2 DEF GuardStep, GuardFind, GuardTouch, GuardEnd
  <2>2. apiKeys' \in [KeyId -> ApiKey]
    BY <1>2, <1>types DEF GuardStep, GuardFind, GuardTouch, GuardEnd, Touched
  <2>3. guard' \in [Caller -> GuardState]
    <3>1. GuardIdle \in GuardState
      BY DEF GuardIdle, GuardState, NoRow, ApiKey
    <3>2. \A k \in KeyId : [pc |-> "touch", key |-> k, row |-> apiKeys[k]] \in GuardState
      BY <1>types DEF GuardState
    <3> QED
      BY <1>2, <1>types, <3>1, <3>2 DEF GuardStep, GuardFind, GuardTouch, GuardEnd, GuardState
  <2>4. ASSUME NEW d \in Caller
        PROVE  \/ guard'[d].pc = "idle" /\ guard'[d].key = None
               \/ guard'[d].pc # "idle" /\ guard'[d].key \in KeyId /\ Exists(guard'[d].key)
    BY <1>2, <1>types, NoneIsNothing DEF GuardStep, GuardFind, GuardTouch, GuardEnd, GuardState,
       GuardIdle, GuardBusy
  <2>5. GuardBusy'
    BY <2>4, <1>rows, NoneIsNothing DEF GuardBusy
  <2> QED
    BY <2>1, <2>2, <2>3, <2>5, <1>types, <1>rows DEF TypeInv, TypeOK
<1>3. ASSUME NEW k \in KeyId, RevokeStep(k) \/ Elapse(k) PROVE TypeInv'
  <2>1. UNCHANGED <<generate, guard>>
    BY <1>3 DEF RevokeStep, RevokeFind, RevokeUpdate, RevokeFail, Elapse
  <2>2. apiKeys' \in [KeyId -> ApiKey]
    BY <1>3, <1>types DEF RevokeStep, RevokeFind, RevokeUpdate, RevokeFail, Elapse, ApiKey
  <2>3. revoking' \in SUBSET KeyId /\ \A j \in revoking' : Exists(j)
    BY <1>3, <1>types DEF RevokeStep, RevokeFind, RevokeUpdate, RevokeFail, Elapse
  <2> QED
    BY <2>1, <2>2, <2>3, <1>types, <1>rows DEF TypeInv, TypeOK, GuardBusy
<1>4. CASE UNCHANGED vars
  BY <1>4 DEF vars, TypeInv, TypeOK, GuardBusy, Exists
<1> QED
  BY <1>1, <1>2, <1>3, <1>4 DEF Next

\* The empty table and no request are of the types.
LEMMA TypeInit == Init => TypeInv
  BY NoneIsNothing DEF Init, TypeInv, TypeOK, GuardBusy, GuardState, GuardIdle, ApiKey, NoRow

\* Requests hold keys of the table exactly while they are at work.
THEOREM TypeInvariant == Spec => []TypeInv
  BY TypeInit, TypeStep, PTL DEF Spec

\* The table and the handlers keep their types.
THEOREM TypeCorrect == Spec => []TypeOK
<1>1. TypeInv => TypeOK
  BY DEF TypeInv
<1> QED
  BY <1>1, TypeInvariant, PTL

-----------------------------------------------------------------------------
(* The limit.  The keys alone are not inductive: a request that has        *)
(* counted will add one.  The keys of a user and the requests that are     *)
(* going to add one are together less than limit plus requests.            *)

BudgetInv ==
    \A u \in User :
        Cardinality(KeysOf(u)) + Cardinality(Pending(u))
            < KeyLimit + Cardinality(Generator)

\* Keys and requests are finitely many.
LEMMA Finite ==
    ASSUME NEW u \in User
    PROVE  /\ IsFiniteSet(KeysOf(u)) /\ Cardinality(KeysOf(u)) \in Nat
           /\ IsFiniteSet(Pending(u)) /\ Cardinality(Pending(u)) \in Nat
           /\ Cardinality(Pending(u)) <= Cardinality(Generator)
           /\ Cardinality(Generator) \in Nat
<1>1. KeysOf(u) \subseteq KeyId /\ Pending(u) \subseteq Generator
  BY DEF KeysOf, Pending
<1> QED
  BY <1>1, FiniteRequests, FS_Subset, FS_CardinalityType

\* The same after a step.
LEMMA FiniteNext ==
    ASSUME NEW u \in User
    PROVE  /\ IsFiniteSet(KeysOf(u)') /\ Cardinality(KeysOf(u)') \in Nat
           /\ IsFiniteSet(Pending(u)') /\ Cardinality(Pending(u)') \in Nat
           /\ Cardinality(Pending(u)') <= Cardinality(Generator)
<1>1. KeysOf(u)' \subseteq KeyId /\ Pending(u)' \subseteq Generator
  BY DEF KeysOf, Pending
<1> QED
  BY <1>1, FiniteRequests, FS_Subset, FS_CardinalityType

\* Guard, revocation and clock leave every key its user and every request of
\* generateApiKey as it is.
LEMMA OthersKeepUsers ==
    ASSUME TypeInv, NEW u \in User,
           \/ \E c \in Caller : GuardStep(c)
           \/ \E k \in KeyId : RevokeStep(k) \/ Elapse(k)
           \/ UNCHANGED vars
    PROVE  KeysOf(u)' = KeysOf(u) /\ Pending(u)' = Pending(u)
<1>types. apiKeys \in [KeyId -> ApiKey]
  BY DEF TypeInv, TypeOK
<1>1. UNCHANGED generate
  BY DEF GuardStep, GuardFind, GuardTouch, GuardEnd, RevokeStep, RevokeFind, RevokeUpdate,
         RevokeFail, Elapse, vars
<1>2. \A k \in KeyId : apiKeys'[k].userId = apiKeys[k].userId
  BY <1>types DEF GuardStep, GuardFind, GuardTouch, GuardEnd, RevokeStep, RevokeFind, RevokeUpdate,
         RevokeFail, Elapse, vars, Touched, ApiKey
<1> QED
  BY <1>1, <1>2 DEF KeysOf, Pending

\* A count lets a request pass below the limit only; a create turns such a
\* request into a key.
LEMMA BudgetStep == TypeInv /\ BudgetInv /\ [Next]_vars => BudgetInv'
<1> DEFINE Bound(u) == Cardinality(KeysOf(u)) + Cardinality(Pending(u))
                          < KeyLimit + Cardinality(Generator)
<1> SUFFICES ASSUME TypeInv, BudgetInv, [Next]_vars, NEW u \in User PROVE Bound(u)'
  BY DEF BudgetInv
<1>types. /\ apiKeys \in [KeyId -> ApiKey]
          /\ generate \in [Generator -> User \cup {None}]
          /\ KeyLimit \in Nat
  BY ApiKeyConstants DEF TypeInv, TypeOK
<1>inv. Bound(u)
  BY DEF BudgetInv
<1>1. ASSUME NEW g \in Generator, NEW v \in User, GenerateCount(g, v) PROVE Bound(u)'
  <2>1. KeysOf(u)' = KeysOf(u)
    BY <1>1 DEF GenerateCount, KeysOf
  <2>2. CASE v = u
    <3>1. Cardinality(KeysOf(u)) < KeyLimit
      BY <1>1, <2>2 DEF GenerateCount, Counted
    <3> QED
      BY <2>1, <3>1, <1>types, Finite, FiniteNext
  <2>3. CASE v # u
    <3>1. Pending(u)' = Pending(u)
      BY <1>1, <1>types, <2>3, NoneIsNothing DEF GenerateCount, Pending
    <3> QED
      BY <2>1, <3>1, <1>inv
  <2> QED
    BY <2>2, <2>3
<1>2. ASSUME NEW g \in Generator, NEW k \in KeyId, GenerateCreate(g, k) PROVE Bound(u)'
  <2>0. /\ apiKeys'[k].userId = generate[g] /\ apiKeys[k].userId = None
        /\ \A j \in KeyId \ {k} : apiKeys'[j] = apiKeys[j]
        /\ generate[g] # None /\ generate'[g] = None
        /\ \A h \in Generator \ {g} : generate'[h] = generate[h]
    BY <1>2, <1>types DEF GenerateCreate, Exists
  <2>1. CASE generate[g] = u
    <3>1. KeysOf(u)' = KeysOf(u) \cup {k} /\ k \notin KeysOf(u)
      BY <2>0, <2>1 DEF KeysOf
    <3>2. Pending(u)' = Pending(u) \ {g} /\ g \in Pending(u)
      BY <2>0, <2>1 DEF Pending
    <3>3. Cardinality(KeysOf(u)') = Cardinality(KeysOf(u)) + 1
      BY <3>1, Finite, FS_AddElement
    <3>4. Cardinality(Pending(u)') = Cardinality(Pending(u)) - 1
      BY <3>2, Finite, FS_RemoveElement
    <3> QED
      BY <3>3, <3>4, <1>inv, <1>types, Finite
  <2>2. CASE generate[g] # u
    <3>1. KeysOf(u)' = KeysOf(u)
      BY <2>0, <2>2, NoneIsNothing DEF KeysOf
    <3>2. Pending(u)' = Pending(u)
      BY <2>0, <2>2, NoneIsNothing DEF Pending
    <3> QED
      BY <3>1, <3>2, <1>inv
  <2> QED
    BY <2>1, <2>2
<1>3. ASSUME NEW g \in Generator, GenerateFail(g) PROVE Bound(u)'
  <2>1. KeysOf(u)' = KeysOf(u)
    BY <1>3 DEF GenerateFail, KeysOf
  <2>2. Pending(u)' \subseteq Pending(u)
    BY <1>3, <1>types, NoneIsNothing DEF GenerateFail, Pending
  <2>3. Cardinality(Pending(u)') <= Cardinality(Pending(u))
    BY <2>2, Finite, FS_Subset
  <2> QED
    BY <2>1, <2>3, <1>inv, <1>types, Finite, FiniteNext
<1>4. CASE \/ \E c \in Caller : GuardStep(c)
           \/ \E k \in KeyId : RevokeStep(k) \/ Elapse(k)
           \/ UNCHANGED vars
  <2>1. KeysOf(u)' = KeysOf(u) /\ Pending(u)' = Pending(u)
    BY <1>4, OthersKeepUsers
  <2> QED
    BY <2>1, <1>inv
<1> QED
  BY <1>1, <1>2, <1>3, <1>4 DEF Next, GenerateStep

\* Whatever is created, failed and revoked, a user has fewer keys than the
\* limit and the overlapping requests together: with one request at a time
\* (Cardinality(Generator) = 1) never more than the limit.
THEOREM KeyBudgetCorrect == Spec => []KeyBudget
<1>1. Init => BudgetInv
  <2> SUFFICES ASSUME Init, NEW u \in User
               PROVE  Cardinality(KeysOf(u)) + Cardinality(Pending(u))
                        < KeyLimit + Cardinality(Generator)
    BY DEF BudgetInv
  <2>1. KeysOf(u) = {} /\ Pending(u) = {}
    BY NoneIsNothing DEF Init, KeysOf, Pending, NoRow
  <2> QED
    BY <2>1, FS_EmptySet, ApiKeyConstants, FiniteRequests, FS_CardinalityType
<1>2. BudgetInv => KeyBudget
  BY Finite, ApiKeyConstants DEF BudgetInv, KeyBudget
<1> QED
  BY <1>1, <1>2, BudgetStep, TypeInvariant, PTL DEF Spec

-----------------------------------------------------------------------------
(* The action property and the two properties of the form "once P, for     *)
(* ever Q": a formula that implies Q is stable.                            *)

\* No step makes an inactive key active.
LEMMA RevokedStep ==
    ASSUME TypeInv, [Next]_vars, NEW k \in KeyId, Exists(k), ~apiKeys[k].isActive
    PROVE  ~apiKeys'[k].isActive
<1>types. apiKeys \in [KeyId -> ApiKey]
  BY DEF TypeInv, TypeOK
<1>1. ASSUME NEW g \in Generator, GenerateStep(g) PROVE ~apiKeys'[k].isActive
  BY <1>1, <1>types DEF GenerateStep, GenerateCount, GenerateCreate, GenerateFail, Exists
<1>2. ASSUME NEW c \in Caller, GuardStep(c) PROVE ~apiKeys'[k].isActive
  BY <1>2, <1>types DEF GuardStep, GuardFind, GuardTouch, GuardEnd, Touched
<1>3. ASSUME NEW j \in KeyId, RevokeStep(j) \/ Elapse(j) PROVE ~apiKeys'[k].isActive
  BY <1>3, <1>types DEF RevokeStep, RevokeFind, RevokeUpdate, RevokeFail, Elapse, ApiKey
<1> QED
  BY <1>1, <1>2, <1>3 DEF Next, vars

\* A revoked key stays revoked, whoever saves a record found before.
THEOREM RevokedStaysRevokedCorrect == Spec => RevokedStaysRevoked
<1>1. TypeInv /\ [Next]_vars =>
        [\A k \in KeyId : Exists(k) /\ ~apiKeys[k].isActive => ~apiKeys'[k].isActive]_vars
  BY RevokedStep
<1> QED
  BY <1>1, TypeInvariant, PTL DEF Spec, RevokedStaysRevoked

Idle(k) == \A c \in Caller : guard[c].key # k

NotAdmitted(k) == \A c \in Caller : guard[c].key = k => guard[c].pc # "admitted"

\* A dead key stays dead, and validateApiKey lets no new request in with it.
LEMMA DeadStep ==
    ASSUME NEW k \in KeyId
    PROVE  TypeInv /\ (Dead(k) /\ Idle(k)) /\ [Next]_vars => (Dead(k) /\ Idle(k))'
<1> SUFFICES ASSUME TypeInv, Dead(k), Idle(k), [Next]_vars PROVE Dead(k)' /\ Idle(k)'
  OBVIOUS
<1>types. apiKeys \in [KeyId -> ApiKey] /\ guard \in [Caller -> GuardState]
  BY DEF TypeInv, TypeOK
<1>rows. Exists(k)'
  BY RowsStay DEF Dead, Exists
<1>1. ASSUME NEW g \in Generator, GenerateStep(g) PROVE Dead(k)' /\ Idle(k)'
  BY <1>1, <1>types, <1>rows
  DEF GenerateStep, GenerateCount, GenerateCreate, GenerateFail, Exists, Dead, Idle
<1>2. ASSUME NEW c \in Caller, GuardStep(c) PROVE Dead(k)' /\ Idle(k)'
  <2>1. Dead(k)'
    BY <1>2, <1>types, <1>rows DEF GuardStep, GuardFind, GuardTouch, GuardEnd, Touched, Dead
  <2>2. ASSUME NEW j \in KeyId, GuardFind(c, j) PROVE Idle(k)'
    <3>1. j # k
      BY <2>2 DEF GuardFind, Valid, Expired, Dead
    <3> QED
      BY <2>2, <3>1, <1>types DEF GuardFind, Idle
  <2>3. ASSUME GuardTouch(c) \/ GuardEnd(c) PROVE Idle(k)'
    <3>1. \A d \in Caller : guard'[d].key = guard[d].key \/ guard'[d].key = None
      BY <2>3, <1>types DEF GuardTouch, GuardEnd, GuardIdle, GuardState
    <3>2. k # None
      BY NoneIsNothing
    <3> QED
      BY <3>1, <3>2 DEF Idle
  <2> QED
    BY <1>2, <2>1, <2>2, <2>3 DEF GuardStep
<1>3. ASSUME NEW j \in KeyId, RevokeStep(j) \/ Elapse(j) PROVE Dead(k)' /\ Idle(k)'
  BY <1>3, <1>types, <1>rows
  DEF RevokeStep, RevokeFind, RevokeUpdate, RevokeFail, Elapse, ApiKey, Dead, Idle
<1>4. CASE UNCHANGED vars
  BY <1>4 DEF vars, Dead, Exists, Idle
<1> QED
  BY <1>1, <1>2, <1>3, <1>4 DEF Next

\* Once a key is revoked or expired and its requests are answered, no request
\* passes the guard with it, for ever.
THEOREM DeadKeyIsRefusedCorrect == Spec => DeadKeyIsRefused
<1>1. ASSUME NEW k \in KeyId
      PROVE  Spec => []((Dead(k) /\ Idle(k)) => []NotAdmitted(k))
  <2>1. Dead(k) /\ Idle(k) => NotAdmitted(k)
    BY DEF Idle, NotAdmitted
  <2>2. TypeInv /\ (Dead(k) /\ Idle(k)) /\ [Next]_vars => (Dead(k) /\ Idle(k))'
    BY DeadStep
  <2> QED
    BY <2>1, <2>2, TypeInvariant, PTL DEF Spec
<1> QED
  BY <1>1 DEF DeadKeyIsRefused, Idle, NotAdmitted

\* A user at the limit stays there, no count passes, and no key is added.
LEMMA FullStep ==
    ASSUME NEW u \in User, NEW k \in KeyId
    PROVE  TypeInv /\ (Full(u) /\ k \notin KeysOf(u)) /\ [Next]_vars
             => (Full(u) /\ k \notin KeysOf(u))'
<1> SUFFICES ASSUME TypeInv, Full(u), k \notin KeysOf(u), [Next]_vars
             PROVE  Full(u)' /\ (k \notin KeysOf(u))'
  OBVIOUS
<1>types. apiKeys \in [KeyId -> ApiKey] /\ generate \in [Generator -> User \cup {None}]
  BY DEF TypeInv, TypeOK
<1>1. SUFFICES KeysOf(u)' = KeysOf(u) /\ Pending(u)' = {}
  BY DEF Full
<1>2. ASSUME NEW g \in Generator, NEW v \in User, GenerateCount(g, v)
      PROVE  KeysOf(u)' = KeysOf(u) /\ Pending(u)' = {}
  <2>1. ~ (Cardinality(KeysOf(u)) < KeyLimit)
    BY Finite, ApiKeyConstants DEF Full
  <2>2. v # u
    BY <1>2, <2>1 DEF GenerateCount, Counted
  <2> QED
    BY <1>2, <2>2, <1>types DEF GenerateCount, Full, Pending, KeysOf
<1>3. ASSUME NEW g \in Generator, NEW j \in KeyId, GenerateCreate(g, j)
      PROVE  KeysOf(u)' = KeysOf(u) /\ Pending(u)' = {}
  <2>1. generate[g] # u
    BY DEF Full, Pending
  <2>2. /\ apiKeys'[j].userId = generate[g] /\ apiKeys[j].userId = None
        /\ \A i \in KeyId \ {j} : apiKeys'[i] = apiKeys[i]
    BY <1>3, <1>types DEF GenerateCreate, Exists
  <2>3. KeysOf(u)' = KeysOf(u)
    BY <2>1, <2>2, NoneIsNothing DEF KeysOf
  <2> QED
    BY <1>3, <2>3, <1>types, NoneIsNothing DEF GenerateCreate, Full, Pending
<1>4. ASSUME NEW g \in Generator, GenerateFail(g)
      PROVE  KeysOf(u)' = KeysOf(u) /\ Pending(u)' = {}
  BY <1>4, <1>types, NoneIsNothing DEF GenerateFail, Full, Pending, KeysOf
<1>5. CASE \/ \E c \in Caller : GuardStep(c)
           \/ \E i \in KeyId : RevokeStep(i) \/ Elapse(i)
           \/ UNCHANGED vars
  BY <1>5, OthersKeepUsers DEF Full
<1> QED
  BY <1>2, <1>3, <1>4, <1>5 DEF Next, GenerateStep

\* Nobody who has reached the limit is given another key, whatever is revoked
\* or expires afterwards.
THEOREM FullUserStaysFullCorrect == Spec => FullUserStaysFull
<1>1. ASSUME NEW u \in User, NEW k \in KeyId
      PROVE  Spec => []((Full(u) /\ k \notin KeysOf(u)) => [](k \notin KeysOf(u)))
  <2>1. TypeInv /\ (Full(u) /\ k \notin KeysOf(u)) /\ [Next]_vars
             => (Full(u) /\ k \notin KeysOf(u))'
    BY FullStep
  <2> QED
    BY <2>1, TypeInvariant, PTL DEF Spec
<1> QED
  BY <1>1 DEF FullUserStaysFull
=============================================================================
