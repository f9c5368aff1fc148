--------------------- MODULE SpeakerReconciliationProofs ---------------------
(***************************************************************************)
(* Theorems about SpeakerReconciliation, for transcripts and captions of   *)
(* every length, in the order of time.                                     *)
(***************************************************************************)
EXTENDS SpeakerReconciliation, TLAPS

\* What a sequence over S holds at a position is in S.
LEMMA ElementIn == ASSUME NEW S, NEW list \in Seq(S), NEW n \in 1..Len(list) PROVE list[n] \in S
  OBVIOUS

\* The lists are functions on intervals, with integer times in order.
LEMMA Shape ==
    ASSUME voice \in Voices, sentences \in Captions
    PROVE  /\ Len(voice) \in Nat /\ DOMAIN voice = 1..Len(voice)
           /\ \A v \in 1..Len(voice) : voice[v].time \in Int /\ voice[v].label \in Label
           /\ Len(sentences) \in Nat /\ DOMAIN sentences = 1..Len(sentences)
           /\ \A s \in 1..Len(sentences) :
                 sentences[s].time \in Int /\ sentences[s].name \in Name
           /\ \A a, b \in 1..Len(voice) : a <= b => voice[a].time <= voice[b].time
           /\ \A a, b \in 1..Len(sentences) : a <= b => sentences[a].time <= sentences[b].time
<1>1. voice \in Seq([time : Int, label : Label]) /\ sentences \in Seq([time : Int, name : Name])
  BY ReconciliationConstants
<1>2. Sorted(voice) /\ Sorted(sentences)
  BY SortedInputs
<1>3. /\ Len(voice) \in Nat /\ DOMAIN voice = 1..Len(voice)
      /\ Len(sentences) \in Nat /\ DOMAIN sentences = 1..Len(sentences)
  BY <1>1
<1>4. /\ \A v \in 1..Len(voice) : voice[v] \in [time : Int, label : Label]
      /\ \A s \in 1..Len(sentences) : sentences[s] \in [time : Int, name : Name]
  BY <1>1, ElementIn
<1> QED
  BY <1>2, <1>3, <1>4 DEF Sorted

\* Differences of times are natural numbers.
LEMMA TimeDiffIsNat ==
    ASSUME voice \in Voices, sentences \in Captions,
           NEW v \in 1..Len(voice), NEW s \in 1..Len(sentences)
    PROVE  TimeDiff(v, s) \in Nat
  BY Shape DEF TimeDiff, Abs

\* After an index that is not the last there is another.
LEMMA NextIndex ==
    ASSUME NEW m \in Nat, NEW n \in 1..m, n # m PROVE n + 1 \in 1..m /\ n <= n + 1
  OBVIOUS

-----------------------------------------------------------------------------
(* Type correctness.                                                       *)

\* While entries are left, i is one of them.
TypeInv == TypeOK /\ (pc # "done" => i <= Len(voice))

\* The entry at i is one of the list.
LEMMA AtEntry == TypeOK /\ i <= Len(voice) => i \in 1..Len(voice)
<1> SUFFICES ASSUME TypeOK, i <= Len(voice) PROVE i \in 1..Len(voice)
  OBVIOUS
<1>1. i \in 1..(Len(voice) + 1)
  BY DEF TypeOK
<1>2. Len(voice) \in Nat
  BY Shape DEF TypeOK
<1> QED
  BY <1>1, <1>2

\* The first entry of a list that is not empty is there.
LEMMA TypeInit == Init => TypeInv
<1> SUFFICES ASSUME Init PROVE TypeInv
  OBVIOUS
<1>1. voice \in Voices /\ sentences \in Captions
  BY DEF Init
<1>2. voice \in Seq([time : Int, label : Label])
  BY <1>1, ReconciliationConstants
<1>3. pc # "done" => 1 <= Len(voice)
  BY <1>2 DEF Init
<1>4. speaker \in [DOMAIN voice -> Label \cup Name \cup Id \cup {Unknown}]
  BY <1>1, Shape DEF Init
<1> QED
  BY <1>1, <1>3, <1>4, Shape, ReconciliationConstants DEF Init, TypeInv, TypeOK

\* Every iteration keeps the indices within their lists.
LEMMA TypeStep == TypeInv /\ [Next]_vars => TypeInv'
<1> SUFFICES ASSUME TypeInv, [Next]_vars PROVE TypeInv'
  OBVIOUS
<1>types. TypeOK /\ (pc # "done" => i <= Len(voice))
  BY DEF TypeInv
<1>shape. /\ Len(voice) \in Nat /\ DOMAIN voice = 1..Len(voice)
          /\ Len(sentences) \in Nat /\ DOMAIN sentences = 1..Len(sentences)
          /\ \A s \in 1..Len(sentences) : sentences[s].name \in Name
  BY <1>types, Shape DEF TypeOK
<1>1. ASSUME Relabel PROVE TypeInv'
  <2>1. ids' \in [Label -> Id \cup {None}]
    BY <1>1, <1>types DEF Relabel, TypeOK
  <2>2. speaker' \in [DOMAIN voice -> Label \cup Name \cup Id \cup {Unknown}]
    BY <1>1, <1>types DEF Relabel, TypeOK
  <2>3. i' \in 1..(Len(voice) + 1) /\ (pc' # "done" => i' <= Len(voice))
        /\ pc' \in {"relabel", "done"}
    <3>1. i \in 1..Len(voice)
      BY <1>1, <1>types, <1>shape, AtEntry DEF Relabel
    <3>2. i' = i + 1 /\ pc' = IF i = Len(voice) THEN "done" ELSE "relabel"
      BY <1>1 DEF Relabel
    <3>0. i' = i + 1 /\ Len(voice) \in Nat
      BY <3>2, <1>shape
    <3>3. i' \in 1..(Len(voice) + 1)
      BY <3>0, <3>1
    <3>4. i # Len(voice) => i' <= Len(voice)
      BY <3>0, <3>1
    <3> QED
      BY <3>0, <3>2, <3>3, <3>4
  <2> QED
    BY <1>1, <2>1, <2>2, <2>3, <1>types DEF Relabel, inputs, search, TypeInv, TypeOK
<1>2. ASSUME Skip PROVE TypeInv'
  <2>1. j' \in 1..(Len(sentences) + 1) /\ k' \in 1..(Len(sentences) + 1)
    BY <1>2, <1>types, <1>shape DEF Skip, TooEarly, TypeOK
  <2> QED
    BY <1>2, <2>1, <1>types DEF Skip, inputs, TypeInv, TypeOK
<1>3. ASSUME Check PROVE TypeInv'
  <2>1. k \in 1..Len(sentences) /\ i \in 1..Len(voice)
    BY <1>3, <1>types, <1>shape DEF Check, InWindow, TypeOK
  <2>2. TimeDiff(i, k) \in Nat
    BY <2>1, <1>types, TimeDiffIsNat DEF TypeOK
  <2>3. k' \in 1..(Len(sentences) + 1) /\ match' \in 0..Len(sentences) /\ minTimeDiff' \in Nat
    BY <1>3, <2>1, <2>2, <1>types, <1>shape DEF Check, TypeOK
  <2> QED
    BY <1>3, <2>3, <1>types DEF Check, inputs, TypeInv, TypeOK
<1>4. ASSUME Assign PROVE TypeInv'
  <2>1. Matched \in Name \cup {Unknown}
    BY <1>types, <1>shape DEF Matched, TypeOK
  <2>2. speaker' \in [DOMAIN voice -> Label \cup Name \cup Id \cup {Unknown}]
    BY <1>4, <2>1, <1>types DEF Assign, TypeOK
  <2>3. i' \in 1..(Len(voice) + 1) /\ (pc' # "done" => i' <= Len(voice))
        /\ pc' \in {"skip", "done"}
    <3>1. i \in 1..Len(voice)
      BY <1>4, <1>types, <1>shape, AtEntry DEF Assign
    <3>2. i' = i + 1 /\ pc' = IF i = Len(voice) THEN "done" ELSE "skip"
      BY <1>4 DEF Assign
    <3>0. i' = i + 1 /\ Len(voice) \in Nat
      BY <3>2, <1>shape
    <3>3. i' \in 1..(Len(voice) + 1)
      BY <3>0, <3>1
    <3>4. i # Len(voice) => i' <= Len(voice)
      BY <3>0, <3>1
    <3> QED
      BY <3>0, <3>2, <3>3, <3>4
  <2>4. match' \in 0..Len(sentences) /\ minTimeDiff' \in Nat
    BY <1>4, <1>shape, ReconciliationConstants DEF Assign
  <2> QED
    BY <1>4, <2>2, <2>3, <2>4, <1>types DEF Assign, inputs, TypeInv, TypeOK
<1>5. CASE UNCHANGED vars
  BY <1>5, <1>types DEF vars, inputs, search, TypeInv, TypeOK
<1> QED
  BY <1>1, <1>2, <1>3, <1>4, <1>5 DEF Next

\* The indices never leave their lists.
THEOREM TypeInvariant == Spec => []TypeInv
  BY TypeInit, TypeStep, PTL DEF Spec

\* All variables keep their types.
THEOREM TypeCorrect == Spec => []TypeOK
<1>1. TypeInv => TypeOK
  BY DEF TypeInv
<1> QED
  BY <1>1, TypeInvariant, PTL

-----------------------------------------------------------------------------
(* The ids.  Labels that were met have different ids, the entries that are *)
(* done have the id of their label, and the others still have the label.   *)

IdsInv ==
    ~captioned =>
        /\ pc \in {"relabel", "done"}
        /\ pc = "done" => i = Len(voice) + 1
        /\ \A l, m \in Label : ids[l] = ids[m] /\ ids[l] # None => l = m
        /\ \A v \in DOMAIN voice :
              IF v < i THEN speaker[v] = ids[voice[v].label] /\ speaker[v] # None
                       ELSE speaker[v] = voice[v].label

\* An id given to a label is new, or was the label's own.
LEMMA IdsStep == TypeInv /\ IdsInv /\ [Next]_vars => IdsInv'
<1> SUFFICES ASSUME TypeInv, IdsInv, [Next]_vars, ~captioned' PROVE IdsInv'
  BY DEF IdsInv
<1>types. TypeOK /\ (pc # "done" => i <= Len(voice))
  BY DEF TypeInv
<1>shape. /\ Len(voice) \in Nat /\ DOMAIN voice = 1..Len(voice)
          /\ \A v \in 1..Len(voice) : voice[v].label \in Label
  BY <1>types, Shape DEF TypeOK
<1>same. ~captioned
  BY DEF Next, Relabel, Skip, Check, Assign, vars, inputs
<1>1. ASSUME Relabel PROVE IdsInv'
  <2>1. i \in 1..Len(voice) /\ speaker[i] = voice[i].label /\ voice[i].label \in Label
    <3>1. i \in 1..Len(voice)
      BY <1>1, <1>types, AtEntry DEF Relabel
    <3>2. ~ (i < i)
      BY <3>1
    <3> QED
      BY <3>1, <3>2, <1>shape, <1>same DEF IdsInv
  <2>2. PICK id \in Id : /\ IdFor(speaker[i], id)
                         /\ ids' = [ids EXCEPT ![speaker[i]] = id]
                         /\ speaker' = [speaker EXCEPT ![i] = id]
    BY <1>1 DEF Relabel
  <2>3. id # None
    BY ReconciliationConstants
  <2>4. /\ ids'[voice[i].label] = id
        /\ \A l \in Label : l # voice[i].label => ids'[l] = ids[l]
    BY <2>1, <2>2, <1>types DEF TypeOK
  <2>5. \A l \in Label : l # voice[i].label => ids[l] # id
    BY <2>1, <2>2, <2>3, <1>same DEF IdFor, IdsInv
  <2>6. \A l \in Label : ids[l] # None => ids'[l] = ids[l]
    BY <2>1, <2>2, <2>4 DEF IdFor
  <2>7. \A l, m \in Label : ids'[l] = ids'[m] /\ ids'[l] # None => l = m
    BY <2>4, <2>5, <1>same DEF IdsInv
  <2>8. ASSUME NEW v \in DOMAIN voice
        PROVE  IF v < i' THEN speaker'[v] = ids'[voice[v].label] /\ speaker'[v] # None
                         ELSE speaker'[v] = voice[v].label
    <3>1. i' = i + 1 /\ v \in 1..Len(voice) /\ voice[v].label \in Label
      BY <1>1, <1>shape DEF Relabel
    <3>2. CASE v = i
      BY <2>1, <2>2, <2>3, <2>4, <3>1, <3>2, <1>types DEF TypeOK
    <3>3. CASE v < i
      <4>1. speaker'[v] = speaker[v]
        BY <2>1, <2>2, <3>1, <3>3, <1>types DEF TypeOK
      <4>2. speaker[v] = ids[voice[v].label] /\ speaker[v] # None
        BY <3>3, <1>same DEF IdsInv
      <4> QED
        BY <4>1, <4>2, <2>1, <2>6, <3>1, <3>3
    <3>4. CASE v > i
      <4>1. speaker'[v] = speaker[v]
        BY <2>1, <2>2, <3>1, <3>4, <1>types DEF TypeOK
      <4>2. ~ (v < i) /\ ~ (v < i')
        BY <2>1, <3>1, <3>4
      <4> QED
        BY <4>1, <4>2, <1>same DEF IdsInv
    <3> QED
      BY <2>1, <3>1, <3>2, <3>3, <3>4
  <2>9. voice' = voice /\ pc' \in {"relabel", "done"} /\ (pc' = "done" => i' = Len(voice) + 1)
    BY <1>1 DEF Relabel, inputs
  <2> QED
    BY <2>7, <2>8, <2>9 DEF IdsInv
<1>2. CASE UNCHANGED vars
  BY <1>2, <1>same DEF vars, inputs, IdsInv
<1> QED
  BY <1>1, <1>2, <1>same DEF Next, Skip, Check, Assign, IdsInv

\* Without captions, equal ids mean equal labels and the other way round.
THEOREM SameVoiceSameIdCorrect == Spec => []SameVoiceSameId
<1>1. Init => IdsInv
  <2> SUFFICES ASSUME Init PROVE IdsInv
    OBVIOUS
  <2>1. voice \in Seq([time : Int, label : Label]) /\ voice \in Voices /\ sentences \in Captions
    BY ReconciliationConstants DEF Init
  <2>2. DOMAIN voice = 1..Len(voice) /\ \A v \in DOMAIN voice : ~ (v < 1)
    BY <2>1, Shape
  <2>3. voice = <<>> => Len(voice) = 0
    OBVIOUS
  <2> QED
    BY <2>2, <2>3 DEF Init, IdsInv
<1>2. TypeInv /\ IdsInv => SameVoiceSameId
  <2> SUFFICES ASSUME TypeInv, IdsInv, ~captioned, pc = "done",
                      NEW v \in DOMAIN voice, NEW w \in DOMAIN voice
               PROVE  speaker[v] = speaker[w] <=> voice[v].label = voice[w].label
    BY DEF SameVoiceSameId
  <2>1. /\ DOMAIN voice = 1..Len(voice) /\ Len(voice) \in Nat
        /\ voice[v].label \in Label /\ voice[w].label \in Label
    BY Shape DEF TypeInv, TypeOK
  <2>2. v < i /\ w < i
    BY <2>1 DEF IdsInv
  <2> QED
    BY <2>1, <2>2 DEF IdsInv
<1> QED
  BY <1>1, <1>2, IdsStep, TypeInvariant, PTL DEF Spec

-----------------------------------------------------------------------------
(* The nearest caption.  What lies before j is too early for this entry    *)
(* and the later ones, match is the best of what lies before k, and what   *)
(* lies behind the window is too late.                                     *)

BestBefore(n) ==
    \/ /\ match = 0 /\ minTimeDiff = MaxTimeDiff
       /\ \A s \in DOMAIN sentences : s < n => ~Candidate(i, s)
    \/ /\ match \in DOMAIN sentences /\ match < n
       /\ Candidate(i, match) /\ minTimeDiff = TimeDiff(i, match)
       /\ \A t \in DOMAIN sentences : t < n /\ Candidate(i, t) =>
             \/ TimeDiff(i, match) < TimeDiff(i, t)
             \/ TimeDiff(i, match) = TimeDiff(i, t) /\ match <= t

EarlyBeforeJ ==
    \A s \in DOMAIN sentences :
        s < j => sentences[s].time < voice[i].time - MaxTimeDiff

Named(v) ==
    \/ \E s \in DOMAIN sentences : Nearest(v, s) /\ speaker[v] = sentences[s].name
    \/ (\A s \in DOMAIN sentences : ~Candidate(v, s)) /\ speaker[v] = Unknown

NearestInv ==
    captioned =>
        /\ pc # "relabel"
        /\ pc # "done" => EarlyBeforeJ
        /\ pc = "skip" => match = 0 /\ minTimeDiff = MaxTimeDiff
        /\ pc = "check" => BestBefore(k)
        /\ \A v \in DOMAIN voice : v < i => Named(v)

\* A caption too early or too late is no candidate.
LEMMA FarIsNoCandidate ==
    ASSUME voice \in Voices, sentences \in Captions,
           NEW v \in 1..Len(voice), NEW s \in 1..Len(sentences),
           \/ sentences[s].time < voice[v].time - MaxTimeDiff
           \/ sentences[s].time > voice[v].time + MaxTimeDiff
    PROVE  ~Candidate(v, s)
<1>1. voice[v].time \in Int /\ sentences[s].time \in Int /\ MaxTimeDiff \in Nat
  BY Shape, ReconciliationConstants
<1>2. TimeDiff(v, s) > MaxTimeDiff
  BY <1>1 DEF TimeDiff, Abs
<1>3. TimeDiff(v, s) \in Nat
  BY TimeDiffIsNat
<1> QED
  BY <1>1, <1>2, <1>3 DEF Candidate

\* The window is searched from its first caption to its last, in order.
LEMMA NearestStep == TypeInv /\ NearestInv /\ [Next]_vars => NearestInv'
<1> SUFFICES ASSUME TypeInv, NearestInv, [Next]_vars, captioned' PROVE NearestInv'
  BY DEF NearestInv
<1>types. TypeOK /\ (pc # "done" => i <= Len(voice))
  BY DEF TypeInv
<1>lists. voice \in Voices /\ sentences \in Captions
  BY <1>types DEF TypeOK
<1>shape. /\ Len(voice) \in Nat /\ DOMAIN voice = 1..Len(voice)
          /\ \A v \in 1..Len(voice) : voice[v].time \in Int
          /\ Len(sentences) \in Nat /\ DOMAIN sentences = 1..Len(sentences)
          /\ \A s \in 1..Len(sentences) : sentences[s].time \in Int
  BY <1>lists, Shape
<1>nat. /\ i \in Nat /\ j \in Nat /\ k \in Nat /\ j <= Len(sentences) + 1
        /\ MaxTimeDiff \in Nat
  BY <1>types, <1>shape, ReconciliationConstants DEF TypeOK
<1>same. captioned
  BY DEF Next, Relabel, Skip, Check, Assign, vars, inputs
<1>1. ASSUME Skip PROVE NearestInv'
  <2>same. UNCHANGED <<voice, captioned, sentences, similar, speaker, i, match, minTimeDiff>>
    BY <1>1 DEF Skip, inputs
  <2>i. i \in 1..Len(voice)
    BY <1>1, <1>types, AtEntry DEF Skip
  <2>early. EarlyBeforeJ
    BY <1>1, <1>same DEF Skip, NearestInv
  <2>1. CASE TooEarly(j)
    <3>1. j' = j + 1 /\ pc' = "skip"
      BY <1>1, <2>1 DEF Skip
    <3>2. EarlyBeforeJ'
      <4> SUFFICES ASSUME NEW s \in DOMAIN sentences, s < j + 1
                   PROVE  sentences[s].time < voice[i].time - MaxTimeDiff
        BY <2>same, <3>1 DEF EarlyBeforeJ
      <4>1. s < j \/ s = j
        BY <1>shape, <1>nat
      <4> QED
        BY <4>1, <2>1, <2>early DEF TooEarly, EarlyBeforeJ
    <3> QED
      BY <1>1, <1>same, <2>same, <3>1, <3>2
      DEF Skip, NearestInv, Named, Nearest, Candidate, TimeDiff
  <2>2. CASE ~TooEarly(j)
    <3>1. k' = j /\ j' = j /\ pc' = "check"
      BY <1>1, <2>2 DEF Skip
    <3>2. \A s \in DOMAIN sentences : s < j => ~Candidate(i, s)
      BY <1>lists, <1>shape, <2>i, <2>early, FarIsNoCandidate DEF EarlyBeforeJ
    <3>3. BestBefore(k)'
      BY <1>1, <1>same, <2>same, <3>1, <3>2
      DEF Skip, NearestInv, BestBefore, Candidate, TimeDiff
    <3>4. EarlyBeforeJ'
      BY <2>same, <2>early, <3>1 DEF EarlyBeforeJ
    <3> QED
      BY <1>same, <2>same, <3>1, <3>3, <3>4 DEF NearestInv, Named, Nearest, Candidate, TimeDiff
  <2> QED
    BY <2>1, <2>2
<1>2. ASSUME Check PROVE NearestInv'
  <2>same. /\ UNCHANGED <<voice, captioned, sentences, similar, speaker, pc, i, j>>
           /\ pc = "check" /\ k' = k + 1
    BY <1>2 DEF Check, inputs
  <2>i. i \in 1..Len(voice) /\ k \in 1..Len(sentences)
    <3>1. k \in 1..(Len(sentences) + 1) /\ k <= Len(sentences)
      BY <1>2, <1>types DEF Check, InWindow, TypeOK
    <3> QED
      BY <2>same, <3>1, <1>shape, <1>types, AtEntry
  <2>diff. \A s \in DOMAIN sentences : TimeDiff(i, s) \in Nat
    BY <2>i, <1>lists, <1>shape, TimeDiffIsNat
  <2>best. BestBefore(k)
    BY <2>same, <1>same DEF NearestInv
  <2>below. \A s \in DOMAIN sentences : s < k + 1 => s < k \/ s = k
    BY <1>shape, <1>nat
  <2>1. CASE Better(k)
    <3>1. match' = k /\ minTimeDiff' = TimeDiff(i, k)
      BY <1>2, <2>1 DEF Check
    <3>2. Candidate(i, k)
      BY <2>1, <2>best, <2>i, <2>diff, <1>shape, <1>nat DEF Better, BestBefore, Candidate
    <3>3. \A t \in DOMAIN sentences : t < k /\ Candidate(i, t) => TimeDiff(i, k) < TimeDiff(i, t)
      <4> SUFFICES ASSUME NEW t \in DOMAIN sentences, t < k, Candidate(i, t)
                   PROVE  TimeDiff(i, k) < TimeDiff(i, t)
        OBVIOUS
      <4>1. /\ match \in DOMAIN sentences /\ minTimeDiff = TimeDiff(i, match)
            /\ \/ TimeDiff(i, match) < TimeDiff(i, t)
               \/ TimeDiff(i, match) = TimeDiff(i, t)
        BY <2>best DEF BestBefore
      <4>2. TimeDiff(i, k) < TimeDiff(i, match)
        BY <2>1, <4>1 DEF Better
      <4>3. TimeDiff(i, k) \in Nat /\ TimeDiff(i, match) \in Nat /\ TimeDiff(i, t) \in Nat
        BY <2>i, <2>diff, <4>1, <1>shape
      <4> QED
        BY <4>1, <4>2, <4>3
    <3>4. BestBefore(k)'
      <4>1. \A t \in DOMAIN sentences : t < k + 1 /\ Candidate(i, t) =>
               \/ TimeDiff(i, k) < TimeDiff(i, t)
               \/ TimeDiff(i, k) = TimeDiff(i, t) /\ k <= t
        BY <3>3, <2>below, <1>nat
      <4>2. k < k + 1 /\ k \in DOMAIN sentences
        BY <2>i, <1>shape
      <4> QED
        BY <2>same, <3>1, <3>2, <4>1, <4>2 DEF BestBefore, Candidate, TimeDiff
    <3> QED
      BY <1>same, <2>same, <3>4
      DEF NearestInv, EarlyBeforeJ, Named, Nearest, Candidate, TimeDiff
  <2>2. CASE ~Better(k)
    <3>1. match' = match /\ minTimeDiff' = minTimeDiff
      BY <1>2, <2>2 DEF Check
    <3>2. ASSUME match = 0 PROVE BestBefore(k)'
      <4>1. minTimeDiff = MaxTimeDiff /\ \A s \in DOMAIN sentences : s < k => ~Candidate(i, s)
        BY <2>best, <3>2, <1>shape DEF BestBefore
      <4>2. ~Candidate(i, k)
        BY <2>2, <4>1 DEF Better, Candidate
      <4>3. \A s \in DOMAIN sentences : s < k + 1 => ~Candidate(i, s)
        BY <4>1, <4>2, <2>below
      <4> QED
        BY <2>same, <3>1, <3>2, <4>1, <4>3 DEF BestBefore, Candidate, TimeDiff
    <3>3. ASSUME match # 0 PROVE BestBefore(k)'
      <4>1. /\ match \in DOMAIN sentences /\ match < k
            /\ Candidate(i, match) /\ minTimeDiff = TimeDiff(i, match)
            /\ \A t \in DOMAIN sentences : t < k /\ Candidate(i, t) =>
                  \/ TimeDiff(i, match) < TimeDiff(i, t)
                  \/ TimeDiff(i, match) = TimeDiff(i, t) /\ match <= t
        BY <2>best, <3>3 DEF BestBefore
      <4>2. Candidate(i, k) =>
               \/ TimeDiff(i, match) < TimeDiff(i, k)
               \/ TimeDiff(i, match) = TimeDiff(i, k) /\ match <= k
        BY <2>2, <4>1, <2>i, <2>diff, <1>shape DEF Better, Candidate
      <4>3. \A t \in DOMAIN sentences : t < k + 1 /\ Candidate(i, t) =>
               \/ TimeDiff(i, match) < TimeDiff(i, t)
               \/ TimeDiff(i, match) = TimeDiff(i, t) /\ match <= t
        BY <4>1, <4>2, <2>below
      <4>4. match < k + 1
        BY <4>1, <1>shape, <1>nat
      <4> QED
        BY <2>same, <3>1, <4>1, <4>3, <4>4 DEF BestBefore, Candidate, TimeDiff
    <3>4. BestBefore(k)'
      BY <3>2, <3>3
    <3> QED
      BY <1>same, <2>same, <3>4
      DEF NearestInv, EarlyBeforeJ, Named, Nearest, Candidate, TimeDiff
  <2> QED
    BY <2>1, <2>2
<1>3. ASSUME Assign PROVE NearestInv'
  <2>same. /\ UNCHANGED <<voice, captioned, sentences, similar, j>>
           /\ pc = "check" /\ i' = i + 1 /\ match' = 0 /\ minTimeDiff' = MaxTimeDiff
           /\ speaker' = [speaker EXCEPT ![i] = Matched]
           /\ pc' = IF i = Len(voice) THEN "done" ELSE "skip"
    BY <1>3 DEF Assign, inputs
  <2>i. i \in 1..Len(voice)
    BY <2>same, <1>types, AtEntry
  <2>best. BestBefore(k) /\ EarlyBeforeJ
    BY <2>same, <1>same DEF NearestInv
  <2>late. \A s \in DOMAIN sentences : ~ (s < k) => ~Candidate(i, s)
    <3> SUFFICES ASSUME NEW s \in 1..Len(sentences), k <= s PROVE ~Candidate(i, s)
      BY <1>shape, <1>nat
    <3>1. k \in 1..Len(sentences)
      BY <1>shape, <1>types DEF TypeOK
    <3>2. sentences[k].time > voice[i].time + MaxTimeDiff
      <4>1. ~ (sentences[k].time <= voice[i].time + MaxTimeDiff) /\ k <= Len(sentences)
        BY <1>3, <3>1, <1>shape DEF Assign, InWindow
      <4>2. sentences[k].time \in Int /\ voice[i].time \in Int
        BY <3>1, <2>i, <1>shape
      <4> QED
        BY <4>1, <4>2, <1>nat
    <3>3. sentences[k].time <= sentences[s].time
      BY <3>1, <1>lists, Shape
    <3>4. sentences[s].time > voice[i].time + MaxTimeDiff
      BY <3>1, <3>2, <3>3, <2>i, <1>shape, <1>nat
    <3> QED
      BY <3>4, <2>i, <1>lists, FarIsNoCandidate
  <2>1. \/ \E s \in DOMAIN sentences : Nearest(i, s) /\ Matched = sentences[s].name
        \/ (\A s \in DOMAIN sentences : ~Candidate(i, s)) /\ Matched = Unknown
    <3>1. CASE match = 0
      BY <3>1, <2>best, <2>late, <1>shape DEF BestBefore, Matched
    <3>2. CASE match # 0
      <4>1. Nearest(i, match) /\ match \in DOMAIN sentences
        BY <3>2, <2>best, <2>late DEF BestBefore, Nearest
      <4> QED
        BY <3>2, <4>1 DEF Matched
    <3> QED
      BY <3>1, <3>2
  <2>2. \A v \in DOMAIN voice : speaker'[v] = IF v = i THEN Matched ELSE speaker[v]
    BY <2>same, <1>types DEF TypeOK
  <2>3. ASSUME NEW v \in DOMAIN voice, v < i + 1 PROVE Named(v)'
    <3>1. v < i \/ v = i
      BY <2>3, <2>i, <1>shape
    <3>2. v < i => Named(v)
      BY <1>same DEF NearestInv
    <3>3. v < i => v # i
      BY <2>i, <1>shape
    <3>4. \/ \E s \in DOMAIN sentences : Nearest(v, s) /\ speaker'[v] = sentences[s].name
          \/ (\A s \in DOMAIN sentences : ~Candidate(v, s)) /\ speaker'[v] = Unknown
      BY <2>1, <2>2, <3>1, <3>2, <3>3 DEF Named
    <3> QED
      BY <2>same, <3>4 DEF Named, Nearest, Candidate, TimeDiff
  <2>4. pc' # "done" => EarlyBeforeJ'
    <3> SUFFICES ASSUME i # Len(voice), NEW s \in DOMAIN sentences, s < j
                 PROVE  sentences[s].time < voice[i + 1].time - MaxTimeDiff
      BY <2>same DEF EarlyBeforeJ
    <3>1. i + 1 \in 1..Len(voice) /\ i <= i + 1
      <4>1. Len(voice) \in Nat
        BY <1>shape
      <4> QED
        BY <4>1, <2>i, NextIndex
    <3>2. voice[i].time <= voice[i + 1].time
      BY <3>1, <2>i, <1>lists, Shape
    <3>3. sentences[s].time < voice[i].time - MaxTimeDiff
      BY <2>best DEF EarlyBeforeJ
    <3>4. sentences[s].time \in Int /\ voice[i].time \in Int /\ voice[i + 1].time \in Int
      BY <3>1, <2>i, <1>shape
    <3> QED
      BY <3>2, <3>3, <3>4, <1>nat
  <2> QED
    BY <2>same, <2>3, <2>4 DEF NearestInv
<1>4. CASE UNCHANGED vars
  BY <1>4, <1>same DEF vars, inputs, search, NearestInv, EarlyBeforeJ, BestBefore, Named, Nearest,
     Candidate, TimeDiff
<1> QED
  BY <1>1, <1>2, <1>3, <1>4, <1>same DEF Next, Relabel, NearestInv

\* Every entry that is done has the name of the first of the nearest similar
\* captions, or is unknown when there is none: walking both lists once finds
\* what a search of all pairs would find.
THEOREM NearestSpeakerCorrect == Spec => []NearestSpeaker
<1>1. Init => NearestInv
  <2> SUFFICES ASSUME Init PROVE NearestInv
    OBVIOUS
  <2>1. voice \in Voices /\ sentences \in Captions
    BY DEF Init
  <2>2. /\ \A v \in DOMAIN voice : ~ (v < i)
        /\ \A s \in DOMAIN sentences : ~ (s < j)
    BY <2>1, Shape DEF Init
  <2>3. EarlyBeforeJ
    BY <2>2 DEF EarlyBeforeJ
  <2> QED
    BY <2>2, <2>3 DEF Init, NearestInv
<1>2. NearestInv => NearestSpeaker
  BY DEF NearestInv, NearestSpeaker, Named
<1> QED
  BY <1>1, <1>2, NearestStep, TypeInvariant, PTL DEF Spec
=============================================================================
