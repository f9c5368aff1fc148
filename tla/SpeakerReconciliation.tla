------------------------ MODULE SpeakerReconciliation ------------------------
(***************************************************************************)
(* reconcile_speakers: gives each sentence of the transcript AssemblyAI    *)
(* made the name of who was speaking, from the captions the meeting bot    *)
(* wrote down.  The sentence gets the name of the nearest caption within   *)
(* MAX_TIME_DIFF that is similar to it.  Both lists are walked with        *)
(* indices that only move forward; a step is an iteration of a loop.       *)
(* Without captions, the labels of AssemblyAI are replaced by unique ids.  *)
(***************************************************************************)
EXTENDS Integers, Sequences

CONSTANTS
    MaxTimeDiff, \* MAX_TIME_DIFF; 60 seconds in the code
    Label,       \* the speakers of AssemblyAI
    Name,        \* the persons of the captions
    Id,          \* what unique_speaker_ids returns
    Unknown,     \* 'Unknown Speaker'
    None,        \* no value
    Voices,      \* the voice transcripts there may be
    Captions     \* the sentences of the captions there may be

ASSUME ReconciliationConstants ==
    /\ MaxTimeDiff \in Nat \ {0}
    /\ None \notin Id
    /\ Voices \subseteq Seq([time : Int, label : Label])
    /\ Captions \subseteq Seq([time : Int, name : Name])

Sorted(list) == \A a, b \in DOMAIN list : a <= b => list[a].time <= list[b].time

\* AssemblyAI returns the sentences, and the bot writes the captions, in the
\* order of time.
ASSUME SortedInputs == \A list \in Voices \cup Captions : Sorted(list)

VARIABLES
    voice,       \* voice_transcript: absolute_time and Speaker
    captioned,   \* original_transcript has a transcript
    sentences,   \* original_sentences
    similar,     \* the pairs with similarity >= SIMILARITY_THRESHOLD
    speaker,     \* the field 'Speaker' of the entries, overwritten in place
    ids,         \* speaker_to_personName
    pc, i, j, k, \* the loop, its voice entry, and the two caption indices
    match,       \* matched_original_entry, 0 for None
    minTimeDiff

inputs == <<voice, captioned, sentences, similar>>
search == <<k, match, minTimeDiff>>
vars   == <<inputs, speaker, ids, pc, i, j, search>>

-----------------------------------------------------------------------------
Abs(n) == IF n < 0 THEN -n ELSE n

TimeDiff(v, s) == Abs(voice[v].time - sentences[s].time)

TypeOK ==
    /\ voice \in Voices /\ sentences \in Captions /\ captioned \in BOOLEAN
    /\ similar \in SUBSET ((DOMAIN voice) \X (DOMAIN sentences))
    /\ speaker \in [DOMAIN voice -> Label \cup Name \cup Id \cup {Unknown}]
    /\ ids \in [Label -> Id \cup {None}]
    /\ pc \in {"relabel", "skip", "check", "done"}
    /\ i \in 1..(Len(voice) + 1)
    /\ j \in 1..(Len(sentences) + 1) /\ k \in 1..(Len(sentences) + 1)
    /\ match \in 0..Len(sentences)
    /\ minTimeDiff \in Nat

Init ==
    /\ voice \in Voices /\ captioned \in BOOLEAN
    /\ sentences \in Captions /\ (captioned \/ sentences = <<>>)
    /\ similar \in SUBSET ((DOMAIN voice) \X (DOMAIN sentences))
    /\ speaker = [v \in DOMAIN voice |-> voice[v].label]
    /\ ids = [l \in Label |-> None]
    /\ pc = IF voice = <<>> THEN "done" ELSE IF captioned THEN "skip" ELSE "relabel"
    /\ i = 1 /\ j = 1 /\ k = 1
    /\ match = 0 /\ minTimeDiff = MaxTimeDiff

-----------------------------------------------------------------------------
(* Without captions.                                                       *)

\* The id of a label met before, or a new one.
AlwaysNew(label, id) == \A l \in Label : ids[l] # id
IdFor(label, id) ==
    IF ids[label] = None THEN \A l \in Label : ids[l] # id ELSE id = ids[label]

Relabel ==
    /\ pc = "relabel"
    /\ \E id \in Id :
          /\ IdFor(speaker[i], id)
          /\ ids' = [ids EXCEPT ![speaker[i]] = id]
          /\ speaker' = [speaker EXCEPT ![i] = id]
    /\ i' = i + 1
    /\ pc' = IF i = Len(voice) THEN "done" ELSE "relabel"
    /\ UNCHANGED <<inputs, j, search>>

-----------------------------------------------------------------------------
(* With captions.                                                          *)

TooEarly(s) == s <= Len(sentences) /\ sentences[s].time < voice[i].time - MaxTimeDiff

InWindow(s) == s <= Len(sentences) /\ sentences[s].time <= voice[i].time + MaxTimeDiff

\* while ...: j += 1, and then k = j.
Skip ==
    /\ pc = "skip"
    /\ IF TooEarly(j) THEN j' = j + 1 /\ UNCHANGED <<pc, k>>
                      ELSE pc' = "check" /\ k' = j /\ UNCHANGED j
    /\ UNCHANGED <<inputs, speaker, ids, i, match, minTimeDiff>>

\* A similar caption replaces the match only when it is nearer.
BetterOrEqual(s) == <<i, s>> \in similar /\ TimeDiff(i, s) <= minTimeDiff
Better(s) == <<i, s>> \in similar /\ TimeDiff(i, s) < minTimeDiff

Check ==
    /\ pc = "check" /\ InWindow(k)
    /\ IF Better(k) THEN match' = k /\ minTimeDiff' = TimeDiff(i, k)
                    ELSE UNCHANGED <<match, minTimeDiff>>
    /\ k' = k + 1
    /\ UNCHANGED <<inputs, speaker, ids, pc, i, j>>

MatchedOrNone == IF match = 0 THEN None ELSE sentences[match].name
Matched == IF match = 0 THEN Unknown ELSE sentences[match].name

\* The end of the window: the entry gets its name, and the next one begins.
\* j stays where it is.
Assign ==
    /\ pc = "check" /\ ~InWindow(k)
    /\ speaker' = [speaker EXCEPT ![i] = Matched]
    /\ i' = i + 1
    /\ match' = 0 /\ minTimeDiff' = MaxTimeDiff
    /\ pc' = IF i = Len(voice) THEN "done" ELSE "skip"
    /\ UNCHANGED <<inputs, ids, j, k>>

-----------------------------------------------------------------------------
Next == Relabel \/ Skip \/ Check \/ Assign

Spec == Init /\ [][Next]_vars

-----------------------------------------------------------------------------
(* Properties.                                                             *)

Candidate(v, s) == <<v, s>> \in similar /\ TimeDiff(v, s) < MaxTimeDiff

\* The first of the nearest candidates of entry v.
Nearest(v, s) ==
    /\ Candidate(v, s)
    /\ \A t \in DOMAIN sentences : Candidate(v, t) =>
          \/ TimeDiff(v, s) < TimeDiff(v, t)
          \/ TimeDiff(v, s) = TimeDiff(v, t) /\ s <= t

\* The docstring of reconcile_speakers ("person names based on timestamp
\* alignment and text similarity", speaker_reconciliation.py:22): an entry that
\* is done has the name of the nearest similar caption of all, though only a
\* window is looked at and j never goes back.
NearestSpeaker ==
    captioned =>
        \A v \in DOMAIN voice : v < i =>
            \/ \E s \in DOMAIN sentences :
                  Nearest(v, s) /\ speaker[v] = sentences[s].name
            \/ /\ \A s \in DOMAIN sentences : ~Candidate(v, s)
               /\ speaker[v] = Unknown

\* Without captions two entries have the same id in the end exactly when
\* AssemblyAI gave them the same label (speaker_reconciliation.py:33).
SameVoiceSameId ==
    ~captioned /\ pc = "done" =>
        \A v, w \in DOMAIN voice :
            speaker[v] = speaker[w] <=> voice[v].label = voice[w].label
=============================================================================
