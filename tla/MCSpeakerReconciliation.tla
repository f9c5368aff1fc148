----------------------- MODULE MCSpeakerReconciliation -----------------------
(***************************************************************************)
(* TLC instances of SpeakerReconciliation: all lists up to a length, with  *)
(* times around each other in and out of the window, and every similarity. *)
(***************************************************************************)
EXTENDS SpeakerReconciliation

CONSTANTS LastTime, MaxVoices, MaxCaptions

Lists(Elem, n) == {list \in UNION {[1..m -> Elem] : m \in 0..n} : Sorted(list)}

MCVoices == Lists([time : 0..LastTime, label : Label], MaxVoices)

\* Who says the caption at a position does not matter, so the persons take turns.
MCCaptions ==
    {list \in Lists([time : 0..LastTime, name : Name], MaxCaptions) :
        \A a, b \in DOMAIN list : list[a].name = list[b].name <=> a % 2 = b % 2}
=============================================================================
