---------------------------- MODULE FileContract ----------------------------
(***************************************************************************)
(* What the worker backend promises of an archive, and nothing of how: a   *)
(* file that is owed a result has somebody who will produce it.  No        *)
(* message, row, process or retry is in sight; TranscriptPipeline          *)
(* implements it.                                                          *)
(***************************************************************************)
EXTENDS TLAPS

CONSTANT Key

VARIABLES
    file,  \* "unseen", "owed" a result, or "settled" with a transcript or FAILED
    jobs,  \* the files somebody has still work to do for
    lost   \* the files that lost somebody without a word

vars == <<file, jobs, lost>>

Init == file = [k \in Key |-> "unseen"] /\ jobs = {} /\ lost = {}

\* A file is notified, asked for, or ordered again.
Ask(k) ==
    /\ jobs' = jobs \cup {k}
    /\ UNCHANGED <<file, lost>>

\* Only who works for a file promises a result, and the work goes on.
Promise(k) ==
    /\ k \in jobs
    /\ file' = [file EXCEPT ![k] = "owed"]
    /\ UNCHANGED <<jobs, lost>>

\* A result, of one job; others may go on.
Settle(k) ==
    /\ k \in jobs
    /\ file' = [file EXCEPT ![k] = "settled"]
    /\ jobs' \in {jobs, jobs \ {k}}
    /\ UNCHANGED lost

\* The last job for a file nothing was promised of ends without a result.
GiveUp(k) ==
    /\ k \in jobs /\ file[k] = "unseen"
    /\ jobs' = jobs \ {k}
    /\ UNCHANGED <<file, lost>>

\* A job ends and says nothing.
Lose(k) ==
    /\ k \in jobs
    /\ lost' = lost \cup {k}
    /\ jobs' \in {jobs, jobs \ {k}}
    /\ UNCHANGED file

Next == \E k \in Key : Ask(k) \/ Promise(k) \/ Settle(k) \/ GiveUp(k) \/ Lose(k)

Spec == Init /\ [][Next]_vars

-----------------------------------------------------------------------------
\* A file that is owed a result has somebody at work on it, or has lost one.
Kept == \A k \in Key : file[k] = "owed" => k \in jobs \/ k \in lost

\* Only a promise makes a file owed, and only a result or a loss takes the last
\* worker of it away: with "file" a function on Key, Kept is inductive.
THEOREM KeptCorrect == Spec => []Kept
<1> DEFINE Inv == file \in [Key -> {"unseen", "owed", "settled"}] /\ Kept
<1>1. Init => Inv
  BY DEF Init, Kept
<1>2. Inv /\ [Next]_vars => Inv'
  <2> SUFFICES ASSUME Inv, [Next]_vars PROVE Inv'
    OBVIOUS
  <2>1. ASSUME NEW k \in Key, Ask(k) PROVE Inv'
    BY <2>1 DEF Ask, Kept
  <2>2. ASSUME NEW k \in Key, Promise(k) PROVE Inv'
    BY <2>2 DEF Promise, Kept
  <2>3. ASSUME NEW k \in Key, Settle(k) PROVE Inv'
    BY <2>3 DEF Settle, Kept
  <2>4. ASSUME NEW k \in Key, GiveUp(k) PROVE Inv'
    BY <2>4 DEF GiveUp, Kept
  <2>5. ASSUME NEW k \in Key, Lose(k) PROVE Inv'
    BY <2>5 DEF Lose, Kept
  <2>6. CASE UNCHANGED vars
    BY <2>6 DEF vars, Kept
  <2> QED
    BY <2>1, <2>2, <2>3, <2>4, <2>5, <2>6 DEF Next
<1> QED
  BY <1>1, <1>2, PTL DEF Spec
=============================================================================
