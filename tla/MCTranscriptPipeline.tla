------------------------ MODULE MCTranscriptPipeline ------------------------
(***************************************************************************)
(* TLC instances of TranscriptPipeline.                                    *)
(***************************************************************************)
EXTENDS TranscriptPipeline, TLC

\* Keys, slots of the pool and processes of gunicorn are alike; runs that check
\* safety only may use it.
Symmetric == Permutations(Key) \cup Permutations(Worker) \cup Permutations(Webhook)
=============================================================================
