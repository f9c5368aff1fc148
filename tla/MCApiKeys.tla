------------------------------ MODULE MCApiKeys ------------------------------
(***************************************************************************)
(* TLC instances of ApiKeys.                                               *)
(***************************************************************************)
EXTENDS ApiKeys, TLC

\* Users, keys and requests are alike; for runs without temporal properties.
Symmetric == Permutations(User) \cup Permutations(KeyId)
                \cup Permutations(Generator) \cup Permutations(Caller)
=============================================================================
