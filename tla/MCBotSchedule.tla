---------------------------- MODULE MCBotSchedule ----------------------------
(***************************************************************************)
(* TLC instances of BotSchedule.                                           *)
(***************************************************************************)
EXTENDS BotSchedule, TLC

\* The bots are alike.
Symmetric == Permutations(Bot)
=============================================================================
