--------------------------- MODULE MCBotLifecycle ---------------------------
(* Values of the constants of BotLifecycle for the runs of TLC.            *)
EXTENDS BotLifecycle, TLC

\* The system with the retry processor put into AwsModule.providers.
RetryProviders == ShippedProviders \cup {"ECSTaskProcessor"}

\* Bots, task ids and runs of syncTaskStatus are only compared for equality.
Symmetric == Permutations(Bot) \cup Permutations(TaskId) \cup Permutations(Syncer)
=============================================================================
