-------------------------- MODULE MCWatchExecutor --------------------------
(* Watchers, intents and deposit signatures are interchangeable.           *)
EXTENDS WatchExecutor, TLC

Symmetry ==
    Permutations(Watchers) \cup Permutations(Intents) \cup Permutations(Deposits)

============================================================================
