--------------------------- MODULE MCAdvancedCaching ---------------------------
(***************************************************************************)
(* Two callers.  Either no time passes and they use three keys, so that    *)
(* memory overflows, or they use one key and the clock passes two lives.   *)
(***************************************************************************)
EXTENDS AdvancedCaching, TLC

CONSTANTS small, large

MCSize == [v \in Value |-> IF v = small THEN 1 ELSE 2]
Symmetry == Permutations(Key) \cup Permutations(Caller)

Untouched(k) ==
  /\ memoryCache[k] = NoEntry /\ cacheEntries[k] = NoEntry
  /\ latest[k] = None /\ k \notin suspect /\ InProgress(k) = {}
NoTimeOrOneKey ==
  now = 0 \/ \E k \in Key : \A other \in Key \ {k} : Untouched(other)
=============================================================================
