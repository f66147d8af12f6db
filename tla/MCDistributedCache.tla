--------------------------- MODULE MCDistributedCache ---------------------------
(***************************************************************************)
(* Two calls at a time: through two instances, with one key, two values and*)
(* one time to live; or through one instance, with two keys and two times  *)
(* to live.  A run with liveness takes no SYMMETRY, so the first call is   *)
(* pinned to one of the interchangeable values.                            *)
(***************************************************************************)
EXTENDS DistributedCache, TLC

CONSTANTS i1, a, v, c1

Longest == CHOOSE l \in TTL : \A m \in TTL : m <= l

UsedInstance(i) ==
  \/ \E k \in Key : local[i][k] # NoLocal
  \/ queue[i] \cup batch[i] # {}
  \/ \E c \in Caller : call[c] # Idle /\ call[c].instance = i
UsedKey(k) ==
  \/ redis[k] # NoEntry \/ latest[k] # NoLocal \/ InProgress(k) # {}
  \/ \E i \in Instance : local[i][k] # NoLocal \/ k \in queue[i]

OneInstance ==
  /\ \A i \in Instance \ {i1} : ~UsedInstance(i)
  /\ \A k \in Key : latest[k].value \in {v, None}
  /\ \A c \in Caller : call[c].pc \notin {"getting", "storing"}
OneKey ==
  /\ \A k \in Key \ {a} : ~UsedKey(k)
  /\ \A c \in Caller : call[c].pc = "setting" => call[c].ttl = Longest
OneInstanceOrOneKey == OneInstance \/ OneKey

\* The first call is a set; the second caller is used when the first is busy.
FirstCalls ==
  /\ operations = 0 =>
       /\ call'[c1].pc \in {"idle", "setting"} /\ UNCHANGED queue
       /\ call'[c1] # Idle => /\ call'[c1].instance = i1 /\ call'[c1].key = a
                              /\ call'[c1].value = v
  /\ \A c \in Caller \ {c1} : call[c] = Idle /\ call'[c] # Idle => call[c1] # Idle
=============================================================================
