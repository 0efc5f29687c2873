---------------------------- MODULE MCMemoCache -----------------------------
(* Instances of MemoCache for TLC: the keys 1 and 2 have the same hash, 3    *)
(* shares their bucket, and the result of key 2 is a Tuple.                  *)
EXTENDS MemoCache

MCHash == [k \in Keys |-> IF k = 3 THEN 2 ELSE 4]
MCTuple == [k \in Keys |-> IF k = 2 THEN 2 ELSE 1]
MCBytes == [k \in Keys |-> IF k = 2 THEN 2 ELSE 1]
=============================================================================
