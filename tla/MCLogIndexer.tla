---------------------------- MODULE MCLogIndexer ----------------------------
(* An indexer whose executions of save_logs overlap, with one relayer. *)
EXTENDS LogIndexer, TLC

CONSTANTS t1, t2, r1

OneTask == {t1}
TwoTasks == {t1, t2}
OneRelayer == {r1}
TaskSymmetry == Permutations(TwoTasks)
=============================================================================
