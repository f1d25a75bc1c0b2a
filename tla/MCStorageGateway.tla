--------------------------- MODULE MCStorageGateway -------------------------
(* StorageGateway for TLC: INTEGER holds at most 2, so that author 3 and    *)
(* count 3 do not fit.                                                      *)
EXTENDS StorageGateway

R(a, n) == [author |-> a, count |-> n]

\* Two batches in opposite orders, single rows that grow and shrink, a batch
\* whose second row overflows, an author twice, two that are refused.
MCBatches == { <<R(1, 1), R(2, 2)>>, <<R(2, 1), R(1, 2)>>, <<R(1, 0)>>,
               <<R(2, 1), R(3, 1)>>, <<R(1, 2), R(1, 1)>>, <<R(1, 3)>>,
               <<R(0, 1)>>, <<>> }
=============================================================================
