------------------------ MODULE MCKeyValuePairArray ------------------------
(* Values for the constants of KeyValuePairArray.                          *)
EXTENDS KeyValuePairArray

\* Within the limit, at it, above it, and one that a char cuts to 1.
MCCapacities == {0, 2, 3, 257}
=============================================================================
