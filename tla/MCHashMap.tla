----------------------------- MODULE MCHashMap -----------------------------
(* Values for the constants of HashMap: keys as the chars of the string,   *)
(* the last with two chars above 127, which C reads as negative ones.  The *)
(* table has a power of two buckets, so the low 16 bits of the hash decide *)
(* the bucket and the upper 16 of the unsigned int can be left out.        *)
EXTENDS HashMap

MCKey == {<<>>, <<97>>, <<98, 97>>, <<-61, -87>>}
MCValue == {-1, 7}

\* The buckets written out, and that they are the hash's.
MCIndex == (<<>> :> 1) @@ (<<97>> :> 0) @@ (<<98, 97>> :> 0)
             @@ (<<-61, -87>> :> 1)

ASSUME IndexIsHash ==
  \A key \in MCKey : MCIndex[key] = Djb2(key, 65536) % Capacity
=============================================================================
