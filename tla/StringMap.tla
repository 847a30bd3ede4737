------------------------------ MODULE StringMap ------------------------------
(***************************************************************************)
(* What parsing/DataStructures/hashmap.c promises its caller: a map from   *)
(* keys to ints that can be created, changed, asked and thrown away.  No   *)
(* buckets, chains or memory.                                              *)
(***************************************************************************)
EXTENDS Integers

CONSTANTS
  Key,    \* the strings used as keys
  Value   \* the ints stored under them

VARIABLES
  dict,    \* the keys present, with their values
  answer   \* what the last get returned

mapVars == <<dict, answer>>

\* What get answers for a key that is not there; a caller cannot tell it from
\* a stored -1.
Absent == -1

Lookup(key) == IF key \in DOMAIN dict THEN dict[key] ELSE Absent

MapInit == dict = <<>> /\ answer = Absent

Put(key, value) ==
  /\ dict' = [k \in DOMAIN dict \cup {key} |-> IF k = key THEN value ELSE dict[k]]
  /\ UNCHANGED answer

Get(key) == answer' = Lookup(key) /\ UNCHANGED dict

\* A map is thrown away, or a new one created.
Clear == dict' = <<>> /\ UNCHANGED answer

MapNext ==
  \/ \E key \in Key, value \in Value : Put(key, value)
  \/ \E key \in Key : Get(key)
  \/ Clear

MapSpec == MapInit /\ [][MapNext]_mapVars
=============================================================================
