------------------------------- MODULE HashMap -------------------------------
(***************************************************************************)
(* parsing/DataStructures/hashmap.c with the heap it works on.  A block is *)
(* a number that is given out once (as in KeyValuePairArray); an Entry     *)
(* takes two, the struct and the copy of its key.  A bucket is the chain   *)
(* of its entries, first to last.  Which bucket a key falls into is a      *)
(* parameter: what the map promises must not depend on the hash.  Djb2 is  *)
(* the hash of the code.  Allocation succeeds.                             *)
(***************************************************************************)
EXTENDS Integers, Sequences, SequencesExt, FiniteSets

CONSTANTS
  Key,        \* the strings used as keys
  Value,      \* the ints stored under them
  Capacity,   \* buckets
  Index,      \* the bucket of each key
  MaxBlocks   \* bound: blocks ever allocated

ASSUME MapAssumption ==
  /\ Value \subseteq Int
  /\ Capacity \in Nat \ {0}
  /\ Index \in [Key -> 0..(Capacity - 1)]
  /\ MaxBlocks \in Nat

VARIABLES
  map,       \* the Hashmap; its owner has no other pointer into it
  heap,      \* the blocks that are allocated
  top,       \* the number of blocks ever allocated
  answer     \* what the last get returned

vars == <<map, heap, top, answer>>

Buckets == 0..(Capacity - 1)

-----------------------------------------------------------------------------
(* hash.                                                                   *)

\* `hash * 33 + c` on an unsigned int of `range` values, for each char of
\* the string; a char is signed and may be negative.
Djb2(chars, range) ==
  FoldLeft(LAMBDA h, c : (h * 33 + c) % range, 5381 % range, chars)

-----------------------------------------------------------------------------
(* The operations.                                                         *)

NoMap == [live |-> FALSE, self |-> 0, table |-> 0, size |-> 0,
          buckets |-> [b \in Buckets |-> <<>>]]

Init ==
  /\ map = NoMap
  /\ heap = {}
  /\ top = 0
  /\ answer = -1

CreateHashmap ==
  /\ ~ map.live
  /\ top + 2 <= MaxBlocks
  /\ map' = [NoMap EXCEPT !.live = TRUE, !.self = top + 1, !.table = top + 2]
  /\ heap' = heap \cup {top + 1, top + 2}
  /\ top' = top + 2
  /\ UNCHANGED answer

\* The entries of a key in its chain.
Found(key) ==
  LET chain == map.buckets[Index[key]]
  IN {i \in 1..Len(chain) : chain[i].key = key}

\* Where the walk along the chain stops.
First(S) == CHOOSE i \in S : \A j \in S : i <= j

\* put finds the key and changes its value ...
Update(key, value) ==
  /\ map.live
  /\ Found(key) # {}
  /\ map' = [map EXCEPT !.buckets[Index[key]][First(Found(key))].value = value]
  /\ UNCHANGED <<heap, top, answer>>

\* The entry put makes: a block for itself and one for the copy of its key.
NewEntry(key, value) ==
  [key |-> key, value |-> value, self |-> top + 1, copy |-> top + 2]

Insert_AlwaysNew(key, value) ==
  /\ map.live
  /\ top + 2 <= MaxBlocks
  /\ map' = [map EXCEPT !.size = @ + 1,
                        !.buckets[Index[key]] = <<NewEntry(key, value)>> \o @]
  /\ heap' = heap \cup {top + 1, top + 2}
  /\ top' = top + 2
  /\ UNCHANGED answer

Insert_DropsChain(key, value) ==
  /\ map.live
  /\ Found(key) = {}
  /\ top + 2 <= MaxBlocks
  /\ map' = [map EXCEPT !.size = @ + 1,
                        !.buckets[Index[key]] = <<NewEntry(key, value)>>]
  /\ heap' = heap \cup {top + 1, top + 2}
  /\ top' = top + 2
  /\ UNCHANGED answer

\* ... or walks off the chain and puts a new entry in front of it.
Insert(key, value) ==
  /\ map.live
  /\ Found(key) = {}
  /\ top + 2 <= MaxBlocks
  /\ map' = [map EXCEPT !.size = @ + 1,
                        !.buckets[Index[key]] = <<NewEntry(key, value)>> \o @]
  /\ heap' = heap \cup {top + 1, top + 2}
  /\ top' = top + 2
  /\ UNCHANGED answer

Get(key) ==
  /\ map.live
  /\ answer' = IF Found(key) = {} THEN -1
               ELSE map.buckets[Index[key]][First(Found(key))].value
  /\ UNCHANGED <<map, heap, top>>

\* The blocks of a chain.
ChainBlocks(chain) ==
  {chain[i].self : i \in 1..Len(chain)} \cup {chain[i].copy : i \in 1..Len(chain)}

MapBlocks_KeepsTable ==
  {map.self} \cup UNION {ChainBlocks(map.buckets[b]) : b \in Buckets}

\* The blocks free_hashmap gives back: bucket by bucket each entry's key and
\* the entry, then the table and the map.
MapBlocks ==
  {map.self, map.table} \cup UNION {ChainBlocks(map.buckets[b]) : b \in Buckets}

\* The walk reads an entry's `next` before it frees it.
FreeHashmap ==
  /\ map.live
  /\ heap' = heap \ MapBlocks
  /\ map' = NoMap
  /\ UNCHANGED <<top, answer>>

Next ==
  \/ CreateHashmap
  \/ \E key \in Key, value \in Value : Update(key, value) \/ Insert(key, value)
  \/ \E key \in Key : Get(key)
  \/ FreeHashmap

Spec == Init /\ [][Next]_vars

-----------------------------------------------------------------------------
(* Properties.                                                             *)

\* The entries of the table: a bucket and a place in its chain.
Places == {p \in Buckets \X (1..map.size) : p[2] <= Len(map.buckets[p[1]])}

Entry(p) == map.buckets[p[1]][p[2]]

EntryType == [key : Key, value : Value, self : Nat, copy : Nat]

\* Every variable has its type, and a table never counts more entries than
\* there are keys (hashmap.h:14-18).
HashTypeOK ==
  /\ map \in [live : BOOLEAN, self : Nat, table : Nat, size : Nat,
              buckets : [Buckets -> Seq(EntryType)]]
  /\ map.size <= Cardinality(Key)
  /\ top \in 0..MaxBlocks
  /\ heap \subseteq 1..top
  /\ answer \in Value \cup {-1}

\* A key stands in its own bucket and nowhere else, at most once, and size
\* counts the entries: whatever collides, put finds what an earlier put left
\* and get cannot see a stale entry (hashmap.c:19-37).
EntriesWellPlaced ==
  /\ \A b \in Buckets : Len(map.buckets[b]) <= map.size
  /\ Cardinality(Places) = map.size
  /\ \A p \in Places : Index[Entry(p).key] = p[1]
  /\ \A p, q \in Places : Entry(p).key = Entry(q).key => p = q

\* Every allocated block belongs to one entry or is the table or the map, so
\* free_hashmap frees each exactly once and leaves nothing (hashmap.c:53-65).
BlocksOwned ==
  /\ heap = IF map.live THEN MapBlocks ELSE {}
  /\ map.live => Cardinality(MapBlocks) = 2 + 2 * map.size

Dict == [k \in {key \in Key : Found(key) # {}} |->
           map.buckets[Index[k]][First(Found(k))].value]

M == INSTANCE StringMap WITH dict <- Dict

\* The table with its chains is a map: for any hash, with any collisions, get
\* answers with the last value put under the key, or -1.
ImplementsMap == M!MapSpec
=============================================================================
