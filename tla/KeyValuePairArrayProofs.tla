---------------------- MODULE KeyValuePairArrayProofs ----------------------
(***************************************************************************)
(* Proofs about KeyValuePairArray, for every set of keys, texts and        *)
(* capacities: the array stays within its room, its blocks are its own and *)
(* are freed once, and a look-up sees the first pair offered.              *)
(*                                                                         *)
(* The first lemmas are about one call each and do not look at the caller. *)
(***************************************************************************)
EXTENDS KeyValuePairArray, PositionProofs, FiniteSetTheorems

-----------------------------------------------------------------------------
(* The invariant.                                                          *)

\* No block is pointed to twice from the array: what free_key_value_pair_array
\* relies on.  Pointers that got no block are all NULL.
BlocksDistinct ==
  /\ \A i, j \in 1..array.size :
       LET p == array.pairs[i]
           q == array.pairs[j]
       IN /\ p.key # Null => p.key # q.value
          /\ p.key # Null /\ p.key = q.key => i = j
          /\ p.value # Null /\ p.value = q.value => i = j
  /\ \A i \in 1..array.size : \A block \in {array.data, array.request_type} :
       block # Null => block \notin {array.pairs[i].key, array.pairs[i].value}
  /\ array.live => array.data # Garbage
  /\ array.live /\ array.data # Null => array.data # array.request_type

\* What the array points to is allocated, and so is what the caller keeps; no
\* block is in both hands.
BlocksHeld ==
  /\ Owned \subseteq heap
  /\ refused \subseteq heap
  /\ Owned \cap refused = {}

\* The array holds the pairs offered first, as many as it has room for.
HoldsFirstOffered ==
  array.live =>
    /\ array.size = IF Len(offered) <= array.capacity THEN Len(offered)
                    ELSE array.capacity
    /\ \A i \in 1..array.size : /\ array.pairs[i].name = offered[i].name
                                /\ array.pairs[i].text = offered[i].text

\* A pointer of the array is NULL only because an allocation failed.
NullNeedsFailure ==
  (\/ array.live /\ array.data = Null
   \/ \E i \in 1..array.size : Null \in {array.pairs[i].key, array.pairs[i].value})
    => failures > 0

ArrayInv ==
  /\ ArrayTypeOK
  /\ BlocksDistinct
  /\ BlocksHeld
  /\ HoldsFirstOffered
  /\ NullNeedsFailure

\* The blocks that are neither the array's nor the caller's.
Unowned == heap \ (Owned \cup refused)

-----------------------------------------------------------------------------
(* Allocation.                                                             *)

\* Each call returns NULL or a block that no call returned before, and as many
\* fail as the bound allows.
LEMMA AllocationsReturn ==
  ASSUME top \in Nat, NEW n \in Nat, NEW p \in Allocations(n)
  PROVE  /\ Len(p) = n
         /\ \A i \in 1..n : p[i] = Null \/ p[i] = top + i
         /\ Cardinality({i \in 1..n : p[i] = Null}) \in Nat
         /\ failures + Cardinality({i \in 1..n : p[i] = Null}) <= MaxFailures
<1>1. PICK failed \in SUBSET (1..n) :
        /\ failures + Cardinality(failed) <= MaxFailures
        /\ p = [i \in 1..n |-> IF i \in failed THEN Null ELSE top + i]
  BY DEF Allocations
<1>2. {i \in 1..n : p[i] = Null} = failed
  <2>1. \A i \in 1..n : p[i] = Null <=> i \in failed
    BY <1>1 DEF Null
  <2> QED BY <2>1
<1>3. Cardinality(failed) \in Nat
  <2>1. IsFiniteSet(1..n)
    BY FS_Interval
  <2> QED BY <1>1, <2>1, FS_Subset, FS_CardinalityType
<1>4. p \in Seq(Int) /\ Len(p) = n
  <2>1. p \in [1..n -> Int]
    BY <1>1 DEF Null
  <2>2. p \in Seq(Int)
    BY <2>1, SeqDef
  <2> QED BY <2>1, <2>2, LenProperties
<1> QED BY <1>1, <1>2, <1>3, <1>4

\* The heap after them.
LEMMA TakeStep ==
  ASSUME top \in Nat, heap \subseteq 1..top, failures \in 0..MaxFailures,
         NEW n \in Nat, NEW p \in Allocations(n), Take(p)
  PROVE  /\ top' = top + n
         /\ heap' = heap \cup ({p[i] : i \in 1..n} \ {Null})
         /\ heap' \subseteq 1..top'
         /\ failures' \in failures..MaxFailures
         /\ (\E i \in 1..n : p[i] = Null) => failures' > 0
         /\ \A i \in 1..n : p[i] = Null \/ p[i] = top + i
<1> DEFINE null == {i \in 1..n : p[i] = Null}
<1>1. /\ Len(p) = n
      /\ \A i \in 1..n : p[i] = Null \/ p[i] = top + i
      /\ Cardinality(null) \in Nat
      /\ failures + Cardinality(null) <= MaxFailures
  BY AllocationsReturn
<1>2. /\ top' = top + n
      /\ heap' = heap \cup {p[i] : i \in 1..n \ null}
      /\ failures' = failures + Cardinality(null)
  BY <1>1 DEF Take
<1>3. {p[i] : i \in 1..n \ null} = {p[i] : i \in 1..n} \ {Null}
  OBVIOUS
<1>4. heap' \subseteq 1..top'
  <2>1. \A i \in 1..n \ null : p[i] \in 1..(top + n)
    BY <1>1
  <2>2. 1..top \subseteq 1..(top + n)
    OBVIOUS
  <2> QED BY <1>2, <2>1, <2>2
<1>5. ASSUME NEW i \in 1..n, p[i] = Null
      PROVE  Cardinality(null) # 0
  <2>1. IsFiniteSet(1..n)
    BY FS_Interval
  <2>2. IsFiniteSet(null)
    BY <2>1, FS_Subset
  <2>3. i \in null
    BY <1>5
  <2> HIDE DEF null
  <2> QED BY <2>2, <2>3, FS_EmptySet
<1>6. failures' \in failures..MaxFailures
  BY <1>1, <1>2, ArrayAssumption
<1>7. (\E i \in 1..n : p[i] = Null) => failures' > 0
  BY <1>1, <1>2, <1>5
<1> QED BY <1>1, <1>2, <1>3, <1>4, <1>6, <1>7

-----------------------------------------------------------------------------
(* The calls that fill the array.                                          *)

\* init_key_value_array: an empty array with one block or none.
LEMMA InitArrayStep ==
  ASSUME ArrayInv, ~ array.live, NEW capacity \in Nat, InitArray(capacity)
  PROVE  ArrayInv' /\ Unowned' = Unowned
<1>1. Granted(capacity) \in 0..MaxCapacity
  BY ArrayAssumption DEF Granted
<1>2. PICK p \in Allocations(1), stale \in Stale :
        /\ Take(p)
        /\ array' = [NoArray EXCEPT !.live = TRUE, !.data = p[1],
                                    !.capacity = Granted(capacity),
                                    !.request_type = stale]
  BY DEF InitArray
<1>3. array' = [live |-> TRUE, data |-> p[1], size |-> 0,
                capacity |-> Granted(capacity), request_type |-> stale,
                pairs |-> <<>>]
  BY <1>2 DEF NoArray
<1>4. offered' = <<>> /\ UNCHANGED <<refused, badFree, crashed>>
  BY DEF InitArray
<1>5. /\ top' = top + 1
      /\ heap' = heap \cup ({p[1]} \ {Null})
      /\ heap' \subseteq 1..top'
      /\ failures' \in 0..MaxFailures
      /\ p[1] = Null => failures' > 0
      /\ p[1] = Null \/ p[1] = top + 1
  <2>1. top \in Nat /\ heap \subseteq 1..top /\ failures \in 0..MaxFailures
    BY DEF ArrayInv, ArrayTypeOK
  <2>2. /\ top' = top + 1
        /\ heap' = heap \cup ({p[i] : i \in 1..1} \ {Null})
        /\ heap' \subseteq 1..top'
        /\ failures' \in failures..MaxFailures
        /\ (\E i \in 1..1 : p[i] = Null) => failures' > 0
        /\ \A i \in 1..1 : p[i] = Null \/ p[i] = top + i
    BY <1>2, <2>1, TakeStep
  <2> QED BY <2>1, <2>2
<1>6. /\ Owned = {} /\ refused \subseteq heap /\ refused \subseteq 1..top
      /\ top \in Nat /\ heap \subseteq 1..top
  BY DEF ArrayInv, ArrayTypeOK, BlocksHeld, Owned
<1>7. Owned' = {p[1]} \ {Null}
  BY <1>3, <1>5, <1>6, EmptySeq DEF Owned, Stale, Null, Garbage
<1>8. ArrayTypeOK'
  <2>1. <<>> \in Seq(Pair) /\ Len(<<>>) = 0
    BY EmptySeq
  <2>2. stale \in Nat \cup {Garbage} /\ p[1] \in Nat \cup {Garbage}
    BY <1>2, <1>5, <1>6 DEF Stale, Null
  <2>3. <<>> \in Seq([name : Key, text : Text])
    BY EmptySeq
  <2>4. UNCHANGED <<refused, badFree, crashed>> /\ badFree \in BOOLEAN /\ crashed \in BOOLEAN
    BY <1>4 DEF ArrayInv, ArrayTypeOK
  <2> QED BY <1>1, <1>3, <1>4, <1>5, <1>6, <2>1, <2>2, <2>3, <2>4 DEF ArrayTypeOK
<1>9. BlocksDistinct'
  BY <1>3, <1>5, <1>6, EmptySeq DEF BlocksDistinct, Stale, Null, Garbage
<1>10. BlocksHeld'
  BY <1>4, <1>5, <1>6, <1>7 DEF BlocksHeld
<1>11. HoldsFirstOffered' /\ NullNeedsFailure'
  BY <1>1, <1>3, <1>4, <1>5, EmptySeq DEF HoldsFirstOffered, NullNeedsFailure
<1>12. Unowned' = Unowned
  BY <1>4, <1>5, <1>6, <1>7 DEF Unowned
<1> QED BY <1>8, <1>9, <1>10, <1>11, <1>12 DEF ArrayInv

\* set_request_type: one more block, or NULL, in the place of the name there
\* was, which nobody points to any more.
LEMMA SetRequestTypeStep ==
  ASSUME ArrayInv, array.live, SetRequestType
  PROVE  /\ ArrayInv'
         /\ Unowned' = Unowned \cup ({array.request_type} \ Stale)
         /\ array.request_type \in Stale => Unowned' = Unowned
<1>1. PICK p \in Allocations(1) :
        Take(p) /\ array' = [array EXCEPT !.request_type = p[1]]
  BY DEF SetRequestType
<1>2. /\ array'.live = array.live /\ array'.data = array.data
      /\ array'.size = array.size /\ array'.capacity = array.capacity
      /\ array'.pairs = array.pairs /\ array'.request_type = p[1]
  BY <1>1 DEF ArrayInv, ArrayTypeOK
<1>3. UNCHANGED <<refused, offered, badFree, crashed>>
  BY DEF SetRequestType
<1>4. /\ top \in Nat /\ heap \subseteq 1..top /\ failures \in 0..MaxFailures
      /\ Owned \subseteq heap /\ refused \subseteq heap /\ Owned \cap refused = {}
      /\ array.size = Len(array.pairs) /\ array.pairs \in Seq(Pair)
  BY DEF ArrayInv, ArrayTypeOK, BlocksHeld
<1>5. /\ top' = top + 1
      /\ heap' = heap \cup ({p[1]} \ {Null})
      /\ heap' \subseteq 1..top'
      /\ failures' \in failures..MaxFailures
      /\ p[1] = Null \/ p[1] = top + 1
  <2>1. /\ top' = top + 1
        /\ heap' = heap \cup ({p[i] : i \in 1..1} \ {Null})
        /\ heap' \subseteq 1..top'
        /\ failures' \in failures..MaxFailures
        /\ \A i \in 1..1 : p[i] = Null \/ p[i] = top + i
    BY <1>1, <1>4, TakeStep
  <2> QED BY <2>1
<1>6. ArrayTypeOK'
  <2>1. ArrayTypeOK
    BY DEF ArrayInv
  <2>2. p[1] \in Nat \cup {Garbage}
    BY <1>4, <1>5 DEF Null
  <2>3. array' \in [live : BOOLEAN, data : Nat \cup {Garbage}, size : Nat,
                    capacity : 0..MaxCapacity, request_type : Nat \cup {Garbage},
                    pairs : Seq(Pair)]
    BY <1>1, <2>1, <2>2 DEF ArrayTypeOK
  <2>4. refused \subseteq 1..top' /\ top' \in Nat /\ failures' \in 0..MaxFailures
    BY <1>4, <1>5, <2>1 DEF ArrayTypeOK
  <2> QED BY <1>2, <1>3, <1>5, <2>1, <2>3, <2>4 DEF ArrayTypeOK
<1>7. Owned' \subseteq Owned \cup ({p[1]} \ {Null})
  BY <1>2 DEF Owned, Stale
<1>8. p[1] # Null => p[1] \notin heap
  BY <1>4, <1>5
<1>9. BlocksHeld'
  BY <1>3, <1>4, <1>5, <1>7, <1>8 DEF BlocksHeld
<1>10. \A i \in 1..array.size :
         {array.pairs[i].key, array.pairs[i].value} \subseteq heap \cup {Null, Garbage}
  BY <1>4 DEF Owned, Stale, ArrayInv
<1>11. array.data \in heap \cup {Null, Garbage}
  BY <1>4 DEF Owned, Stale
<1>12. BlocksDistinct'
  BY <1>2, <1>5, <1>8, <1>10, <1>11 DEF ArrayInv, BlocksDistinct, Null, Garbage
<1>13. HoldsFirstOffered' /\ NullNeedsFailure'
  BY <1>2, <1>3, <1>4, <1>5 DEF ArrayInv, HoldsFirstOffered, NullNeedsFailure
<1>14. Unowned' = Unowned \cup ({array.request_type} \ Stale)
  <2> DEFINE keys == {array.pairs[i].key : i \in 1..array.size}
             values == {array.pairs[i].value : i \in 1..array.size}
             old == {array.request_type} \ Stale
             new == {p[1]} \ {Null}
             rest == ({array.data} \cup keys \cup values) \ Stale
  <2>1. Owned = rest \cup old /\ Owned' = rest \cup ({p[1]} \ Stale)
    BY <1>2, <1>4 DEF Owned
  <2>2. {p[1]} \ Stale = new
    BY <1>4, <1>5 DEF Stale, Null, Garbage
  <2>3. rest \cap old = {}
    <3>1. ASSUME NEW block \in old
          PROVE  block # array.data /\ block \notin keys /\ block \notin values
      <4>1. block = array.request_type /\ block # Null
        BY <3>1 DEF Stale
      <4>2. array.data = Null \/ array.data # array.request_type
        BY DEF ArrayInv, BlocksDistinct
      <4>3. \A i \in 1..array.size :
              block \notin {array.pairs[i].key, array.pairs[i].value}
        BY <4>1 DEF ArrayInv, BlocksDistinct
      <4> QED BY <4>1, <4>2, <4>3
    <3> QED BY <3>1
  <2>4. new \cap heap = {}
    BY <1>8
  <2> HIDE DEF rest, old, new
  <2>5. Unowned' = (heap \cup new) \ ((rest \cup new) \cup refused)
    BY <1>3, <1>5, <2>1, <2>2 DEF Unowned, new
  <2>6. Unowned = heap \ ((rest \cup old) \cup refused)
    BY <2>1 DEF Unowned
  <2>7. old \subseteq heap /\ old \cap refused = {}
    BY <1>4, <2>1
  <2>8. Unowned' = Unowned \cup old
    BY <2>3, <2>4, <2>5, <2>6, <2>7, <1>4
  <2> QED BY <2>8 DEF old
<1> QED BY <1>6, <1>9, <1>12, <1>13, <1>14 DEF ArrayInv

\* init_key_value_pair and add_key_value: a full array gives the blocks to the
\* caller, any other takes them into one more pair.
LEMMA AddPairStep ==
  ASSUME ArrayInv, array.live, NEW key \in Key, NEW text \in Text,
         AddPair(key, text)
  PROVE  /\ ArrayInv'
         /\ Unowned' = Unowned
         /\ crashed' => failures' > 0
<1>1. PICK p \in Allocations(2) :
        LET pair == [key |-> p[1], value |-> p[2], name |-> key, text |-> text]
            full == array.size = array.capacity
        IN
        /\ Take(p)
        /\ offered' = Append(offered, [name |-> key, text |-> text])
        /\ array' = IF full THEN array
                    ELSE [array EXCEPT !.size = @ + 1, !.pairs = Append(@, pair)]
        /\ refused' = IF full THEN refused \cup ({p[1], p[2]} \ {Null}) ELSE refused
        /\ crashed' = \/ text = Missing /\ p[2] = Null
                      \/ ~ full /\ array.data = Null
        /\ UNCHANGED badFree
  BY DEF AddPair
<1> DEFINE pair == [key |-> p[1], value |-> p[2], name |-> key, text |-> text]
           new == {p[1], p[2]} \ {Null}
           n == array.size
<1>2. /\ top \in Nat /\ heap \subseteq 1..top /\ failures \in 0..MaxFailures
      /\ Owned \subseteq heap /\ refused \subseteq heap /\ Owned \cap refused = {}
      /\ refused \subseteq 1..top
      /\ n = Len(array.pairs) /\ array.pairs \in Seq(Pair)
      /\ n \in Nat /\ array.capacity \in Nat /\ n <= array.capacity
      /\ offered \in Seq([name : Key, text : Text])
      /\ badFree \in BOOLEAN
  BY DEF ArrayInv, ArrayTypeOK, BlocksHeld
<1>3. /\ top' = top + 2
      /\ heap' = heap \cup new
      /\ heap' \subseteq 1..top'
      /\ failures' \in failures..MaxFailures
      /\ p[1] = Null \/ p[2] = Null => failures' > 0
      /\ p[1] = Null \/ p[1] = top + 1
      /\ p[2] = Null \/ p[2] = top + 2
  <2>1. /\ top' = top + 2
        /\ heap' = heap \cup ({p[i] : i \in 1..2} \ {Null})
        /\ heap' \subseteq 1..top'
        /\ failures' \in failures..MaxFailures
        /\ (\E i \in 1..2 : p[i] = Null) => failures' > 0
        /\ \A i \in 1..2 : p[i] = Null \/ p[i] = top + i
    BY <1>1, <1>2, TakeStep
  <2>2. 1..2 = {1, 2}
    OBVIOUS
  <2>3. {p[i] : i \in {1, 2}} = {p[1], p[2]}
    OBVIOUS
  <2>4. (\E i \in {1, 2} : p[i] = Null) => failures' > 0
    BY <2>1, <2>2
  <2>5. \A i \in {1, 2} : p[i] = Null \/ p[i] = top + i
    BY <2>1, <2>2
  <2> QED BY <2>1, <2>2, <2>3, <2>4, <2>5
<1>4. new \cap heap = {} /\ p[1] \in Nat /\ p[2] \in Nat /\ (p[1] = p[2] => p[1] = Null)
  BY <1>2, <1>3 DEF Null
<1>5. /\ [name |-> key, text |-> text] \in [name : Key, text : Text]
      /\ offered' = Append(offered, [name |-> key, text |-> text])
      /\ offered' \in Seq([name : Key, text : Text])
      /\ Len(offered) \in Nat
      /\ Len(offered') = Len(offered) + 1
      /\ \A i \in 1..Len(offered) : offered'[i] = offered[i]
      /\ offered'[Len(offered) + 1] = [name |-> key, text |-> text]
  BY <1>1, <1>2, AppendProperties, LenProperties
<1>6. crashed' \in BOOLEAN /\ badFree' \in BOOLEAN
  BY <1>1, <1>2
<1>7. ASSUME n = array.capacity
      PROVE  ArrayInv' /\ Unowned' = Unowned
  <2>1. array' = array /\ refused' = refused \cup new
    BY <1>1, <1>7
  <2>2. Owned' = Owned
    BY <2>1 DEF Owned
  <2>3. new \subseteq heap' /\ refused' \subseteq 1..top'
    BY <1>2, <1>3, <2>1
  <2>4. ArrayTypeOK'
    BY <1>2, <1>3, <1>5, <1>6, <2>1, <2>3 DEF ArrayInv, ArrayTypeOK
  <2>5. BlocksDistinct'
    BY <2>1 DEF ArrayInv, BlocksDistinct
  <2>6. BlocksHeld'
    BY <1>2, <1>3, <1>4, <2>1, <2>2 DEF BlocksHeld
  <2>7. HoldsFirstOffered'
    BY <1>2, <1>5, <1>7, <2>1 DEF ArrayInv, HoldsFirstOffered
  <2>8. NullNeedsFailure'
    BY <1>2, <1>3, <2>1 DEF ArrayInv, NullNeedsFailure
  <2>9. Unowned' = Unowned
    <3>1. heap' = heap \cup new /\ new \cap heap = {}
      BY <1>3, <1>4
    <3>2. Unowned' = heap' \ (Owned' \cup refused')
      BY DEF Unowned
    <3> HIDE DEF new
    <3>3. Unowned' = (heap \cup new) \ (Owned \cup (refused \cup new))
      BY <2>1, <2>2, <3>1, <3>2
    <3> QED BY <3>1, <3>3 DEF Unowned
  <2> QED BY <2>4, <2>5, <2>6, <2>7, <2>8, <2>9 DEF ArrayInv
<1>8. ASSUME n # array.capacity
      PROVE  ArrayInv' /\ Unowned' = Unowned
  <2>1. pair \in Pair
    BY <1>4 DEF Pair
  <2>2. /\ array'.live = array.live /\ array'.data = array.data
        /\ array'.size = n + 1 /\ array'.capacity = array.capacity
        /\ array'.request_type = array.request_type
        /\ array'.pairs = Append(array.pairs, pair)
        /\ refused' = refused
    BY <1>1, <1>8 DEF ArrayInv, ArrayTypeOK
  <2>13. array' = [array EXCEPT !.size = n + 1, !.pairs = Append(array.pairs, pair)]
    BY <1>1, <1>8 DEF ArrayInv, ArrayTypeOK
  <2> HIDE DEF pair
  <2>3. /\ array'.pairs \in Seq(Pair)
        /\ Len(array'.pairs) = n + 1
        /\ \A i \in 1..n : array'.pairs[i] = array.pairs[i]
        /\ array'.pairs[n + 1] = pair
    BY <1>2, <2>1, <2>2, AppendProperties
  <2>4. pair.key = p[1] /\ pair.value = p[2] /\ pair.name = key /\ pair.text = text
    BY DEF pair
  <2>5. array' \in [live : BOOLEAN, data : Nat \cup {Garbage}, size : Nat,
                    capacity : 0..MaxCapacity, request_type : Nat \cup {Garbage},
                    pairs : Seq(Pair)]
    <3>1. n + 1 \in Nat /\ Append(array.pairs, pair) \in Seq(Pair)
      BY <1>2, <2>2, <2>3
    <3> QED BY <2>13, <3>1 DEF ArrayInv, ArrayTypeOK
  <2>6. ArrayTypeOK'
    BY <1>2, <1>3, <1>5, <1>6, <1>8, <2>2, <2>3, <2>5 DEF ArrayTypeOK
  <2>7. Owned' = Owned \cup new
    <3>1. 1..(n + 1) = (1..n) \cup {n + 1}
      BY <1>2
    <3>2. {array'.pairs[i].key : i \in 1..(n + 1)}
            = {array.pairs[i].key : i \in 1..n} \cup {p[1]}
      BY <2>3, <2>4, <3>1
    <3>3. {array'.pairs[i].value : i \in 1..(n + 1)}
            = {array.pairs[i].value : i \in 1..n} \cup {p[2]}
      BY <2>3, <2>4, <3>1
    <3> DEFINE keys == {array.pairs[i].key : i \in 1..n}
               values == {array.pairs[i].value : i \in 1..n}
               rest == {array.data, array.request_type}
    <3>4. Owned = (rest \cup keys \cup values) \ Stale
      BY <1>2 DEF Owned
    <3>5. Owned' = (rest \cup (keys \cup {p[1]}) \cup (values \cup {p[2]})) \ Stale
      BY <2>2, <2>3, <3>2, <3>3 DEF Owned
    <3>6. {p[1], p[2]} \ Stale = new
      BY <1>4 DEF Stale, Null, Garbage
    <3> HIDE DEF keys, values, rest, new
    <3> QED BY <3>4, <3>5, <3>6
  <2>8. BlocksHeld'
    BY <1>2, <1>3, <1>4, <2>2, <2>7 DEF BlocksHeld
  <2>9. /\ \A i \in 1..n : {array.pairs[i].key, array.pairs[i].value}
                               \subseteq heap \cup {Null, Garbage}
        /\ {array.data, array.request_type} \subseteq heap \cup {Null, Garbage}
    BY <1>2 DEF Owned, Stale
  <2>10. BlocksDistinct'
    <3>1. \A i \in 1..(n + 1) : i \in 1..n \/ i = n + 1
      BY <1>2
    <3>2. \A b \in new : \A i \in 1..n :
            b # array.pairs[i].key /\ b # array.pairs[i].value
      BY <1>4, <2>9 DEF Null, Garbage
    <3>3. \A b \in new : b # array.data /\ b # array.request_type
      BY <1>4, <2>9 DEF Null, Garbage
    <3>4. BlocksDistinct
      BY DEF ArrayInv
    <3> DEFINE pairs == array'.pairs
    <3>5. /\ \A i \in 1..n : pairs[i] = array.pairs[i]
          /\ pairs[n + 1].key = p[1] /\ pairs[n + 1].value = p[2]
      BY <2>3, <2>4
    <3> HIDE DEF pairs
    <3>6. ASSUME NEW i \in 1..(n + 1), NEW j \in 1..(n + 1)
          PROVE  /\ pairs[i].key # Null => pairs[i].key # pairs[j].value
                 /\ pairs[i].key # Null /\ pairs[i].key = pairs[j].key => i = j
                 /\ pairs[i].value # Null /\ pairs[i].value = pairs[j].value
                      => i = j
      <4>1. CASE i \in 1..n /\ j \in 1..n
        BY <3>4, <3>5, <4>1 DEF BlocksDistinct
      <4>2. CASE i \in 1..n /\ j = n + 1
        <5>1. pairs[i] = array.pairs[i]
          BY <3>5, <4>2
        <5>2. pairs[j].key = p[1] /\ pairs[j].value = p[2]
          BY <3>5, <4>2
        <5>3. \A b \in {p[1], p[2]} :
                b # Null => b # array.pairs[i].key /\ b # array.pairs[i].value
          BY <3>2, <4>2
        <5> QED BY <5>1, <5>2, <5>3
      <4>3. CASE i = n + 1 /\ j \in 1..n
        <5>1. pairs[j] = array.pairs[j]
          BY <3>5, <4>3
        <5>2. pairs[i].key = p[1] /\ pairs[i].value = p[2]
          BY <3>5, <4>3
        <5>3. \A b \in {p[1], p[2]} :
                b # Null => b # array.pairs[j].key /\ b # array.pairs[j].value
          BY <3>2, <4>3
        <5> QED BY <5>1, <5>2, <5>3
      <4>4. CASE i = n + 1 /\ j = n + 1
        <5>1. /\ pairs[i].key = p[1] /\ pairs[j].value = p[2]
              /\ i = j
          BY <3>5, <4>4
        <5>2. p[1] # Null => p[1] # p[2]
          BY <1>4
        <5> QED BY <5>1, <5>2
      <4> QED BY <3>1, <4>1, <4>2, <4>3, <4>4
    <3>7. ASSUME NEW i \in 1..(n + 1),
                 NEW block \in {array.data, array.request_type}, block # Null
          PROVE  block \notin {pairs[i].key, pairs[i].value}
      <4>1. CASE i \in 1..n
        BY <3>4, <3>5, <3>7, <4>1 DEF BlocksDistinct
      <4>2. CASE i = n + 1
        BY <3>3, <3>5, <3>7, <4>2
      <4> QED BY <3>1, <4>1, <4>2
    <3>8. /\ array.live => array.data # Garbage
          /\ array.live /\ array.data # Null => array.data # array.request_type
      BY <3>4 DEF BlocksDistinct
    <3>9. /\ array'.size = n + 1 /\ array'.live = array.live
          /\ array'.data = array.data /\ array'.request_type = array.request_type
      BY <2>2
    <3> QED BY <3>6, <3>7, <3>8, <3>9 DEF BlocksDistinct, pairs
  <2>11. HoldsFirstOffered'
    <3>1. n = Len(offered)
      BY <1>2, <1>5, <1>8 DEF ArrayInv, HoldsFirstOffered
    <3>2. \A i \in 1..(n + 1) : i \in 1..n \/ i = n + 1
      BY <1>2
    <3> QED
      BY <1>2, <1>5, <1>8, <2>2, <2>3, <2>4, <3>1, <3>2
      DEF ArrayInv, HoldsFirstOffered
  <2>12. NullNeedsFailure'
    <3>1. \A i \in 1..(n + 1) : i \in 1..n \/ i = n + 1
      BY <1>2
    <3> QED
      BY <1>2, <1>3, <2>2, <2>3, <2>4, <3>1 DEF ArrayInv, NullNeedsFailure
  <2>14. Unowned' = Unowned
    <3>1. heap' = heap \cup new /\ new \cap heap = {}
      BY <1>3, <1>4
    <3>2. Unowned' = heap' \ (Owned' \cup refused')
      BY DEF Unowned
    <3> HIDE DEF new
    <3>3. Unowned' = (heap \cup new) \ ((Owned \cup new) \cup refused)
      BY <2>2, <2>7, <3>1, <3>2
    <3> QED BY <3>1, <3>3 DEF Unowned
  <2> QED BY <2>6, <2>8, <2>10, <2>11, <2>12, <2>14 DEF ArrayInv
<1>9. crashed' => failures' > 0
  <2>1. array.data = Null => failures > 0
    BY DEF ArrayInv, NullNeedsFailure
  <2>2. crashed' => p[2] = Null \/ array.data = Null
    BY <1>1
  <2>3. failures > 0 => failures' > 0
    BY <1>2, <1>3
  <2> QED BY <1>3, <2>1, <2>2, <2>3
<1> QED BY <1>7, <1>8, <1>9

-----------------------------------------------------------------------------
(* Freeing the array.                                                      *)

\* The k-th pointer freed belongs to the pair before or at half of k.
LEMMA Halves ==
  ASSUME NEW n \in Nat, NEW k \in 1..(2 * n)
  PROVE  /\ (k + 1) \div 2 \in 1..n
         /\ k % 2 \in {0, 1}
         /\ k = 2 * ((k + 1) \div 2) - (k % 2)
OBVIOUS

\* free_key_value_pair_array frees the keys and values of all pairs, then the
\* request type, then the pairs themselves.
LEMMA ReleasedPointers ==
  ASSUME ArrayTypeOK
  PROVE  LET n == array.size IN
         /\ Len(Released) = 2 * n + 2
         /\ \A k \in 1..(2 * n) :
              Released[k] = IF k % 2 = 1 THEN array.pairs[(k + 1) \div 2].key
                            ELSE array.pairs[(k + 1) \div 2].value
         /\ Released[2 * n + 1] = array.request_type
         /\ Released[2 * n + 2] = array.data
<1> DEFINE n == array.size
           front == [k \in 1..(2 * n) |->
                       LET pair == array.pairs[(k + 1) \div 2] IN
                       IF k % 2 = 1 THEN pair.key ELSE pair.value]
           back == <<array.request_type, array.data>>
<1>1. n \in Nat /\ n = Len(array.pairs) /\ array.pairs \in Seq(Pair)
  BY DEF ArrayTypeOK
<1>2. \A i \in 1..n : array.pairs[i].key \in Int /\ array.pairs[i].value \in Int
  <2>1. \A i \in 1..n : array.pairs[i] \in Pair
    BY <1>1, ElementOfSeq
  <2> QED BY <2>1 DEF Pair
<1>3. front \in [1..(2 * n) -> Int]
  <2>1. \A k \in 1..(2 * n) : (k + 1) \div 2 \in 1..n
    BY <1>1, Halves
  <2> QED BY <1>2, <2>1
<1>4. front \in Seq(Int) /\ Len(front) = 2 * n
  <2>1. 2 * n \in Nat
    BY <1>1
  <2> HIDE DEF front
  <2>2. front \in Seq(Int)
    BY <1>3, <2>1, SeqDef
  <2> QED BY <1>3, <2>1, <2>2, LenProperties
<1>5. back \in Seq(Int) /\ Len(back) = 2 /\ back[1] = array.request_type
        /\ back[2] = array.data
  BY DEF ArrayTypeOK, Garbage
<1>6. Released = front \o back
  BY DEF Released, PairPointers
<1>7. /\ Len(front \o back) = 2 * n + 2
      /\ \A k \in 1..(2 * n + 2) :
           (front \o back)[k] = IF k <= 2 * n THEN front[k] ELSE back[k - 2 * n]
  <2> HIDE DEF front, back
  <2>1. /\ Len(front \o back) = Len(front) + Len(back)
        /\ \A k \in 1..(Len(front) + Len(back)) :
             (front \o back)[k] = IF k <= Len(front) THEN front[k]
                                 ELSE back[k - Len(front)]
    BY <1>4, <1>5, ConcatProperties
  <2>2. Len(front) = 2 * n /\ Len(back) = 2
    BY <1>4, <1>5
  <2> HIDE DEF n
  <2> QED BY <2>1, <2>2
<1>8. 2 * n + 1 \in 1..(2 * n + 2) /\ 2 * n + 2 \in 1..(2 * n + 2)
  BY <1>1
<1>9. \A k \in 1..(2 * n) : /\ k \in 1..(2 * n + 2)
                            /\ (front \o back)[k] = front[k]
  BY <1>1, <1>7
<1>10. /\ (front \o back)[2 * n + 1] = back[1]
       /\ (front \o back)[2 * n + 2] = back[2]
  <2> DEFINE m == 2 * n
             both == front \o back
  <2>1. m \in Nat
    BY <1>1
  <2>2. \A k \in 1..(m + 2) : both[k] = IF k <= m THEN front[k] ELSE back[k - m]
    BY <1>7
  <2> HIDE DEF both, front, back, m
  <2>3. both[m + 1] = back[m + 1 - m] /\ both[m + 2] = back[m + 2 - m]
    BY <2>1, <2>2
  <2>4. m + 1 - m = 1 /\ m + 2 - m = 2
    BY <2>1
  <2> QED BY <2>3, <2>4 DEF both, m
<1> QED BY <1>5, <1>6, <1>7, <1>9, <1>10

\* Freed is exactly what the array owns, NULLs and an unset request type aside.
LEMMA ReleasedIsOwned ==
  ASSUME ArrayTypeOK, array.live
  PROVE  {Released[k] : k \in 1..Len(Released)} \ Stale = Owned
<1> DEFINE n == array.size
           freed == {Released[k] : k \in 1..Len(Released)}
           held == {array.data, array.request_type}
                     \cup {array.pairs[i].key : i \in 1..n}
                     \cup {array.pairs[i].value : i \in 1..n}
<1>1. /\ n \in Nat /\ n = Len(array.pairs)
      /\ Len(Released) = 2 * n + 2
      /\ \A k \in 1..(2 * n) :
           Released[k] = IF k % 2 = 1 THEN array.pairs[(k + 1) \div 2].key
                         ELSE array.pairs[(k + 1) \div 2].value
      /\ Released[2 * n + 1] = array.request_type
      /\ Released[2 * n + 2] = array.data
  BY ReleasedPointers DEF ArrayTypeOK
<1>2. ASSUME NEW k \in 1..Len(Released) PROVE Released[k] \in held
  <2>1. CASE k \in 1..(2 * n)
    <3>1. (k + 1) \div 2 \in 1..n
      BY <1>1, <2>1, Halves
    <3> QED BY <1>1, <2>1, <3>1
  <2>2. CASE k \in {2 * n + 1, 2 * n + 2}
    BY <1>1, <2>2
  <2> QED BY <1>1, <2>1, <2>2
<1>3. ASSUME NEW i \in 1..n
      PROVE  array.pairs[i].key \in freed /\ array.pairs[i].value \in freed
  <2>1. 2 * i - 1 \in 1..(2 * n) /\ 2 * i \in 1..(2 * n) /\ i \in Nat
    BY <1>1
  <2>4. /\ (2 * i - 1) % 2 = 1 /\ (2 * i - 1 + 1) \div 2 = i
        /\ (2 * i) % 2 # 1 /\ (2 * i + 1) \div 2 = i
    BY <2>1
  <2>2. /\ Released[2 * i - 1] = array.pairs[i].key
        /\ Released[2 * i] = array.pairs[i].value
    BY <1>1, <2>1, <2>4
  <2>3. 2 * i - 1 \in 1..Len(Released) /\ 2 * i \in 1..Len(Released)
    BY <1>1, <2>1
  <2> QED BY <2>2, <2>3
<1>4. array.data \in freed /\ array.request_type \in freed
  BY <1>1
<1>5. freed = held
  <2>1. freed \subseteq held
    BY <1>2
  <2>2. held \subseteq freed
    <3> HIDE DEF freed
    <3> QED BY <1>3, <1>4
  <2> QED BY <2>1, <2>2
<1>6. Owned = held \ Stale
  BY <1>1 DEF Owned
<1> QED BY <1>5, <1>6

\* It frees no block twice.
LEMMA ReleasedOnce ==
  ASSUME ArrayInv, array.live,
         NEW i \in 1..Len(Released), NEW j \in 1..(i - 1),
         Released[i] # Null
  PROVE  Released[j] # Released[i]
<1> DEFINE n == array.size
           half(k) == (k + 1) \div 2
<1>1. /\ n \in Nat
      /\ Len(Released) = 2 * n + 2
      /\ \A k \in 1..(2 * n) :
           Released[k] = IF k % 2 = 1 THEN array.pairs[half(k)].key
                         ELSE array.pairs[half(k)].value
      /\ Released[2 * n + 1] = array.request_type
      /\ Released[2 * n + 2] = array.data
  BY ReleasedPointers DEF ArrayInv, ArrayTypeOK
<1>2. \A k \in 1..(2 * n) : /\ half(k) \in 1..n
                            /\ k % 2 \in {0, 1}
                            /\ k = 2 * half(k) - (k % 2)
  BY <1>1, Halves
<1> HIDE DEF half
<1>3. BlocksDistinct
  BY DEF ArrayInv
<1>4. CASE i \in 1..(2 * n)
  <2>1. j \in 1..(2 * n) /\ i # j
    BY <1>1, <1>4
  <2> DEFINE a == array.pairs[half(i)]
             b == array.pairs[half(j)]
  <2>2. half(i) \in 1..n /\ half(j) \in 1..n
    BY <1>2, <1>4, <2>1
  <2>3. half(i) = half(j) => i % 2 # j % 2
    BY <1>2, <1>4, <2>1
  <2>4. i % 2 \in {0, 1} /\ j % 2 \in {0, 1}
    BY <1>2, <1>4, <2>1
  <2>5. /\ Released[i] = IF i % 2 = 1 THEN a.key ELSE a.value
        /\ Released[j] = IF j % 2 = 1 THEN b.key ELSE b.value
    BY <1>1, <1>4, <2>1
  <2>6. /\ a.key # Null => a.key # b.value
        /\ b.key # Null => b.key # a.value
        /\ a.key # Null /\ a.key = b.key => half(i) = half(j)
        /\ a.value # Null /\ a.value = b.value => half(i) = half(j)
    BY <1>3, <2>2 DEF BlocksDistinct
  <2> HIDE DEF a, b
  <2>7. CASE i % 2 = 1 /\ j % 2 = 1
    BY <2>3, <2>5, <2>6, <2>7
  <2>8. CASE i % 2 = 1 /\ j % 2 = 0
    BY <2>5, <2>6, <2>8
  <2>9. CASE i % 2 = 0 /\ j % 2 = 1
    BY <2>5, <2>6, <2>9
  <2>10. CASE i % 2 = 0 /\ j % 2 = 0
    BY <2>3, <2>5, <2>6, <2>10
  <2> QED BY <2>4, <2>7, <2>8, <2>9, <2>10
<1>5. ASSUME Released[i] \in {array.data, array.request_type}, j \in 1..(2 * n)
      PROVE  Released[j] # Released[i]
  <2>1. half(j) \in 1..n
    BY <1>2, <1>5
  <2>2. Released[j] \in {array.pairs[half(j)].key, array.pairs[half(j)].value}
    BY <1>1, <1>5
  <2> QED BY <1>3, <1>5, <2>1, <2>2 DEF BlocksDistinct
<1>6. CASE i = 2 * n + 1
  BY <1>1, <1>5, <1>6
<1>7. CASE i = 2 * n + 2
  <2>1. CASE j \in 1..(2 * n)
    BY <1>1, <1>5, <1>7, <2>1
  <2>2. CASE j = 2 * n + 1
    BY <1>1, <1>3, <1>7, <2>2 DEF BlocksDistinct
  <2> QED BY <1>1, <1>7, <2>1, <2>2
<1> QED BY <1>1, <1>4, <1>6, <1>7

\* free_key_value_pair_array leaves nothing of the array.
LEMMA FreeArrayStep ==
  ASSUME ArrayInv, array.live, FreeArray
  PROVE  /\ ArrayInv'
         /\ Unowned' = Unowned
         /\ array.request_type # Garbage => badFree' = badFree
<1> DEFINE freed == {Released[k] : k \in 1..Len(Released)}
<1>1. /\ heap' = heap \ freed
      /\ badFree' = (badFree \/ \E i \in 1..Len(Released) :
                        /\ Released[i] # Null
                        /\ \/ Released[i] \notin heap
                           \/ \E j \in 1..(i - 1) : Released[j] = Released[i])
      /\ array' = NoArray
      /\ UNCHANGED <<top, failures, refused, offered, crashed>>
  BY DEF FreeArray, Free
<1>2. freed \ Stale = Owned
  BY ReleasedIsOwned DEF ArrayInv
<1>3. /\ heap \subseteq 1..top /\ top \in Nat /\ badFree \in BOOLEAN
      /\ Owned \subseteq heap /\ refused \subseteq heap /\ Owned \cap refused = {}
  BY DEF ArrayInv, ArrayTypeOK, BlocksHeld
<1>4. Stale \cap heap = {}
  BY <1>3 DEF Stale, Null, Garbage
<1> HIDE DEF freed
<1>5. Owned' = {}
  BY <1>1 DEF Owned, NoArray
<1>6. ArrayTypeOK'
  <2>1. badFree' \in BOOLEAN
    BY <1>1, <1>3
  <2>2. <<>> \in Seq(Pair) /\ Len(<<>>) = 0
    BY EmptySeq
  <2>3. /\ array' = NoArray
        /\ NoArray \in [live : BOOLEAN, data : Nat \cup {Garbage}, size : Nat,
                        capacity : 0..MaxCapacity,
                        request_type : Nat \cup {Garbage}, pairs : Seq(Pair)]
    BY <1>1, <2>2, ArrayAssumption DEF NoArray
  <2>4. array'.size = Len(array'.pairs) /\ array'.size <= array'.capacity
    BY <1>1, <2>2 DEF NoArray
  <2> QED
    BY <1>1, <1>3, <2>1, <2>3, <2>4 DEF ArrayInv, ArrayTypeOK
<1>7. BlocksDistinct'
  BY <1>1 DEF BlocksDistinct, NoArray
<1>8. BlocksHeld'
  BY <1>1, <1>2, <1>3, <1>4, <1>5 DEF BlocksHeld
<1>9. HoldsFirstOffered' /\ NullNeedsFailure'
  BY <1>1 DEF HoldsFirstOffered, NullNeedsFailure, NoArray
<1>10. Unowned' = Unowned
  BY <1>1, <1>2, <1>3, <1>4, <1>5 DEF Unowned
<1>11. ASSUME array.request_type # Garbage
       PROVE  badFree' = badFree
  <2>1. ASSUME NEW i \in 1..Len(Released), Released[i] # Null
        PROVE  Released[i] \in heap
    <3>1. Released[i] # Garbage
      <4>1. /\ array.size \in Nat
            /\ array.pairs \in Seq(Pair)
            /\ array.size = Len(array.pairs)
            /\ array.data # Garbage
        BY DEF ArrayInv, ArrayTypeOK, BlocksDistinct
      <4>2. \A k \in 1..array.size :
              array.pairs[k].key # Garbage /\ array.pairs[k].value # Garbage
        <5>1. \A k \in 1..array.size : array.pairs[k] \in Pair
          BY <4>1, ElementOfSeq
        <5> QED BY <5>1 DEF Pair, Garbage
      <4>3. CASE i \in 1..(2 * array.size)
        <5>1. (i + 1) \div 2 \in 1..array.size
          BY <4>1, <4>3, Halves
        <5>2. Released[i] \in {array.pairs[(i + 1) \div 2].key,
                              array.pairs[(i + 1) \div 2].value}
          BY <4>3, ReleasedPointers DEF ArrayInv
        <5> QED BY <4>2, <5>1, <5>2
      <4>4. CASE i \in {2 * array.size + 1, 2 * array.size + 2}
        BY <1>11, <4>1, <4>4, ReleasedPointers DEF ArrayInv
      <4>5. Len(Released) = 2 * array.size + 2
        BY ReleasedPointers DEF ArrayInv
      <4> QED BY <4>1, <4>3, <4>4, <4>5
    <3>2. Released[i] \in freed
      BY DEF freed
    <3> QED BY <1>2, <1>3, <2>1, <3>1, <3>2 DEF Stale
  <2>2. \A i \in 1..Len(Released) : Released[i] # Null =>
          \A j \in 1..(i - 1) : Released[j] # Released[i]
    BY ReleasedOnce
  <2> QED BY <1>1, <1>3, <2>1, <2>2
<1> QED BY <1>6, <1>7, <1>8, <1>9, <1>10, <1>11 DEF ArrayInv

\* The pointers of the pairs are the first ones it frees.
LEMMA PairPointersFirst ==
  ASSUME ArrayTypeOK
  PROVE  /\ Len(PairPointers) = 2 * array.size
         /\ \A k \in 1..(2 * array.size) : PairPointers[k] = Released[k]
<1>1. array.size \in Nat /\ array.size = Len(array.pairs) /\ array.pairs \in Seq(Pair)
  BY DEF ArrayTypeOK
<1>2. PairPointers \in [1..(2 * array.size) -> Int]
  <2>1. \A i \in 1..array.size : array.pairs[i].key \in Int /\ array.pairs[i].value \in Int
    <3>1. \A i \in 1..array.size : array.pairs[i] \in Pair
      BY <1>1, ElementOfSeq
    <3> QED BY <3>1 DEF Pair
  <2>2. \A k \in 1..(2 * array.size) : (k + 1) \div 2 \in 1..array.size
    BY <1>1, Halves
  <2> QED BY <2>1, <2>2 DEF PairPointers
<1>3. PairPointers \in Seq(Int) /\ Len(PairPointers) = 2 * array.size
  <2>1. 2 * array.size \in Nat
    BY <1>1
  <2>2. PairPointers \in Seq(Int)
    BY <1>2, <2>1, SeqDef
  <2> QED BY <1>2, <2>1, <2>2, LenProperties
<1>4. ASSUME NEW k \in 1..(2 * array.size)
      PROVE  PairPointers[k] = Released[k]
  BY ReleasedPointers DEF PairPointers
<1> QED BY <1>3, <1>4

\* An owner that frees the pairs or the data by hand frees each block once, and
\* what the array pointed to beside them is nobody's.
LEMMA ReleaseByHandStep ==
  ASSUME ArrayInv, ReleaseByHand
  PROVE  /\ ArrayInv'
         /\ \E left : /\ lost' = lost \cup left
                     /\ Unowned' = Unowned \cup left
         /\ badFree' = badFree
         /\ UNCHANGED <<failures, crashed>>
<1>1. PICK pointers \in {PairPointers, <<array.data>>} :
        /\ Free(pointers)
        /\ lost' = lost \cup (Owned \ {pointers[i] : i \in 1..Len(pointers)})
  BY DEF ReleaseByHand
<1> DEFINE freed == {pointers[i] : i \in 1..Len(pointers)}
<1>2. /\ array.live /\ array' = NoArray
      /\ UNCHANGED <<top, failures, refused, offered, crashed>>
  BY DEF ReleaseByHand
<1>3. /\ heap' = heap \ freed
      /\ badFree' = (badFree \/ \E i \in 1..Len(pointers) :
                        /\ pointers[i] # Null
                        /\ \/ pointers[i] \notin heap
                           \/ \E j \in 1..(i - 1) : pointers[j] = pointers[i])
      /\ lost' = lost \cup (Owned \ freed)
  BY <1>1 DEF Free
<1>4. /\ heap \subseteq 1..top /\ top \in Nat /\ badFree \in BOOLEAN
      /\ Owned \subseteq heap /\ refused \subseteq heap /\ Owned \cap refused = {}
      /\ array.size \in Nat /\ array.size = Len(array.pairs)
      /\ array.pairs \in Seq(Pair)
  BY DEF ArrayInv, ArrayTypeOK, BlocksHeld
<1>5. Len(Released) = 2 * array.size + 2 /\ Released[2 * array.size + 2] = array.data
  BY ReleasedPointers DEF ArrayInv
<1>6. ASSUME NEW i \in 1..Len(pointers)
      PROVE  /\ pointers[i] \in Owned \cup {Null}
             /\ pointers[i] # Null =>
                  \A j \in 1..(i - 1) : pointers[j] # pointers[i]
  <2>1. CASE pointers = PairPointers
    <3>1. /\ Len(pointers) = 2 * array.size
          /\ \A k \in 1..(2 * array.size) : pointers[k] = Released[k]
      BY <2>1, PairPointersFirst DEF ArrayInv
    <3>2. i \in 1..(2 * array.size) /\ i \in 1..Len(Released)
      BY <1>4, <1>5, <3>1
    <3>3. pointers[i] # Garbage
      <4>1. \A k \in 1..array.size :
              array.pairs[k].key # Garbage /\ array.pairs[k].value # Garbage
        <5>1. \A k \in 1..array.size : array.pairs[k] \in Pair
          BY <1>4, ElementOfSeq
        <5> QED BY <5>1 DEF Pair, Garbage
      <4>2. (i + 1) \div 2 \in 1..array.size
        BY <1>4, <3>2, Halves
      <4>3. Released[i] \in {array.pairs[(i + 1) \div 2].key,
                            array.pairs[(i + 1) \div 2].value}
        BY <3>2, ReleasedPointers DEF ArrayInv
      <4> QED BY <3>1, <3>2, <4>1, <4>2, <4>3
    <3>4. pointers[i] \in Owned \cup {Null}
      <4>1. {Released[k] : k \in 1..Len(Released)} \ Stale = Owned
        BY <1>2, ReleasedIsOwned DEF ArrayInv
      <4> QED BY <3>1, <3>2, <3>3, <4>1 DEF Stale
    <3>5. ASSUME pointers[i] # Null, NEW j \in 1..(i - 1)
          PROVE  pointers[j] # pointers[i]
      <4>1. j \in 1..(2 * array.size)
        BY <1>4, <3>2
      <4>2. Released[j] # Released[i]
        BY <1>2, <3>1, <3>2, <3>5, ReleasedOnce
      <4> QED BY <3>1, <3>2, <4>1, <4>2
    <3> QED BY <3>4, <3>5
  <2>2. CASE pointers = <<array.data>>
    <3>1. i = 1 /\ pointers[i] = array.data
      BY <2>2
    <3>2. array.data # Garbage
      BY <1>2 DEF ArrayInv, BlocksDistinct
    <3>3. array.data \in Owned \cup {Null}
      BY <1>2, <3>2 DEF Owned, Stale
    <3> QED BY <3>1, <3>3
  <2> QED BY <1>1, <2>1, <2>2
<1>7. freed \subseteq Owned \cup {Null}
  BY <1>6
<1>8. badFree' = badFree
  BY <1>3, <1>4, <1>6
<1> HIDE DEF freed
<1>9. Owned' = {}
  BY <1>2 DEF Owned, NoArray
<1>10. ArrayTypeOK'
  <2>1. badFree' \in BOOLEAN
    BY <1>4, <1>8
  <2>2. <<>> \in Seq(Pair) /\ Len(<<>>) = 0
    BY EmptySeq
  <2>3. /\ array' = NoArray
        /\ NoArray \in [live : BOOLEAN, data : Nat \cup {Garbage}, size : Nat,
                        capacity : 0..MaxCapacity,
                        request_type : Nat \cup {Garbage}, pairs : Seq(Pair)]
    BY <1>2, <2>2, ArrayAssumption DEF NoArray
  <2>4. array'.size = Len(array'.pairs) /\ array'.size <= array'.capacity
    BY <1>2, <2>2 DEF NoArray
  <2> QED BY <1>2, <1>3, <1>4, <2>1, <2>3, <2>4 DEF ArrayInv, ArrayTypeOK
<1>11. BlocksDistinct'
  BY <1>2 DEF BlocksDistinct, NoArray
<1>12. refused' \subseteq heap' /\ BlocksHeld'
  <2>1. Null \notin heap
    BY <1>4 DEF Null
  <2> QED BY <1>2, <1>3, <1>4, <1>7, <1>9, <2>1 DEF BlocksHeld
<1>13. HoldsFirstOffered' /\ NullNeedsFailure'
  BY <1>2 DEF HoldsFirstOffered, NullNeedsFailure, NoArray
<1>14. Unowned' = Unowned \cup (Owned \ freed)
  <2>1. Null \notin heap
    BY <1>4 DEF Null
  <2> QED BY <1>2, <1>3, <1>4, <1>7, <1>9, <2>1 DEF Unowned
<1> QED
  BY <1>2, <1>3, <1>8, <1>10, <1>11, <1>12, <1>13, <1>14 DEF ArrayInv

-----------------------------------------------------------------------------
(* Look-ups.                                                               *)

\* A look-up that meets no NULL key sees the first pair offered under its key,
\* if that was among the first `capacity` pairs.
LEMMA LookUpSeesFirst ==
  ASSUME ArrayInv
  PROVE  FirstPairWins
<1> SUFFICES ASSUME array.live, NEW key \in Key, ~ MeetsNull(key)
             PROVE  LET early == {i \in 1..Len(offered) :
                                    /\ i <= array.capacity
                                    /\ offered[i].name = key}
                    IN /\ GetKey(key) <=> early # {}
                       /\ \A i \in early :
                            (\A j \in early : i <= j)
                              => GetValue(key).text = offered[i].text
  BY DEF FirstPairWins
<1> DEFINE early == {i \in 1..Len(offered) : /\ i <= array.capacity
                                             /\ offered[i].name = key}
           named == PairsNamed(key)
<1>1. /\ array.size \in Nat /\ array.capacity \in Nat /\ Len(offered) \in Nat
      /\ array.size = IF Len(offered) <= array.capacity THEN Len(offered)
                      ELSE array.capacity
      /\ \A i \in 1..array.size : /\ array.pairs[i].name = offered[i].name
                                  /\ array.pairs[i].text = offered[i].text
  BY LenProperties DEF ArrayInv, ArrayTypeOK, HoldsFirstOffered
<1>2. /\ named \subseteq early
      /\ early \subseteq 1..array.size
  BY <1>1 DEF PairsNamed
<1>3. \A i \in early : array.pairs[i].key # Null => i \in named
  BY <1>1, <1>2 DEF PairsNamed
<1>4. \A i \in 1..array.size :
        array.pairs[i].key = Null => \E j \in 1..i : j \in named
  BY DEF MeetsNull
<1>5. \A i \in named : array.pairs[i].key # Null
  BY DEF PairsNamed
<1>6. early \subseteq Nat /\ named \subseteq Nat
  BY <1>1, <1>2
<1> HIDE DEF early, named
<1>7. GetKey(key) <=> early # {}
  BY <1>2, <1>3, <1>4 DEF GetKey, named
<1>8. ASSUME NEW i \in early, \A j \in early : i <= j
      PROVE  GetValue(key).text = offered[i].text
  <2>1. i \in named
    <3>1. CASE array.pairs[i].key = Null
      <4>1. PICK j \in 1..i : j \in named
        BY <1>2, <1>4, <3>1
      <4>2. i = j
        BY <1>2, <1>6, <1>8, <4>1
      <4> QED BY <4>1, <4>2
    <3> QED BY <1>3, <3>1
  <2>2. \A j \in named : i <= j
    BY <1>2, <1>8
  <2>3. (CHOOSE k \in named : \A j \in named : k <= j) = i
    <3>1. \A k \in named : (\A j \in named : k <= j) => k = i
      BY <1>6, <2>1, <2>2
    <3> QED BY <2>1, <2>2, <3>1
  <2>4. GetValue(key) = array.pairs[i]
    BY <2>3 DEF GetValue, named
  <2> QED BY <1>1, <1>2, <2>4
<1> QED BY <1>7, <1>8 DEF early

\* Only a pair whose key got no block stops a look-up.
LEMMA LookUpCrash ==
  ASSUME ArrayInv, NEW key, MeetsNull(key)
  PROVE  failures > 0
BY DEF MeetsNull, ArrayInv, NullNeedsFailure

-----------------------------------------------------------------------------
(* A caller with blocks of its own.                                        *)

\* The caller allocates: the new blocks were nobody's and are its own.
LEMMA CallerTakes ==
  ASSUME ArrayInv, NEW n \in Nat, NEW p \in Allocations(n), Take(p),
         UNCHANGED <<array, refused, offered>>,
         badFree' \in BOOLEAN, crashed' \in BOOLEAN
  PROVE  /\ ArrayInv'
         /\ Unowned' = Unowned \cup ({p[i] : i \in 1..n} \ {Null})
         /\ ({p[i] : i \in 1..n} \ {Null}) \cap heap = {}
         /\ heap' = heap \cup ({p[i] : i \in 1..n} \ {Null})
         /\ failures' \in Nat /\ failures <= failures'
         /\ (\E i \in 1..n : p[i] = Null) => failures' > 0
         /\ \A i \in 1..n : p[i] = Null \/ p[i] = top + i
<1> DEFINE new == {p[i] : i \in 1..n} \ {Null}
<1>1. /\ top \in Nat /\ heap \subseteq 1..top /\ failures \in 0..MaxFailures
      /\ Owned \subseteq heap /\ refused \subseteq heap /\ Owned \cap refused = {}
      /\ refused \subseteq 1..top
  BY DEF ArrayInv, ArrayTypeOK, BlocksHeld
<1>2. /\ top' = top + n
      /\ heap' = heap \cup new
      /\ heap' \subseteq 1..top'
      /\ failures' \in failures..MaxFailures
      /\ (\E i \in 1..n : p[i] = Null) => failures' > 0
      /\ \A i \in 1..n : p[i] = Null \/ p[i] = top + i
  BY <1>1, TakeStep
<1>3. new \cap heap = {}
  BY <1>1, <1>2
<1>4. Owned' = Owned
  BY DEF Owned
<1> HIDE DEF new
<1>5. failures' \in 0..MaxFailures /\ failures <= failures' /\ failures' \in Nat
  BY <1>1, <1>2, ArrayAssumption
<1>6. ArrayTypeOK'
  BY <1>1, <1>2, <1>5 DEF ArrayInv, ArrayTypeOK
<1>7. BlocksDistinct' /\ HoldsFirstOffered'
  BY DEF ArrayInv, BlocksDistinct, HoldsFirstOffered
<1>8. BlocksHeld'
  BY <1>1, <1>2, <1>4 DEF BlocksHeld
<1>9. NullNeedsFailure'
  BY <1>1, <1>5 DEF ArrayInv, NullNeedsFailure
<1>10. Unowned' = Unowned \cup new
  BY <1>1, <1>2, <1>3, <1>4 DEF Unowned
<1> QED BY <1>2, <1>3, <1>5, <1>6, <1>7, <1>8, <1>9, <1>10 DEF ArrayInv, new

\* The caller frees blocks of its own.
LEMMA CallerFrees ==
  ASSUME ArrayInv, NEW S \in SUBSET Unowned, heap' = heap \ S,
         UNCHANGED <<top, failures, array, refused, offered>>,
         badFree' \in BOOLEAN, crashed' \in BOOLEAN
  PROVE  ArrayInv' /\ Unowned' = Unowned \ S
<1>1. Owned' = Owned
  BY DEF Owned
<1>2. ArrayTypeOK'
  BY DEF ArrayInv, ArrayTypeOK
<1>3. BlocksHeld' /\ Unowned' = Unowned \ S
  BY <1>1 DEF ArrayInv, BlocksHeld, Unowned
<1>4. BlocksDistinct' /\ HoldsFirstOffered' /\ NullNeedsFailure'
  BY DEF ArrayInv, BlocksDistinct, HoldsFirstOffered, NullNeedsFailure
<1> QED BY <1>2, <1>3, <1>4 DEF ArrayInv

-----------------------------------------------------------------------------
(* The caller of the array.                                                *)

\* A block that is neither the array's nor a refused pair's is one the owner
\* lost, and a NULL was used only if one had been returned.
CallerInv ==
  /\ ArrayInv
  /\ Unowned = lost
  /\ CrashNeedsFailure

LEMMA CallerInit == CallerStarts => CallerInv
<1> SUFFICES ASSUME ArrayInit, lost = {} PROVE CallerInv
  BY DEF CallerStarts
<1>1. <<>> \in Seq(Pair) /\ Len(<<>>) = 0 /\ <<>> \in Seq([name : Key, text : Text])
  BY EmptySeq
<1>2. /\ array = NoArray
      /\ NoArray \in [live : BOOLEAN, data : Nat \cup {Garbage}, size : Nat,
                      capacity : 0..MaxCapacity,
                      request_type : Nat \cup {Garbage}, pairs : Seq(Pair)]
      /\ NoArray.size = Len(NoArray.pairs) /\ NoArray.size <= NoArray.capacity
  BY <1>1, ArrayAssumption DEF ArrayInit, NoArray
<1>3. ArrayTypeOK
  <2>1. top = 0 /\ failures = 0 /\ heap = {} /\ refused = {}
    BY DEF ArrayInit
  <2>3. badFree \in BOOLEAN /\ crashed \in BOOLEAN
    BY DEF ArrayInit
  <2>4. top \in Nat /\ failures \in 0..MaxFailures
    BY <2>1, ArrayAssumption
  <2>5. heap \subseteq 1..top /\ refused \subseteq 1..top
    BY <2>1
  <2>2. offered \in Seq([name : Key, text : Text])
    BY <1>1 DEF ArrayInit
  <2> QED BY <1>2, <2>2, <2>3, <2>4, <2>5 DEF ArrayTypeOK
<1>4. BlocksDistinct /\ HoldsFirstOffered /\ NullNeedsFailure
  BY DEF ArrayInit, NoArray, BlocksDistinct, HoldsFirstOffered, NullNeedsFailure
<1>5. Owned = {}
  BY DEF ArrayInit, NoArray, Owned
<1>6. BlocksHeld /\ Unowned = lost /\ CrashNeedsFailure
  BY <1>5 DEF ArrayInit, BlocksHeld, Unowned, CrashNeedsFailure
<1> QED BY <1>3, <1>4, <1>6 DEF CallerInv, ArrayInv

\* A step that leaves the memory and the array alone keeps the invariant.
LEMMA ArrayKept ==
  ASSUME ArrayInv, crashed' \in BOOLEAN,
         UNCHANGED <<heap, top, failures, array, refused, offered, badFree>>
  PROVE  ArrayInv' /\ Unowned' = Unowned
<1>1. Owned' = Owned
  BY DEF Owned
<1>2. ArrayTypeOK'
  BY DEF ArrayInv, ArrayTypeOK
<1>3. BlocksDistinct'
  BY DEF ArrayInv, BlocksDistinct
<1>4. BlocksHeld' /\ Unowned' = Unowned
  BY <1>1 DEF ArrayInv, BlocksHeld, Unowned
<1>5. HoldsFirstOffered' /\ NullNeedsFailure'
  BY DEF ArrayInv, HoldsFirstOffered, NullNeedsFailure
<1> QED BY <1>2, <1>3, <1>4, <1>5 DEF ArrayInv

LEMMA CallerStep ==
  ASSUME CallerInv, [ArrayNext]_callerVars
  PROVE  /\ CallerInv'
         /\ SetsType /\ ~ badFree => ~ badFree'
<1> USE DEF CallerInv
<1>1. CASE CallInitArray
  <2>1. PICK capacity \in Capacities : InitArray(capacity)
    BY <1>1 DEF CallInitArray
  <2>2. capacity \in Nat /\ ~ array.live
    BY <1>1, ArrayAssumption DEF CallInitArray
  <2>3. ArrayInv' /\ Unowned' = lost'
    BY <1>1, <2>1, <2>2, InitArrayStep DEF CallInitArray
  <2>4. UNCHANGED <<badFree, crashed>> /\ failures' \in failures..MaxFailures
    <3>1. PICK p \in Allocations(1) : Take(p)
      BY <2>1 DEF InitArray
    <3> QED BY <2>1, <3>1, TakeStep DEF InitArray, ArrayInv, ArrayTypeOK
  <2> QED BY <2>3, <2>4 DEF CrashNeedsFailure, ArrayInv, ArrayTypeOK
<1>2. CASE CallSetRequestType
  <2>1. /\ SetRequestType /\ array.live
        /\ lost' = lost \cup ({array.request_type} \ Stale)
    BY <1>2 DEF CallSetRequestType
  <2>2. ArrayInv' /\ Unowned' = lost'
    BY <2>1, SetRequestTypeStep
  <2>3. UNCHANGED <<badFree, crashed>> /\ failures' \in failures..MaxFailures
    <3>1. PICK p \in Allocations(1) : Take(p)
      BY <2>1 DEF SetRequestType
    <3> QED BY <2>1, <3>1, TakeStep DEF SetRequestType, ArrayInv, ArrayTypeOK
  <2> QED BY <2>2, <2>3 DEF CrashNeedsFailure, ArrayInv, ArrayTypeOK
<1>3. CASE CallAddPair
  <2>1. PICK key \in Key, text \in Text : AddPair(key, text)
    BY <1>3 DEF CallAddPair
  <2>2. array.live /\ lost' = lost
    BY <1>3 DEF CallAddPair
  <2>3. badFree' = badFree
    BY <2>1 DEF AddPair
  <2> QED BY <2>1, <2>2, <2>3, AddPairStep DEF CrashNeedsFailure
<1>4. CASE CallLookUp
  <2>1. /\ \E key \in Key : MeetsNull(key)
        /\ crashed' = TRUE
        /\ UNCHANGED <<heap, top, failures, array, refused, offered, badFree, lost>>
    BY <1>4 DEF CallLookUp, memoryVars
  <2>2. failures > 0
    BY <2>1, LookUpCrash
  <2>3. crashed' \in BOOLEAN
    BY <2>1
  <2> QED BY <2>1, <2>2, <2>3, ArrayKept DEF CrashNeedsFailure
<1>5. CASE CallFreeArray
  <2>1. /\ array.live /\ FreeArray /\ lost' = lost
        /\ SetsType => array.request_type # Garbage
    BY <1>5 DEF CallFreeArray, Stale
  <2>2. UNCHANGED <<crashed, failures>>
    BY <2>1 DEF FreeArray
  <2> QED BY <2>1, <2>2, FreeArrayStep DEF CrashNeedsFailure
<1>6. CASE FreeRefused
  <2>1. /\ heap' = heap \ refused
        /\ refused' = {}
        /\ UNCHANGED <<top, failures, array, offered, badFree, crashed, lost>>
    BY <1>6 DEF FreeRefused
  <2>2. Owned' = Owned
    BY <2>1 DEF Owned
  <2>3. ArrayTypeOK'
    BY <2>1 DEF ArrayInv, ArrayTypeOK
  <2>4. BlocksHeld' /\ Unowned' = lost'
    BY <2>1, <2>2 DEF ArrayInv, BlocksHeld, Unowned
  <2>5. BlocksDistinct' /\ HoldsFirstOffered' /\ NullNeedsFailure'
    BY <2>1
    DEF ArrayInv, BlocksDistinct, HoldsFirstOffered, NullNeedsFailure
  <2> QED BY <2>1, <2>3, <2>4, <2>5 DEF ArrayInv, CrashNeedsFailure
<1>7. CASE UNCHANGED callerVars
  <2>1. UNCHANGED <<heap, top, failures, array, refused, offered, badFree, crashed,
                  lost>>
    BY <1>7 DEF callerVars, arrayVars, memoryVars
  <2>2. crashed' \in BOOLEAN
    BY <2>1 DEF ArrayInv, ArrayTypeOK
  <2> QED BY <2>1, <2>2, ArrayKept DEF CrashNeedsFailure
<1>8. CASE ReleaseByHand
  BY <1>8, ReleaseByHandStep DEF CrashNeedsFailure
<1> QED BY <1>1, <1>2, <1>3, <1>4, <1>5, <1>6, <1>7, <1>8 DEF ArrayNext

\* The invariant holds throughout, whatever the caller asks for.
THEOREM ArrayCorrect == ArraySpec => []CallerInv
<1>1. CallerStarts => CallerInv
  BY CallerInit
<1>2. CallerInv /\ [ArrayNext]_callerVars => CallerInv'
  BY CallerStep
<1> QED BY <1>1, <1>2, PTL DEF ArraySpec

\* The array never holds more pairs than init_key_value_array made room for,
\* nor more than MAX_CAPACITY (KeyValuePairArray.c:5, 28-40, 43-50).
THEOREM ArrayTypeCorrect == ArraySpec => []ArrayTypeOK
<1>1. CallerInv => ArrayTypeOK
  BY DEF CallerInv, ArrayInv
<1> QED BY <1>1, ArrayCorrect, PTL

\* Every allocated block is the array's, the caller's or lost, in one place
\* only, failed allocations included; only a second set_request_type and an
\* owner that frees by hand lose one (KeyValuePairArray.c:10-63).
THEOREM BlocksAccountedCorrect == ArraySpec => []BlocksAccounted
<1>1. CallerInv => BlocksAccounted
  BY DEF CallerInv, ArrayInv, BlocksHeld, Unowned, BlocksAccounted
<1> QED BY <1>1, ArrayCorrect, PTL

\* get_key and get_value see the first pair offered under a key, of those the
\* array had room for (KeyValuePairArray.c:43-50, 65-89).
THEOREM FirstPairWinsCorrect == ArraySpec => []FirstPairWins
<1>1. CallerInv => FirstPairWins
  BY LookUpSeesFirst DEF CallerInv
<1> QED BY <1>1, ArrayCorrect, PTL

\* No call uses a NULL pointer unless malloc or strdup had returned one
\* (KeyValuePairArray.c:17-26, 44-47, 67).
THEOREM CrashNeedsFailureCorrect == ArraySpec => []CrashNeedsFailure
<1>1. CallerInv => CrashNeedsFailure
  BY DEF CallerInv
<1> QED BY <1>1, ArrayCorrect, PTL

\* An owner that names the request type before it frees frees every block once
\* and nothing else (KeyValuePairArray.c:52-63); without that, request_type is
\* freed with what the stack held, which a run shows.
THEOREM NoBadFreeCorrect ==
  ASSUME SetsType
  PROVE  ArraySpec => []NoBadFree
<1>1. CallerStarts => CallerInv /\ NoBadFree
  BY CallerInit DEF CallerStarts, ArrayInit, NoBadFree
<1>2. CallerInv /\ NoBadFree /\ [ArrayNext]_callerVars => CallerInv' /\ NoBadFree'
  BY CallerStep DEF NoBadFree
<1> QED BY <1>1, <1>2, PTL DEF ArraySpec
=============================================================================
