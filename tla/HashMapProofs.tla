---------------------------- MODULE HashMapProofs ----------------------------
(***************************************************************************)
(* Proofs about HashMap, for every set of keys and values, every number of *)
(* buckets and every hash: the table is a map, its entries stand where get *)
(* and put look for them, and free_hashmap frees every block once.         *)
(***************************************************************************)
EXTENDS HashMap, PositionProofs, FiniteSetTheorems

-----------------------------------------------------------------------------
(* The invariant.                                                          *)

Chain(b) == map.buckets[b]

\* Every variable has its type; a map that is not there is empty.
Shape ==
  /\ map \in [live : BOOLEAN, self : Nat, table : Nat, size : Nat,
              buckets : [Buckets -> Seq(EntryType)]]
  /\ ~ map.live => map = NoMap
  /\ top \in 0..MaxBlocks
  /\ heap \subseteq 1..top
  /\ answer \in Value \cup {-1}

\* An entry stands in the bucket of its key, which holds no other of that key.
OneEntryPerKey ==
  \A b \in Buckets : \A i \in 1..Len(Chain(b)) :
    /\ Index[Chain(b)[i].key] = b
    /\ \A j \in 1..Len(Chain(b)) : Chain(b)[i].key = Chain(b)[j].key => i = j

\* Bucket and place of every entry.
AllPlaces == {p \in Buckets \X Nat : p[2] \in 1..Len(Chain(p[1]))}

Present == {key \in Key : Found(key) # {}}

\* size counts the entries and the keys.
SizeCounts ==
  /\ \A b \in Buckets : Len(Chain(b)) <= map.size
  /\ IsFiniteSet(AllPlaces) /\ Cardinality(AllPlaces) = map.size
  /\ IsFiniteSet(Present) /\ Cardinality(Present) = map.size

\* The blocks of a map that is there are the allocated ones, two for itself
\* and two for each entry.
BlocksCounted ==
  /\ heap = IF map.live THEN MapBlocks ELSE {}
  /\ map.live => /\ IsFiniteSet(MapBlocks)
                 /\ Cardinality(MapBlocks) = 2 + 2 * map.size

MapInv ==
  /\ Shape
  /\ OneEntryPerKey
  /\ SizeCounts
  /\ BlocksCounted

-----------------------------------------------------------------------------
(* What the walk along a chain finds.                                      *)

LEMMA ChainType ==
  ASSUME Shape, NEW b \in Buckets
  PROVE  /\ Chain(b) \in Seq(EntryType)
         /\ Len(Chain(b)) \in Nat
         /\ \A i \in 1..Len(Chain(b)) :
              /\ Chain(b)[i] \in EntryType
              /\ Chain(b)[i].key \in Key /\ Chain(b)[i].value \in Value
<1>1. Chain(b) \in Seq(EntryType)
  BY DEF Shape, Chain
<1>2. \A i \in 1..Len(Chain(b)) : Chain(b)[i] \in EntryType
  BY <1>1, ElementOfSeq
<1>3. Len(Chain(b)) \in Nat
  BY <1>1, LenProperties
<1> QED BY <1>1, <1>2, <1>3 DEF EntryType

\* It stops at the one entry of its key.
LEMMA FoundIsOne ==
  ASSUME Shape, OneEntryPerKey, NEW key \in Key
  PROVE  /\ Index[key] \in Buckets
         /\ Found(key) = {i \in 1..Len(Chain(Index[key])) :
                            Chain(Index[key])[i].key = key}
         /\ \A i \in Found(key) : First(Found(key)) = i
<1>1. Index[key] \in Buckets
  BY MapAssumption DEF Buckets
<1>2. Found(key) = {i \in 1..Len(Chain(Index[key])) :
                      Chain(Index[key])[i].key = key}
  BY DEF Found, Chain
<1>3. \A i, j \in Found(key) : i = j
  BY <1>1, <1>2 DEF OneEntryPerKey
<1>4. \A i \in Found(key) : i \in Nat
  BY <1>1, <1>2, ChainType
<1>5. ASSUME NEW i \in Found(key)
      PROVE  First(Found(key)) = i
  <2>1. \A j \in Found(key) : i <= j
    BY <1>3, <1>4, <1>5
  <2>2. \A k \in Found(key) : k = i
    BY <1>3, <1>5
  <2> QED BY <1>5, <2>1, <2>2 DEF First
<1> QED BY <1>1, <1>2, <1>5

-----------------------------------------------------------------------------
(* The two ways put changes a table.                                       *)

\* Update changes one value and nothing else.
LEMMA UpdateEffect ==
  ASSUME Shape, OneEntryPerKey, NEW key \in Key, NEW value \in Value,
         Update(key, value)
  PROVE  LET b == Index[key]
             i == First(Found(key))
         IN
         /\ b \in Buckets /\ i \in 1..Len(Chain(b)) /\ Chain(b)[i].key = key
         /\ Found(key) = {i}
         /\ map' \in [live : BOOLEAN, self : Nat, table : Nat, size : Nat,
                      buckets : [Buckets -> Seq(EntryType)]]
         /\ map'.live /\ map'.self = map.self /\ map'.table = map.table
         /\ map'.size = map.size
         /\ \A c \in Buckets :
              /\ Len(Chain(c)') = Len(Chain(c))
              /\ \A j \in 1..Len(Chain(c)) :
                   /\ Chain(c)'[j].key = Chain(c)[j].key
                   /\ Chain(c)'[j].self = Chain(c)[j].self
                   /\ Chain(c)'[j].copy = Chain(c)[j].copy
                   /\ Chain(c)'[j].value = IF c = b /\ j = i THEN value
                                          ELSE Chain(c)[j].value
<1> DEFINE b == Index[key]
           i == First(Found(key))
           entry == [Chain(b)[i] EXCEPT !.value = value]
           chain == [Chain(b) EXCEPT ![i] = entry]
           table == [map.buckets EXCEPT ![b] = chain]
<1>1. map' = [map EXCEPT !.buckets = table] /\ map.live /\ Found(key) # {}
  BY DEF Update, Chain
<1>2. /\ b \in Buckets
      /\ i \in Found(key) /\ i \in 1..Len(Chain(b)) /\ Chain(b)[i].key = key
      /\ Found(key) = {i}
  BY <1>1, FoundIsOne
<1>3. /\ Chain(b) \in Seq(EntryType)
      /\ Chain(b)[i] \in EntryType
  BY <1>2, ChainType
<1>4. /\ entry \in EntryType
      /\ entry.key = Chain(b)[i].key /\ entry.self = Chain(b)[i].self
      /\ entry.copy = Chain(b)[i].copy /\ entry.value = value
  BY <1>3 DEF EntryType
<1> HIDE DEF entry, i
<1>5. /\ chain \in Seq(EntryType)
      /\ Len(chain) = Len(Chain(b))
      /\ \A j \in 1..Len(Chain(b)) : chain[j] = IF j = i THEN entry ELSE Chain(b)[j]
  BY <1>2, <1>3, <1>4, ExceptSeq
<1> HIDE DEF chain
<1>6. /\ table \in [Buckets -> Seq(EntryType)]
      /\ table[b] = chain
      /\ \A c \in Buckets : c # b => table[c] = Chain(c)
  BY <1>2, <1>5 DEF Shape, Chain
<1> HIDE DEF table
<1>7. /\ map' \in [live : BOOLEAN, self : Nat, table : Nat, size : Nat,
                   buckets : [Buckets -> Seq(EntryType)]]
      /\ map'.live = map.live /\ map'.self = map.self /\ map'.table = map.table
      /\ map'.size = map.size /\ map'.buckets = table
  BY <1>1, <1>6 DEF Shape
<1>8. \A c \in Buckets : Chain(c)' = IF c = b THEN chain ELSE Chain(c)
  BY <1>6, <1>7 DEF Chain
<1>9. ASSUME NEW c \in Buckets
      PROVE  /\ Len(Chain(c)') = Len(Chain(c))
             /\ \A j \in 1..Len(Chain(c)) :
                  /\ Chain(c)'[j].key = Chain(c)[j].key
                  /\ Chain(c)'[j].self = Chain(c)[j].self
                  /\ Chain(c)'[j].copy = Chain(c)[j].copy
                  /\ Chain(c)'[j].value = IF c = b /\ j = i THEN value
                                         ELSE Chain(c)[j].value
  <2>1. CASE c = b
    BY <1>4, <1>5, <1>8, <2>1
  <2>2. CASE c # b
    BY <1>8, <2>2
  <2> QED BY <2>1, <2>2
<1> QED BY <1>1, <1>2, <1>7, <1>9 DEF i

\* After an update the walk finds what it found before.
LEMMA UpdateFound ==
  ASSUME Shape, OneEntryPerKey, NEW key \in Key, NEW value \in Value,
         Update(key, value)
  PROVE  /\ \A k \in Key : Found(k)' = Found(k)
         /\ Present' = Present
<1>1. \A c \in Buckets :
        /\ Len(Chain(c)') = Len(Chain(c))
        /\ \A j \in 1..Len(Chain(c)) : Chain(c)'[j].key = Chain(c)[j].key
  BY UpdateEffect
<1>2. \A k \in Key : Index[k] \in Buckets
  BY MapAssumption DEF Buckets
<1>3. \A k \in Key : Found(k)' = Found(k)
  BY <1>1, <1>2 DEF Found, Chain
<1> QED BY <1>3 DEF Present

\* Insert puts one entry in front of a chain.
LEMMA InsertEffect ==
  ASSUME Shape, NEW key \in Key, NEW value \in Value, Insert(key, value)
  PROVE  LET b == Index[key]
             n == Len(Chain(b))
         IN
         /\ b \in Buckets /\ n \in Nat
         /\ map' \in [live : BOOLEAN, self : Nat, table : Nat, size : Nat,
                      buckets : [Buckets -> Seq(EntryType)]]
         /\ map'.live /\ map'.self = map.self /\ map'.table = map.table
         /\ map'.size = map.size + 1
         /\ \A c \in Buckets : c # b => Chain(c)' = Chain(c)
         /\ Len(Chain(b)') = n + 1
         /\ Chain(b)'[1] = NewEntry(key, value)
         /\ \A j \in 1..n : Chain(b)'[j + 1] = Chain(b)[j]
<1> DEFINE b == Index[key]
           n == Len(Chain(b))
           new == NewEntry(key, value)
           chain == <<new>> \o Chain(b)
           table == [map.buckets EXCEPT ![b] = chain]
<1>1. map' = [map EXCEPT !.size = map.size + 1, !.buckets = table] /\ map.live
  BY DEF Insert, Chain
<1>2. b \in Buckets
  BY MapAssumption DEF Buckets
<1>3. Chain(b) \in Seq(EntryType) /\ n \in Nat
  BY <1>2, ChainType
<1>4. new \in EntryType
  BY DEF NewEntry, EntryType, Shape
<1> HIDE DEF new, b
<1>5. <<new>> \in Seq(EntryType) /\ Len(<<new>>) = 1 /\ <<new>>[1] = new
  BY <1>4
<1>6. /\ chain \in Seq(EntryType)
      /\ Len(chain) = 1 + n
      /\ \A j \in 1..(1 + n) : chain[j] = IF j <= 1 THEN <<new>>[j]
                                        ELSE Chain(b)[j - 1]
  BY <1>3, <1>5, ConcatProperties
<1> HIDE DEF chain
<1>7. chain[1] = new /\ \A j \in 1..n : chain[j + 1] = Chain(b)[j]
  <2> HIDE DEF n
  <2>1. chain[1] = new
    BY <1>3, <1>5, <1>6
  <2>2. ASSUME NEW j \in 1..n PROVE chain[j + 1] = Chain(b)[j]
    <3>1. j + 1 \in 1..(1 + n) /\ ~ (j + 1 <= 1) /\ j + 1 - 1 = j
      BY <1>3
    <3>2. chain[j + 1] = Chain(b)[j + 1 - 1]
      BY <1>6, <3>1
    <3> QED BY <3>1, <3>2
  <2> QED BY <2>1, <2>2
<1>8. /\ table \in [Buckets -> Seq(EntryType)]
      /\ table[b] = chain
      /\ \A c \in Buckets : c # b => table[c] = Chain(c)
  BY <1>2, <1>6 DEF Shape, Chain
<1> HIDE DEF table
<1>9. /\ map' \in [live : BOOLEAN, self : Nat, table : Nat, size : Nat,
                   buckets : [Buckets -> Seq(EntryType)]]
      /\ map'.live = map.live /\ map'.self = map.self /\ map'.table = map.table
      /\ map'.size = map.size + 1 /\ map'.buckets = table
  <2>1. map \in [live : BOOLEAN, self : Nat, table : Nat, size : Nat,
                 buckets : [Buckets -> Seq(EntryType)]]
    BY DEF Shape
  <2>2. map.size + 1 \in Nat
    BY <2>1
  <2> QED BY <1>1, <1>8, <2>1, <2>2
<1>10. \A c \in Buckets : Chain(c)' = IF c = b THEN chain ELSE Chain(c)
  BY <1>8, <1>9 DEF Chain
<1>11. Chain(b)' = chain
  BY <1>2, <1>10
<1>12. Len(Chain(b)') = n + 1
  BY <1>3, <1>6, <1>11
<1> QED BY <1>1, <1>2, <1>3, <1>7, <1>9, <1>10, <1>11, <1>12 DEF b, new

\* After it the walk finds the new entry first in its chain, and the others
\* of that chain one place on.
LEMMA InsertFound ==
  ASSUME Shape, NEW key \in Key, NEW value \in Value, Insert(key, value)
  PROVE  /\ Present' = Present \cup {key} /\ key \notin Present
         /\ 1 \in Found(key)'
         /\ \A k \in Key \ {key} : \A i \in Found(k) :
              (IF Index[k] = Index[key] THEN i + 1 ELSE i) \in Found(k)'
<1> DEFINE b == Index[key]
           n == Len(Chain(b))
<1>1. /\ b \in Buckets /\ n \in Nat
      /\ \A c \in Buckets : c # b => Chain(c)' = Chain(c)
      /\ Len(Chain(b)') = n + 1
      /\ Chain(b)'[1] = NewEntry(key, value)
      /\ \A j \in 1..n : Chain(b)'[j + 1] = Chain(b)[j]
  BY InsertEffect
<1>2. NewEntry(key, value).key = key /\ Found(key) = {}
  BY DEF NewEntry, Insert
<1>3. \A k \in Key : Index[k] \in Buckets
  BY MapAssumption DEF Buckets
<1>4. ASSUME NEW k \in Key, k # key
      PROVE  /\ \A i \in Found(k) : (IF Index[k] = b THEN i + 1 ELSE i) \in Found(k)'
             /\ Found(k) = {} => Found(k)' = {}
  <2> DEFINE c == Index[k]
  <2>1. /\ c \in Buckets
        /\ Found(k) = {i \in 1..Len(Chain(c)) : Chain(c)[i].key = k}
        /\ Found(k)' = {i \in 1..Len(Chain(c)') : Chain(c)'[i].key = k}
    BY <1>3 DEF Found, Chain
  <2>2. CASE c = b
    <3>1. \A j \in 1..n : j \in Found(k) => j + 1 \in Found(k)'
      BY <1>1, <2>1, <2>2
    <3>2. ASSUME NEW i \in Found(k)' PROVE i - 1 \in Found(k)
      <4>1. i \in 1..(n + 1) /\ Chain(b)'[i].key = k
        BY <1>1, <2>1, <2>2, <3>2
      <4>2. i # 1
        BY <1>1, <1>2, <1>4, <4>1
      <4>3. i - 1 \in 1..n /\ i - 1 + 1 = i
        BY <1>1, <4>1, <4>2
      <4> QED BY <1>1, <2>1, <2>2, <4>1, <4>3
    <3> QED BY <2>1, <2>2, <3>1, <3>2
  <2>3. CASE c # b
    BY <1>1, <2>1, <2>3
  <2> QED BY <2>2, <2>3
<1>5. 1 \in Found(key)'
  <2>1. 1 \in 1..Len(Chain(b)') /\ Chain(b)'[1].key = key
    BY <1>1, <1>2
  <2> QED BY <2>1 DEF Found, Chain
<1>6. Present' = Present \cup {key} /\ key \notin Present
  BY <1>2, <1>4, <1>5 DEF Present
<1> QED BY <1>4, <1>5, <1>6

-----------------------------------------------------------------------------
(* Each part of the invariant is kept.                                     *)

LEMMA ShapeKept ==
  ASSUME MapInv, [Next]_vars
  PROVE  Shape'
<1>1. Shape /\ OneEntryPerKey
  BY DEF MapInv
<1>2. /\ map \in [live : BOOLEAN, self : Nat, table : Nat, size : Nat,
                  buckets : [Buckets -> Seq(EntryType)]]
      /\ ~ map.live => map = NoMap
      /\ top \in 0..MaxBlocks /\ heap \subseteq 1..top
      /\ answer \in Value \cup {-1} /\ MaxBlocks \in Nat
  BY <1>1, MapAssumption DEF Shape
<1>3. /\ NoMap \in [live : BOOLEAN, self : Nat, table : Nat, size : Nat,
                    buckets : [Buckets -> Seq(EntryType)]]
      /\ NoMap.live = FALSE /\ NoMap.size = 0
  <2>1. <<>> \in Seq(EntryType)
    BY EmptySeq
  <2> QED BY <2>1 DEF NoMap
<1>4. CASE CreateHashmap
  <2>1. /\ map' = [NoMap EXCEPT !.live = TRUE, !.self = top + 1, !.table = top + 2]
        /\ heap' = heap \cup {top + 1, top + 2}
        /\ top' = top + 2 /\ top + 2 <= MaxBlocks /\ answer' = answer
    BY <1>4 DEF CreateHashmap
  <2>2. top + 1 \in Nat /\ top + 2 \in Nat
    BY <1>2
  <2>3. /\ map' \in [live : BOOLEAN, self : Nat, table : Nat, size : Nat,
                     buckets : [Buckets -> Seq(EntryType)]]
        /\ map'.live = TRUE
    BY <1>3, <2>1, <2>2
  <2>4. heap' \subseteq 1..top' /\ top' \in 0..MaxBlocks
    BY <1>2, <2>1
  <2> QED BY <1>2, <2>1, <2>3, <2>4 DEF Shape
<1>5. ASSUME NEW key \in Key, NEW value \in Value, Update(key, value)
      PROVE  Shape'
  <2>1. /\ map' \in [live : BOOLEAN, self : Nat, table : Nat, size : Nat,
                     buckets : [Buckets -> Seq(EntryType)]]
        /\ map'.live
    BY <1>1, <1>5, UpdateEffect
  <2>2. UNCHANGED <<heap, top, answer>>
    BY <1>5 DEF Update
  <2> QED BY <1>2, <2>1, <2>2 DEF Shape
<1>6. ASSUME NEW key \in Key, NEW value \in Value, Insert(key, value)
      PROVE  Shape'
  <2>1. /\ map' \in [live : BOOLEAN, self : Nat, table : Nat, size : Nat,
                     buckets : [Buckets -> Seq(EntryType)]]
        /\ map'.live
    BY <1>1, <1>6, InsertEffect
  <2>2. /\ heap' = heap \cup {top + 1, top + 2}
        /\ top' = top + 2 /\ top + 2 <= MaxBlocks /\ answer' = answer
    BY <1>6 DEF Insert
  <2>3. heap' \subseteq 1..top' /\ top' \in 0..MaxBlocks
    BY <1>2, <2>2
  <2> QED BY <1>2, <2>1, <2>2, <2>3 DEF Shape
<1>7. ASSUME NEW key \in Key, Get(key)
      PROVE  Shape'
  <2>1. /\ answer' = IF Found(key) = {} THEN -1
                     ELSE Chain(Index[key])[First(Found(key))].value
        /\ UNCHANGED <<map, heap, top>>
    BY <1>7 DEF Get, Chain
  <2>2. answer' \in Value \cup {-1}
    <3>1. CASE Found(key) = {}
      BY <2>1, <3>1
    <3>2. CASE Found(key) # {}
      <4>1. /\ Index[key] \in Buckets
            /\ First(Found(key)) \in 1..Len(Chain(Index[key]))
        BY <1>1, <3>2, FoundIsOne
      <4>2. Chain(Index[key])[First(Found(key))].value \in Value
        BY <1>1, <4>1, ChainType
      <4> QED BY <2>1, <3>2, <4>2
    <3> QED BY <3>1, <3>2
  <2> QED BY <1>2, <2>1, <2>2 DEF Shape
<1>8. CASE FreeHashmap
  <2>1. heap' = heap \ MapBlocks /\ map' = NoMap /\ UNCHANGED <<top, answer>>
    BY <1>8 DEF FreeHashmap
  <2>2. NoMap' = NoMap
    BY DEF NoMap
  <2> QED BY <1>2, <1>3, <2>1, <2>2 DEF Shape
<1>9. CASE UNCHANGED vars
  BY <1>2, <1>9 DEF vars, Shape, NoMap
<1> QED BY <1>4, <1>5, <1>6, <1>7, <1>8, <1>9 DEF Next

LEMMA OneEntryPerKeyKept ==
  ASSUME MapInv, [Next]_vars
  PROVE  OneEntryPerKey'
<1>1. Shape /\ OneEntryPerKey
  BY DEF MapInv
<1>2. ASSUME map' = NoMap \/ map'.buckets = NoMap.buckets
      PROVE  OneEntryPerKey'
  <2>1. \A b \in Buckets : Chain(b)' = <<>>
    BY <1>2 DEF Chain, NoMap
  <2> QED BY <2>1 DEF OneEntryPerKey
<1>3. CASE CreateHashmap \/ FreeHashmap
  BY <1>2, <1>3 DEF CreateHashmap, FreeHashmap, NoMap
<1>4. ASSUME NEW key \in Key, NEW value \in Value, Update(key, value)
      PROVE  OneEntryPerKey'
  <2>1. \A c \in Buckets :
          /\ Len(Chain(c)') = Len(Chain(c))
          /\ \A j \in 1..Len(Chain(c)) : Chain(c)'[j].key = Chain(c)[j].key
    BY <1>1, <1>4, UpdateEffect
  <2> QED BY <1>1, <2>1 DEF OneEntryPerKey
<1>5. ASSUME NEW key \in Key, NEW value \in Value, Insert(key, value)
      PROVE  OneEntryPerKey'
  <2> DEFINE b == Index[key]
             n == Len(Chain(b))
  <2>1. /\ b \in Buckets /\ n \in Nat
        /\ \A c \in Buckets : c # b => Chain(c)' = Chain(c)
        /\ Len(Chain(b)') = n + 1
        /\ Chain(b)'[1] = NewEntry(key, value)
        /\ \A j \in 1..n : Chain(b)'[j + 1] = Chain(b)[j]
    BY <1>1, <1>5, InsertEffect
  <2>2. \A j \in 1..n : Chain(b)[j].key # key
    <3>1. Found(key) = {}
      BY <1>5 DEF Insert
    <3> QED BY <3>1 DEF Found, Chain
  <2>3. NewEntry(key, value).key = key
    BY DEF NewEntry
  <2>4. ASSUME NEW i \in 1..(n + 1)
        PROVE  i = 1 \/ \E j \in 1..n : i = j + 1 /\ Chain(b)'[i] = Chain(b)[j]
    <3>1. i = 1 \/ i - 1 \in 1..n
      BY <2>1
    <3>2. i - 1 + 1 = i
      OBVIOUS
    <3> QED BY <2>1, <3>1, <3>2
  <2>5. ASSUME NEW i \in 1..(n + 1), NEW j \in 1..(n + 1)
        PROVE  /\ Index[Chain(b)'[i].key] = b
               /\ Chain(b)'[i].key = Chain(b)'[j].key => i = j
    <3>1. CASE i = 1 /\ j = 1
      BY <2>1, <2>3, <3>1
    <3>2. CASE i = 1 /\ j # 1
      BY <2>1, <2>2, <2>3, <2>4, <3>2
    <3>3. CASE i # 1 /\ j = 1
      BY <1>1, <2>1, <2>2, <2>3, <2>4, <3>3 DEF OneEntryPerKey
    <3>4. CASE i # 1 /\ j # 1
      <4>1. PICK k \in 1..n : i = k + 1 /\ Chain(b)'[i] = Chain(b)[k]
        BY <2>4, <3>4
      <4>2. PICK l \in 1..n : j = l + 1 /\ Chain(b)'[j] = Chain(b)[l]
        BY <2>4, <3>4
      <4> QED BY <1>1, <2>1, <4>1, <4>2 DEF OneEntryPerKey
    <3> QED BY <3>1, <3>2, <3>3, <3>4
  <2>6. ASSUME NEW c \in Buckets, NEW i \in 1..Len(Chain(c)')
        PROVE  /\ Index[Chain(c)'[i].key] = c
               /\ \A j \in 1..Len(Chain(c)') :
                    Chain(c)'[i].key = Chain(c)'[j].key => i = j
    <3>1. CASE c = b
      BY <2>1, <2>5, <3>1
    <3>2. CASE c # b
      BY <1>1, <2>1, <3>2 DEF OneEntryPerKey
    <3> QED BY <3>1, <3>2
  <2> QED BY <2>6 DEF OneEntryPerKey
<1>6. ASSUME UNCHANGED map
      PROVE  OneEntryPerKey'
  BY <1>1, <1>6 DEF OneEntryPerKey, Chain
<1>7. ASSUME NEW key \in Key, Get(key)
      PROVE  OneEntryPerKey'
  BY <1>6, <1>7 DEF Get
<1>8. CASE UNCHANGED vars
  BY <1>6, <1>8 DEF vars
<1> QED BY <1>3, <1>4, <1>5, <1>7, <1>8 DEF Next

EmptyTable == (\A b \in Buckets : Chain(b) = <<>>) /\ map.size = 0

LEMMA EmptyCounts == EmptyTable => SizeCounts
<1> SUFFICES ASSUME EmptyTable PROVE SizeCounts
  OBVIOUS
<1> USE DEF EmptyTable
<1>1. AllPlaces = {}
  BY DEF AllPlaces
<1>2. Present = {}
  <2>1. \A key \in Key : Index[key] \in Buckets
    BY MapAssumption DEF Buckets
  <2>2. \A key \in Key : Found(key) = {}
    BY <2>1 DEF Found, Chain
  <2> QED BY <2>2 DEF Present
<1>3. \A b \in Buckets : Len(Chain(b)) <= map.size
  OBVIOUS
<1> QED BY <1>1, <1>2, <1>3, FS_EmptySet DEF SizeCounts

LEMMA SizeCountsKept ==
  ASSUME MapInv, [Next]_vars
  PROVE  SizeCounts'
<1>1. Shape /\ OneEntryPerKey /\ SizeCounts /\ map.size \in Nat
  BY DEF MapInv, Shape
<1>2. \A key \in Key : Index[key] \in Buckets
  BY MapAssumption DEF Buckets
<1>3. CASE CreateHashmap \/ FreeHashmap
  <2>1. map'.buckets = NoMap.buckets /\ map'.size = 0
    <3>1. CASE CreateHashmap
      BY <3>1 DEF CreateHashmap, NoMap
    <3>2. CASE FreeHashmap
      BY <3>2 DEF FreeHashmap, NoMap
    <3> QED BY <1>3, <3>1, <3>2
  <2>2. \A b \in Buckets : Chain(b)' = <<>>
    BY <2>1 DEF Chain, NoMap
  <2>3. EmptyTable'
    BY <2>1, <2>2 DEF EmptyTable
  <2> QED BY <2>3, EmptyCounts, PTL
<1>4. ASSUME NEW key \in Key, NEW value \in Value, Update(key, value)
      PROVE  SizeCounts'
  <2>1. /\ map'.size = map.size
        /\ \A c \in Buckets :
             /\ Len(Chain(c)') = Len(Chain(c))
             /\ \A j \in 1..Len(Chain(c)) : Chain(c)'[j].key = Chain(c)[j].key
    BY <1>1, <1>4, UpdateEffect
  <2>2. AllPlaces' = AllPlaces
    BY <2>1 DEF AllPlaces
  <2>3. Present' = Present
    BY <1>1, <1>4, UpdateFound
  <2> QED BY <1>1, <2>1, <2>2, <2>3 DEF SizeCounts
<1>5. ASSUME NEW key \in Key, NEW value \in Value, Insert(key, value)
      PROVE  SizeCounts'
  <2> DEFINE b == Index[key]
             n == Len(Chain(b))
  <2>1. /\ b \in Buckets /\ n \in Nat
        /\ map'.size = map.size + 1
        /\ \A c \in Buckets : c # b => Chain(c)' = Chain(c)
        /\ Len(Chain(b)') = n + 1
        /\ Chain(b)'[1] = NewEntry(key, value)
        /\ \A j \in 1..n : Chain(b)'[j + 1] = Chain(b)[j]
    BY <1>1, <1>5, InsertEffect
  <2>2. NewEntry(key, value).key = key /\ Found(key) = {}
    BY <1>5 DEF NewEntry, Insert
  <2>3. \A c \in Buckets : Len(Chain(c)') <= map'.size
    <3>1. \A c \in Buckets : Len(Chain(c)) <= map.size /\ Len(Chain(c)) \in Nat
      BY <1>1, ChainType DEF SizeCounts
    <3> QED BY <1>1, <2>1, <3>1
  <2>4. AllPlaces' = AllPlaces \cup {<<b, n + 1>>} /\ <<b, n + 1>> \notin AllPlaces
    <3>1. AllPlaces' = {p \in Buckets \X Nat : p[2] \in 1..Len(Chain(p[1])')}
      BY DEF AllPlaces
    <3>2. ASSUME NEW c \in Buckets, NEW i \in Nat
          PROVE  i \in 1..Len(Chain(c)')
                   <=> (i \in 1..Len(Chain(c)) \/ <<c, i>> = <<b, n + 1>>)
      <4>1. CASE c = b
        BY <2>1, <4>1
      <4>2. CASE c # b
        BY <2>1, <4>2
      <4> QED BY <4>1, <4>2
    <3>3. <<b, n + 1>> \in Buckets \X Nat
      BY <2>1
    <3>4. ~ (n + 1 \in 1..n)
      BY <2>1
    <3> HIDE DEF b
    <3> QED BY <3>1, <3>2, <3>3, <3>4 DEF AllPlaces
  <2>7. Present' = Present \cup {key} /\ key \notin Present
    BY <1>1, <1>5, InsertFound
  <2>8. /\ IsFiniteSet(AllPlaces') /\ Cardinality(AllPlaces') = map.size + 1
        /\ IsFiniteSet(Present') /\ Cardinality(Present') = map.size + 1
    <3>1. /\ IsFiniteSet(AllPlaces) /\ Cardinality(AllPlaces) = map.size
          /\ IsFiniteSet(Present) /\ Cardinality(Present) = map.size
      BY <1>1 DEF SizeCounts
    <3>2. /\ IsFiniteSet(AllPlaces \cup {<<b, n + 1>>})
          /\ Cardinality(AllPlaces \cup {<<b, n + 1>>}) = map.size + 1
      BY <2>4, <3>1, FS_AddElement
    <3>3. /\ IsFiniteSet(Present \cup {key})
          /\ Cardinality(Present \cup {key}) = map.size + 1
      BY <2>7, <3>1, FS_AddElement
    <3> QED BY <2>4, <2>7, <3>2, <3>3
  <2> QED BY <2>1, <2>3, <2>8 DEF SizeCounts
<1>6. ASSUME UNCHANGED map
      PROVE  SizeCounts'
  BY <1>1, <1>6 DEF SizeCounts, AllPlaces, Present, Found, Chain
<1>7. ASSUME NEW key \in Key, Get(key)
      PROVE  SizeCounts'
  BY <1>6, <1>7 DEF Get
<1>8. CASE UNCHANGED vars
  BY <1>6, <1>8 DEF vars
<1> QED BY <1>3, <1>4, <1>5, <1>7, <1>8 DEF Next

\* The blocks of a table, entry by entry.
LEMMA MapBlocksAre ==
  ASSUME NEW x
  PROVE  x \in MapBlocks <=>
           \/ x = map.self \/ x = map.table
           \/ \E b \in Buckets : \E i \in 1..Len(Chain(b)) :
                x = Chain(b)[i].self \/ x = Chain(b)[i].copy
BY DEF MapBlocks, ChainBlocks, Chain

\* Two more blocks that were not there.
LEMMA TwoMore ==
  ASSUME NEW S, IsFiniteSet(S), NEW a, NEW b, a \notin S, b \notin S, a # b,
         Cardinality(S) \in Nat
  PROVE  /\ IsFiniteSet(S \cup {a, b})
         /\ Cardinality(S \cup {a, b}) = Cardinality(S) + 2
<1>1. IsFiniteSet(S \cup {a}) /\ Cardinality(S \cup {a}) = Cardinality(S) + 1
  BY FS_AddElement
<1>2. /\ IsFiniteSet((S \cup {a}) \cup {b})
      /\ Cardinality((S \cup {a}) \cup {b}) = Cardinality(S \cup {a}) + 1
  BY <1>1, FS_AddElement
<1>3. (S \cup {a}) \cup {b} = S \cup {a, b}
  OBVIOUS
<1> QED BY <1>1, <1>2, <1>3

LEMMA BlocksCountedKept ==
  ASSUME MapInv, [Next]_vars
  PROVE  BlocksCounted'
<1>1. Shape /\ OneEntryPerKey /\ BlocksCounted /\ map.size \in Nat
  BY DEF MapInv, Shape
<1>2. /\ top \in Nat /\ \A x \in heap : x \in Int /\ x <= top
  BY <1>1 DEF Shape
<1>3. CASE CreateHashmap
  <2>1. /\ ~ map.live
        /\ map' = [NoMap EXCEPT !.live = TRUE, !.self = top + 1, !.table = top + 2]
        /\ heap' = heap \cup {top + 1, top + 2}
    BY <1>3 DEF CreateHashmap
  <2>2. /\ map'.live /\ map'.self = top + 1 /\ map'.table = top + 2
        /\ map'.size = 0 /\ map'.buckets = [b \in Buckets |-> <<>>]
    BY <2>1 DEF NoMap
  <2>3. heap = {}
    BY <1>1, <2>1 DEF BlocksCounted
  <2>4. MapBlocks' = {top + 1, top + 2}
    BY <2>2 DEF MapBlocks, ChainBlocks
  <2>5. /\ IsFiniteSet({top + 1, top + 2})
        /\ Cardinality({top + 1, top + 2}) = 2
    <3>1. top + 1 # top + 2
      BY <1>2
    <3> DEFINE none == {}
    <3>2. /\ IsFiniteSet(none) /\ Cardinality(none) = 0
          /\ top + 1 \notin none /\ top + 2 \notin none
      BY FS_EmptySet
    <3>3. none \cup {top + 1, top + 2} = {top + 1, top + 2}
      OBVIOUS
    <3> HIDE DEF none
    <3>4. /\ IsFiniteSet(none \cup {top + 1, top + 2})
          /\ Cardinality(none \cup {top + 1, top + 2}) = Cardinality(none) + 2
      BY <3>1, <3>2, TwoMore
    <3> QED BY <3>2, <3>3, <3>4
  <2> QED BY <2>1, <2>2, <2>3, <2>4, <2>5 DEF BlocksCounted
<1>4. ASSUME NEW key \in Key, NEW value \in Value, Update(key, value)
      PROVE  BlocksCounted'
  <2>1. /\ map'.live /\ map'.self = map.self /\ map'.table = map.table
        /\ map'.size = map.size
        /\ \A c \in Buckets :
             /\ Len(Chain(c)') = Len(Chain(c))
             /\ \A j \in 1..Len(Chain(c)) :
                  /\ Chain(c)'[j].self = Chain(c)[j].self
                  /\ Chain(c)'[j].copy = Chain(c)[j].copy
    BY <1>1, <1>4, UpdateEffect
  <2>2. MapBlocks' = MapBlocks
    <3>1. \A c \in Buckets : ChainBlocks(Chain(c)') = ChainBlocks(Chain(c))
      BY <2>1 DEF ChainBlocks
    <3>2. MapBlocks = {map.self, map.table}
                        \cup UNION {ChainBlocks(Chain(c)) : c \in Buckets}
      BY DEF MapBlocks, Chain
    <3>3. MapBlocks' = {map'.self, map'.table}
                         \cup UNION {ChainBlocks(Chain(c)') : c \in Buckets}
      BY DEF MapBlocks, Chain
    <3> QED BY <2>1, <3>1, <3>2, <3>3
  <2>3. map.live /\ heap' = heap
    BY <1>4 DEF Update
  <2> QED BY <1>1, <2>1, <2>2, <2>3 DEF BlocksCounted
<1>5. ASSUME NEW key \in Key, NEW value \in Value, Insert(key, value)
      PROVE  BlocksCounted'
  <2> DEFINE b == Index[key]
             n == Len(Chain(b))
  <2>1. /\ b \in Buckets /\ n \in Nat
        /\ map'.live /\ map'.self = map.self /\ map'.table = map.table
        /\ map'.size = map.size + 1
        /\ \A c \in Buckets : c # b => Chain(c)' = Chain(c)
        /\ Len(Chain(b)') = n + 1
        /\ Chain(b)'[1] = NewEntry(key, value)
        /\ \A j \in 1..n : Chain(b)'[j + 1] = Chain(b)[j]
    BY <1>1, <1>5, InsertEffect
  <2>2. /\ NewEntry(key, value).self = top + 1
        /\ NewEntry(key, value).copy = top + 2
    BY DEF NewEntry
  <2>3. map.live /\ heap' = heap \cup {top + 1, top + 2}
    BY <1>5 DEF Insert
  <2>4. \A i \in 1..(n + 1) : i = 1 \/ (i - 1 \in 1..n /\ i - 1 + 1 = i)
    BY <2>1
  <2>5. \A j \in 1..n : j + 1 \in 1..(n + 1)
    BY <2>1
  <2>6. 1 \in 1..(n + 1)
    BY <2>1
  <2>7. MapBlocks' = MapBlocks \cup {top + 1, top + 2}
    <3> DEFINE InTable(x) == \E c \in Buckets : \E i \in 1..Len(Chain(c)) :
                               x = Chain(c)[i].self \/ x = Chain(c)[i].copy
               InTableNext(x) ==
                 \E c \in Buckets : \E i \in 1..Len(Chain(c)') :
                   x = Chain(c)'[i].self \/ x = Chain(c)'[i].copy
    <3>1. \A x : x \in MapBlocks <=> x = map.self \/ x = map.table \/ InTable(x)
      BY MapBlocksAre
    <3>2. \A x : x \in MapBlocks'
                   <=> x = map'.self \/ x = map'.table \/ InTableNext(x)
      BY DEF MapBlocks, ChainBlocks, Chain
    <3>3. ASSUME NEW x, InTable(x)
          PROVE  InTableNext(x)
      <4>1. PICK c \in Buckets : \E i \in 1..Len(Chain(c)) :
              x = Chain(c)[i].self \/ x = Chain(c)[i].copy
        BY <3>3
      <4>2. PICK i \in 1..Len(Chain(c)) :
              x = Chain(c)[i].self \/ x = Chain(c)[i].copy
        BY <4>1
      <4>3. CASE c # b
        BY <2>1, <4>2, <4>3
      <4>4. CASE c = b
        BY <2>1, <2>5, <4>2, <4>4
      <4> QED BY <4>3, <4>4
    <3>4. ASSUME NEW x, InTableNext(x)
          PROVE  InTable(x) \/ x = top + 1 \/ x = top + 2
      <4>1. PICK c \in Buckets : \E i \in 1..Len(Chain(c)') :
              x = Chain(c)'[i].self \/ x = Chain(c)'[i].copy
        BY <3>4
      <4>2. PICK i \in 1..Len(Chain(c)') :
              x = Chain(c)'[i].self \/ x = Chain(c)'[i].copy
        BY <4>1
      <4>3. CASE c # b
        BY <2>1, <4>2, <4>3
      <4>4. CASE c = b /\ i = 1
        BY <2>1, <2>2, <4>2, <4>4
      <4>5. CASE c = b /\ i # 1
        <5>1. i - 1 \in 1..n /\ Chain(b)'[i] = Chain(b)[i - 1]
          BY <2>1, <2>4, <4>5
        <5> QED BY <2>1, <4>2, <4>5, <5>1
      <4> QED BY <4>3, <4>4, <4>5
    <3>5. InTableNext(top + 1) /\ InTableNext(top + 2)
      BY <2>1, <2>2, <2>6
    <3> HIDE DEF InTable, InTableNext
    <3>6. ASSUME NEW x PROVE x \in MapBlocks' <=> x \in MapBlocks \cup {top + 1, top + 2}
      BY <2>1, <3>1, <3>2, <3>3, <3>4, <3>5
    <3> QED BY <3>6
  <2>8. /\ heap = MapBlocks
        /\ IsFiniteSet(MapBlocks)
        /\ Cardinality(MapBlocks) = 2 + 2 * map.size
    BY <1>1, <2>3 DEF BlocksCounted
  <2>9. top + 1 \notin MapBlocks /\ top + 2 \notin MapBlocks /\ top + 1 # top + 2
    BY <1>2, <2>8
  <2>10. Cardinality(MapBlocks) \in Nat
    BY <1>1, <2>8
  <2>11. /\ IsFiniteSet(MapBlocks \cup {top + 1, top + 2})
         /\ Cardinality(MapBlocks \cup {top + 1, top + 2})
              = Cardinality(MapBlocks) + 2
    BY <2>8, <2>9, <2>10, TwoMore
  <2>12. Cardinality(MapBlocks) + 2 = 2 + 2 * (map.size + 1)
    BY <1>1, <2>8
  <2> QED BY <2>1, <2>3, <2>7, <2>8, <2>11, <2>12 DEF BlocksCounted
<1>6. ASSUME UNCHANGED <<map, heap>>
      PROVE  BlocksCounted'
  BY <1>1, <1>6 DEF BlocksCounted, MapBlocks, ChainBlocks
<1>7. ASSUME NEW key \in Key, Get(key)
      PROVE  BlocksCounted'
  BY <1>6, <1>7 DEF Get
<1>8. CASE FreeHashmap
  <2>1. heap' = heap \ MapBlocks /\ heap = MapBlocks /\ map' = NoMap
    BY <1>1, <1>8 DEF FreeHashmap, BlocksCounted
  <2>2. ~ map'.live /\ heap' = {}
    BY <2>1 DEF NoMap
  <2> QED BY <2>2 DEF BlocksCounted
<1>9. CASE UNCHANGED vars
  BY <1>6, <1>9 DEF vars
<1> QED BY <1>3, <1>4, <1>5, <1>7, <1>8, <1>9 DEF Next

-----------------------------------------------------------------------------
(* The invariant holds, and what follows from it.                          *)

LEMMA MapInvInit == Init => MapInv
<1> SUFFICES ASSUME Init PROVE MapInv
  OBVIOUS
<1>1. /\ map = NoMap /\ heap = {} /\ top = 0 /\ answer = -1
  BY DEF Init
<1>2. NoMap \in [live : BOOLEAN, self : Nat, table : Nat, size : Nat,
                 buckets : [Buckets -> Seq(EntryType)]]
  <2>1. <<>> \in Seq(EntryType)
    BY EmptySeq
  <2> QED BY <2>1 DEF NoMap
<1>3. Shape
  <2>1. top \in 0..MaxBlocks /\ heap \subseteq 1..top
    BY <1>1, MapAssumption
  <2> QED BY <1>1, <1>2, <2>1 DEF Shape
<1>4. (\A b \in Buckets : Chain(b) = <<>>) /\ map.size = 0 /\ ~ map.live
  BY <1>1 DEF Chain, NoMap
<1>5. OneEntryPerKey
  BY <1>4 DEF OneEntryPerKey
<1>6. SizeCounts
  BY <1>4, EmptyCounts DEF EmptyTable
<1>7. BlocksCounted
  BY <1>1, <1>4 DEF BlocksCounted
<1> QED BY <1>3, <1>5, <1>6, <1>7 DEF MapInv

THEOREM MapCorrect == Spec => []MapInv
<1>1. Init => MapInv
  BY MapInvInit
<1>2. MapInv /\ [Next]_vars => MapInv'
  BY ShapeKept, OneEntryPerKeyKept, SizeCountsKept, BlocksCountedKept DEF MapInv
<1> QED BY <1>1, <1>2, PTL DEF Spec

\* The table counts no more entries than there are keys, of which an address
\* space holds finitely many (hashmap.h:14-18).
THEOREM HashTypeCorrect ==
  ASSUME IsFiniteSet(Key)
  PROVE  Spec => []HashTypeOK
<1>1. MapInv => HashTypeOK
  <2> SUFFICES ASSUME MapInv PROVE HashTypeOK
    OBVIOUS
  <2>1. Present \subseteq Key /\ Cardinality(Present) = map.size
    BY DEF MapInv, SizeCounts, Present
  <2>2. map.size <= Cardinality(Key)
    BY <2>1, FS_Subset
  <2> QED BY <2>2 DEF MapInv, Shape, HashTypeOK
<1> QED BY <1>1, MapCorrect, PTL

\* An entry is where put and get look for its key, and nowhere else, whatever
\* the hash; size counts the entries (hashmap.c:19-50).
THEOREM EntriesWellPlacedCorrect == Spec => []EntriesWellPlaced
<1>1. MapInv => EntriesWellPlaced
  <2> SUFFICES ASSUME MapInv PROVE EntriesWellPlaced
    OBVIOUS
  <2>1. Shape /\ OneEntryPerKey /\ SizeCounts
    BY DEF MapInv
  <2>2. \A b \in Buckets : Len(Chain(b)) <= map.size /\ Len(Chain(b)) \in Nat
    BY <2>1, ChainType DEF SizeCounts
  <2>3. map.size \in Nat
    BY <2>1 DEF Shape
  <2>4. Places = AllPlaces
    <3>1. ASSUME NEW b \in Buckets, NEW i
          PROVE  (i \in 1..map.size /\ i <= Len(Chain(b)))
                   <=> (i \in Nat /\ i \in 1..Len(Chain(b)))
      BY <2>2, <2>3
    <3> QED BY <3>1 DEF Places, AllPlaces, Chain
  <2>5. ASSUME NEW p \in Places
        PROVE  /\ p[1] \in Buckets /\ p[2] \in 1..Len(Chain(p[1]))
               /\ p = <<p[1], p[2]>>
               /\ Entry(p) = Chain(p[1])[p[2]]
    BY <2>4 DEF AllPlaces, Entry, Chain
  <2>6. \A p \in Places : Index[Entry(p).key] = p[1]
    BY <2>1, <2>5 DEF OneEntryPerKey
  <2>7. ASSUME NEW p \in Places, NEW q \in Places, Entry(p).key = Entry(q).key
        PROVE  p = q
    <3>1. p[1] = q[1]
      BY <2>6, <2>7
    <3>2. p[2] = q[2]
      BY <2>1, <2>5, <2>7, <3>1 DEF OneEntryPerKey
    <3> QED BY <2>5, <3>1, <3>2
  <2>8. Cardinality(Places) = map.size
    BY <2>1, <2>4 DEF SizeCounts
  <2> QED BY <2>2, <2>6, <2>7, <2>8 DEF EntriesWellPlaced, Chain
<1> QED BY <1>1, MapCorrect, PTL

\* free_hashmap gives back every block, each once (hashmap.c:53-65).
THEOREM BlocksOwnedCorrect == Spec => []BlocksOwned
<1>1. MapInv => BlocksOwned
  BY DEF MapInv, BlocksCounted, BlocksOwned
<1> QED BY <1>1, MapCorrect, PTL

-----------------------------------------------------------------------------
(* The table is a map.                                                     *)

\* The map a table stands for: the keys present, each with the value of its
\* entry.
DictHolds ==
  /\ Dict = [k \in Present |-> Dict[k]]
  /\ \A key \in Key : \A i \in Found(key) :
       Dict[key] = Chain(Index[key])[i].value

LEMMA DictIs == MapInv => DictHolds
<1> SUFFICES ASSUME MapInv PROVE DictHolds
  OBVIOUS
<1>1. Dict = [k \in Present |-> Dict[k]]
  BY DEF Dict, Present
<1>2. ASSUME NEW key \in Key, NEW i \in Found(key)
      PROVE  Dict[key] = Chain(Index[key])[i].value
  <2>1. key \in Present
    BY <1>2 DEF Present
  <2>2. Dict[key] = Chain(Index[key])[First(Found(key))].value
    BY <2>1 DEF Dict, Present, Chain
  <2> QED BY <1>2, <2>2, FoundIsOne DEF MapInv
<1> QED BY <1>1, <1>2 DEF DictHolds

LEMMA EmptyDict == EmptyTable => Dict = <<>>
<1> SUFFICES ASSUME EmptyTable PROVE Dict = <<>>
  OBVIOUS
<1>1. \A key \in Key : Found(key) = {}
  <2>1. \A key \in Key : Index[key] \in Buckets
    BY MapAssumption DEF Buckets
  <2> QED BY <2>1 DEF Found, Chain, EmptyTable
<1>2. {key \in Key : Found(key) # {}} = {}
  BY <1>1
<1> QED BY <1>2 DEF Dict

\* put that finds the key.
LEMMA UpdateImplements ==
  ASSUME MapInv, MapInv', NEW key \in Key, NEW value \in Value,
         Update(key, value), DictHolds, DictHolds'
  PROVE  M!Put(key, value)
<1> DEFINE b == Index[key]
           i == First(Found(key))
<1>1. /\ i \in Found(key) /\ Found(key) = {i}
      /\ \A c \in Buckets : \A j \in 1..Len(Chain(c)) :
           Chain(c)'[j].value = IF c = b /\ j = i THEN value ELSE Chain(c)[j].value
  BY UpdateEffect DEF MapInv
<1>2. (\A k \in Key : Found(k)' = Found(k)) /\ Present' = Present
  BY UpdateFound DEF MapInv
<1>3. key \in Present
  BY <1>1 DEF Present
<1>4. ASSUME NEW k \in Present
      PROVE  Dict'[k] = IF k = key THEN value ELSE Dict[k]
  <2>1. PICK j \in Found(k) : TRUE
    BY DEF Present
  <2>2. /\ k \in Key /\ Index[k] \in Buckets
        /\ j \in 1..Len(Chain(Index[k])) /\ Chain(Index[k])[j].key = k
    BY <2>1, FoundIsOne DEF MapInv, Present
  <2>3. /\ Dict[k] = Chain(Index[k])[j].value
        /\ Dict'[k] = Chain(Index[k])'[j].value
    BY <1>2, <2>1, <2>2 DEF DictHolds
  <2>4. CASE k = key
    BY <1>1, <2>1, <2>2, <2>3, <2>4
  <2>5. CASE k # key
    <3>1. Index[k] = b => j # i
      BY <1>1, <2>2, <2>5, FoundIsOne DEF MapInv
    <3> QED BY <1>1, <2>2, <2>3, <2>5, <3>1
  <2> QED BY <2>4, <2>5
<1>5. Dict' = [k \in Present |-> Dict'[k]] /\ DOMAIN Dict = Present
  BY <1>2 DEF DictHolds
<1>6. Dict' = [k \in DOMAIN Dict \cup {key} |-> IF k = key THEN value ELSE Dict[k]]
  <2>1. DOMAIN Dict \cup {key} = Present
    BY <1>3, <1>5
  <2> QED BY <1>4, <1>5, <2>1
<1>7. answer' = answer
  BY DEF Update
<1> QED BY <1>6, <1>7 DEF M!Put

\* put that does not.
LEMMA InsertImplements ==
  ASSUME MapInv, MapInv', NEW key \in Key, NEW value \in Value,
         Insert(key, value), DictHolds, DictHolds'
  PROVE  M!Put(key, value)
<1> DEFINE b == Index[key]
           n == Len(Chain(b))
<1>1. /\ b \in Buckets /\ n \in Nat
      /\ \A c \in Buckets : c # b => Chain(c)' = Chain(c)
      /\ Chain(b)'[1] = NewEntry(key, value)
      /\ \A j \in 1..n : Chain(b)'[j + 1] = Chain(b)[j]
  BY InsertEffect DEF MapInv
<1>2. /\ Present' = Present \cup {key} /\ key \notin Present
      /\ 1 \in Found(key)'
      /\ \A k \in Key \ {key} : \A i \in Found(k) :
           (IF Index[k] = b THEN i + 1 ELSE i) \in Found(k)'
  BY InsertFound DEF MapInv
<1>3. Dict'[key] = value
  <2>1. Dict'[key] = Chain(b)'[1].value
    BY <1>2 DEF DictHolds
  <2> QED BY <1>1, <2>1 DEF NewEntry
<1>4. ASSUME NEW k \in Present
      PROVE  Dict'[k] = Dict[k]
  <2>1. PICK j \in Found(k) : TRUE
    BY DEF Present
  <2>2. /\ k \in Key /\ k # key /\ Index[k] \in Buckets
        /\ j \in 1..Len(Chain(Index[k]))
    BY <1>2, <2>1, FoundIsOne DEF MapInv, Present
  <2>3. Dict[k] = Chain(Index[k])[j].value
    BY <2>1, <2>2 DEF DictHolds
  <2>4. CASE Index[k] = b
    <3>1. j + 1 \in Found(k)'
      BY <1>2, <2>1, <2>2, <2>4
    <3>2. Dict'[k] = Chain(Index[k])'[j + 1].value
      BY <2>2, <3>1 DEF DictHolds
    <3> QED BY <1>1, <2>2, <2>3, <2>4, <3>2
  <2>5. CASE Index[k] # b
    <3>1. j \in Found(k)'
      BY <1>2, <2>1, <2>2, <2>5
    <3>2. Dict'[k] = Chain(Index[k])'[j].value
      BY <2>2, <3>1 DEF DictHolds
    <3> QED BY <1>1, <2>2, <2>3, <2>5, <3>2
  <2> QED BY <2>4, <2>5
<1>5. Dict' = [k \in Present' |-> Dict'[k]] /\ DOMAIN Dict = Present
  BY DEF DictHolds
<1>6. Dict' = [k \in DOMAIN Dict \cup {key} |-> IF k = key THEN value ELSE Dict[k]]
  BY <1>2, <1>3, <1>4, <1>5
<1>7. answer' = answer
  BY DEF Insert
<1> QED BY <1>6, <1>7 DEF M!Put

LEMMA GetImplements ==
  ASSUME MapInv, NEW key \in Key, Get(key), DictHolds
  PROVE  M!Get(key)
<1>1. /\ answer' = IF Found(key) = {} THEN -1
                   ELSE Chain(Index[key])[First(Found(key))].value
      /\ map' = map
  BY DEF Get, Chain
<1>2. Dict' = Dict
  BY <1>1 DEF Dict, Found
<1>3. DOMAIN Dict = Present
  BY DEF DictHolds
<1>4. answer' = M!Lookup(key)
  <2>1. CASE Found(key) = {}
    BY <1>1, <1>3, <2>1 DEF M!Lookup, M!Absent, Present
  <2>2. CASE Found(key) # {}
    <3>1. key \in DOMAIN Dict /\ First(Found(key)) \in Found(key)
      BY <1>3, <2>2, FoundIsOne DEF MapInv, Present
    <3> QED BY <1>1, <2>2, <3>1 DEF M!Lookup, DictHolds
  <2> QED BY <2>1, <2>2
<1> QED BY <1>2, <1>4 DEF M!Get

\* Every call on the table is the call on the map: get answers with the last
\* value put under the key, whatever collides (hashmap.c:9-65).
THEOREM ImplementsMapCorrect == Spec => ImplementsMap
<1>1. Init => M!MapInit
  <2> SUFFICES ASSUME Init PROVE M!MapInit
    OBVIOUS
  <2>1. EmptyTable
    BY DEF Init, EmptyTable, Chain, NoMap
  <2> QED BY <2>1, EmptyDict DEF Init, M!MapInit, M!Absent
<1>2. MapInv /\ MapInv' /\ DictHolds /\ DictHolds' /\ [Next]_vars
        /\ (EmptyTable => Dict = <<>>)' => [M!MapNext]_(M!mapVars)
  <2> SUFFICES ASSUME MapInv, MapInv', DictHolds, DictHolds', [Next]_vars,
                      (EmptyTable => Dict = <<>>)'
               PROVE  [M!MapNext]_(M!mapVars)
    OBVIOUS
  <2>1. ASSUME CreateHashmap \/ FreeHashmap
        PROVE  M!Clear
    <3>1. map'.buckets = NoMap.buckets /\ map'.size = 0 /\ answer' = answer
      <4>1. CASE CreateHashmap
        BY <4>1 DEF CreateHashmap, NoMap
      <4>2. CASE FreeHashmap
        BY <4>2 DEF FreeHashmap, NoMap
      <4> QED BY <2>1, <4>1, <4>2
    <3>2. \A b \in Buckets : Chain(b)' = <<>>
      BY <3>1 DEF Chain, NoMap
    <3>3. EmptyTable'
      BY <3>1, <3>2 DEF EmptyTable
    <3> QED BY <3>1, <3>3 DEF M!Clear
  <2>2. ASSUME NEW key \in Key, NEW value \in Value,
               Update(key, value) \/ Insert(key, value)
        PROVE  M!Put(key, value)
    BY <2>2, UpdateImplements, InsertImplements
  <2>3. ASSUME NEW key \in Key, Get(key)
        PROVE  M!Get(key)
    BY <2>3, GetImplements
  <2>4. CASE UNCHANGED vars
    <3>1. Dict' = Dict /\ answer' = answer
      BY <2>4 DEF vars, Dict, Found
    <3> QED BY <3>1 DEF M!mapVars
  <2> QED BY <2>1, <2>2, <2>3, <2>4 DEF Next, M!MapNext
<1> QED BY <1>1, <1>2, MapCorrect, DictIs, EmptyDict, PTL
        DEF Spec, ImplementsMap, M!MapSpec
=============================================================================
