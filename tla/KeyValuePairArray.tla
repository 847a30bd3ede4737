-------------------------- MODULE KeyValuePairArray --------------------------
(***************************************************************************)
(* parsing/DataStructures/KeyValuePairArray.c with the heap it works on.   *)
(* A block is a number; `heap` is the set of blocks malloc has given out   *)
(* and free has not taken back, and no block is given out twice, so a      *)
(* stale pointer is one that is not in `heap`.  The array is the caller's  *)
(* struct: init_key_value_array fills it, free_key_value_pair_array        *)
(* releases what it points to.  Any malloc or strdup may return NULL; the  *)
(* use of a NULL pointer ends the process (`crashed`).                     *)
(*                                                                         *)
(* The actions are the calls.  ArrayNext is one owner that makes them in   *)
(* any order, with what tests/unitTests.c does beside them: it frees pairs *)
(* with its own hands.                                                     *)
(***************************************************************************)
EXTENDS Integers, Sequences, FiniteSets

CONSTANTS
  Key,           \* element names
  Text,          \* element texts
  Missing,       \* the text of an element that has none: value is NULL
  MaxCapacity,   \* MAX_CAPACITY (10)
  Capacities,    \* the capacities callers ask for
  MaxBlocks,     \* bound: allocations tried
  MaxFailures,   \* bound: allocations that fail
  SetsType       \* TRUE: the caller names a request type before it frees

ASSUME ArrayAssumption ==
  /\ MaxCapacity \in Nat \ {0}
  /\ Capacities \subseteq Nat
  /\ MaxBlocks \in Nat
  /\ MaxFailures \in Nat
  /\ Missing \in Text
  /\ SetsType \in BOOLEAN

VARIABLES
  heap,      \* the blocks that are allocated
  top,       \* the number of allocations tried
  failures,  \* how many of them returned NULL
  array,     \* the KeyValuePairArray
  refused,   \* blocks of pairs add_key_value refused: the caller's to free
  offered,   \* history: the pairs given to add_key_value on this array
  badFree,   \* free was called on a pointer that is no allocated block
  crashed,   \* a NULL pointer was dereferenced: the process is gone
  lost       \* history, the owner's: allocated blocks no pointer is left to

memoryVars == <<heap, top, failures>>
arrayVars == <<memoryVars, array, refused, offered, badFree, crashed>>
callerVars == <<arrayVars, lost>>

Null == 0
Garbage == -1   \* any other pointer that no call has set

\* What an uninitialised pointer may hold.
Stale == {Null, Garbage}

NoArray == [live |-> FALSE, data |-> Garbage, size |-> 0, capacity |-> 0,
            request_type |-> Garbage, pairs |-> <<>>]

\* What n calls of malloc or strdup may return, one after the other.
Allocations(n) ==
  {[i \in 1..n |-> IF i \in failed THEN Null ELSE top + i] :
     failed \in {S \in SUBSET (1..n) : failures + Cardinality(S) <= MaxFailures}}

\* Those calls were made and returned p.
Take(p) ==
  LET null == {i \in 1..Len(p) : p[i] = Null} IN
  /\ heap' = heap \cup {p[i] : i \in 1..Len(p) \ null}
  /\ top' = top + Len(p)
  /\ failures' = failures + Cardinality(null)

\* Release the blocks of a sequence of pointers, one after the other; a NULL
\* is ignored, and the second free of a block is a bad one.
Free(pointers) ==
  LET freed == {pointers[i] : i \in 1..Len(pointers)} IN
  /\ heap' = heap \ freed
  /\ badFree' = (badFree \/ \E i \in 1..Len(pointers) :
                   /\ pointers[i] # Null
                   /\ \/ pointers[i] \notin heap
                      \/ \E j \in 1..(i - 1) : pointers[j] = pointers[i])

ArrayInit ==
  /\ heap = {}
  /\ top = 0
  /\ failures = 0
  /\ array = NoArray
  /\ refused = {}
  /\ offered = <<>>
  /\ badFree = FALSE
  /\ crashed = FALSE

Granted_Unclamped(capacity) == capacity % 256

\* The parameter is an unsigned char: an int argument arrives modulo 256.
Granted(capacity) ==
  IF capacity % 256 > MaxCapacity THEN MaxCapacity ELSE capacity % 256

\* init_key_value_array: it does not look at what malloc returned, and
\* request_type stays what it was on the caller's stack.
InitArray(capacity) ==
  /\ \E p \in Allocations(1), stale \in Stale :
       /\ Take(p)
       /\ array' = [NoArray EXCEPT !.live = TRUE, !.data = p[1],
                                   !.capacity = Granted(capacity),
                                   !.request_type = stale]
  /\ offered' = <<>>
  /\ UNCHANGED <<refused, badFree, crashed>>

SetRequestType_Borrows ==
  /\ array' = [array EXCEPT !.request_type = array.data]
  /\ UNCHANGED <<memoryVars, refused, offered, badFree, crashed>>

\* set_request_type: a copy of the name; the pointer it had is overwritten.
SetRequestType ==
  /\ \E p \in Allocations(1) :
       /\ Take(p)
       /\ array' = [array EXCEPT !.request_type = p[1]]
  /\ UNCHANGED <<refused, offered, badFree, crashed>>

AddPair_OneTooMany(key, text) ==
  \E p \in Allocations(2) :
    LET pair == [key |-> p[1], value |-> p[2], name |-> key, text |-> text]
        full == array.size > array.capacity
    IN
    /\ Take(p)
    /\ offered' = Append(offered, [name |-> key, text |-> text])
    /\ array' = IF full THEN array
                ELSE [array EXCEPT !.size = @ + 1, !.pairs = Append(@, pair)]
    /\ refused' = IF full THEN refused \cup ({p[1], p[2]} \ {Null}) ELSE refused
    /\ crashed' = \/ text = Missing /\ p[2] = Null
                  \/ ~ full /\ array.data = Null
    /\ UNCHANGED badFree

AddPair_NoMissingCase(key, text) ==
  \E p \in Allocations(2) :
    LET pair == [key |-> p[1], value |-> p[2], name |-> key, text |-> text]
        full == array.size = array.capacity
    IN
    /\ Take(p)
    /\ offered' = Append(offered, [name |-> key, text |-> text])
    /\ array' = IF full THEN array
                ELSE [array EXCEPT !.size = @ + 1, !.pairs = Append(@, pair)]
    /\ refused' = IF full THEN refused \cup ({p[1], p[2]} \ {Null}) ELSE refused
    /\ crashed' = \/ text = Missing
                  \/ ~ full /\ array.data = Null
    /\ UNCHANGED badFree

\* init_key_value_pair makes a pair of two new blocks, add_key_value copies it
\* into the array or, when that is full, returns FAIL and leaves the blocks
\* with the caller.  A missing value gets a block for "", written to without
\* a look at the pointer; a value that got no block is FAIL, which the callers
\* ignore, and the pair is stored with a NULL value.
AddPair(key, text) ==
  \E p \in Allocations(2) :
    LET pair == [key |-> p[1], value |-> p[2], name |-> key, text |-> text]
        full == array.size = array.capacity
    IN
    /\ Take(p)
    /\ offered' = Append(offered, [name |-> key, text |-> text])
    /\ array' = IF full THEN array
                ELSE [array EXCEPT !.size = @ + 1, !.pairs = Append(@, pair)]
    /\ refused' = IF full THEN refused \cup ({p[1], p[2]} \ {Null}) ELSE refused
    /\ crashed' = \/ text = Missing /\ p[2] = Null
                  \/ ~ full /\ array.data = Null
    /\ UNCHANGED badFree

\* The pointers of the pairs, each key before its value.
PairPointers ==
  [i \in 1..(2 * array.size) |->
     LET pair == array.pairs[(i + 1) \div 2] IN
     IF i % 2 = 1 THEN pair.key ELSE pair.value]

Released_KeepsData == Append(PairPointers, array.request_type)

\* The pointers free_key_value_pair_array frees, in its order.
Released == PairPointers \o <<array.request_type, array.data>>

\* free_key_value_pair_array; the struct goes out of its owner's use.
FreeArray ==
  /\ Free(Released)
  /\ array' = NoArray
  /\ UNCHANGED <<top, failures, refused, offered, crashed>>

-----------------------------------------------------------------------------
(* Look-ups.                                                               *)

PairsNamed(key) ==
  {i \in 1..array.size : array.pairs[i].key # Null /\ array.pairs[i].name = key}

\* A look-up compares the key of every pair before the first match: it runs
\* into a key that strdup did not get.
MeetsNull(key) ==
  \E i \in 1..array.size :
    array.pairs[i].key = Null /\ \A j \in 1..i : j \notin PairsNamed(key)

\* get_key returns SUCCESS.
GetKey(key) == PairsNamed(key) # {}

\* The pair get_value finds: the first with that key.
GetValue(key) ==
  array.pairs[CHOOSE i \in PairsNamed(key) : \A j \in PairsNamed(key) : i <= j]

-----------------------------------------------------------------------------
(* An owner of the array.                                                  *)

\* The blocks the array points to.
Owned ==
  IF array.live
  THEN ({array.data, array.request_type} \cup
        {array.pairs[i].key : i \in 1..Len(array.pairs)} \cup
        {array.pairs[i].value : i \in 1..Len(array.pairs)}) \ Stale
  ELSE {}

Roomy(n) == top + n <= MaxBlocks

CallInitArray ==
  /\ ~ array.live
  /\ Roomy(1)
  /\ \E capacity \in Capacities : InitArray(capacity)
  /\ UNCHANGED lost

\* A second call loses the copy the first one made.
CallSetRequestType ==
  /\ array.live
  /\ Roomy(1)
  /\ SetRequestType
  /\ lost' = lost \cup ({array.request_type} \ Stale)

CallAddPair ==
  /\ array.live
  /\ Roomy(2)
  /\ \E key \in Key, text \in Text : AddPair(key, text)
  /\ UNCHANGED lost

CallFreeArray ==
  /\ array.live
  /\ SetsType => array.request_type \notin Stale
  /\ FreeArray
  /\ UNCHANGED lost

\* get_key and get_value only read, when they return.
CallLookUp ==
  /\ array.live
  /\ \E key \in Key : MeetsNull(key)
  /\ crashed' = TRUE
  /\ UNCHANGED <<memoryVars, array, refused, offered, badFree, lost>>

\* Unit tests that do not call free_key_value_pair_array free the pairs the
\* array took, or its data, and leave the rest of it where it is.
ReleaseByHand ==
  /\ array.live
  /\ \E pointers \in {PairPointers, <<array.data>>} :
       /\ Free(pointers)
       /\ lost' = lost \cup (Owned \ {pointers[i] : i \in 1..Len(pointers)})
  /\ array' = NoArray
  /\ UNCHANGED <<top, failures, refused, offered, crashed>>

\* They free a pair the array refused in the same way.
FreeRefused ==
  /\ refused # {}
  /\ heap' = heap \ refused
  /\ refused' = {}
  /\ UNCHANGED <<top, failures, array, offered, badFree, crashed, lost>>

CallerStarts == ArrayInit /\ lost = {}

ArrayNext ==
  /\ ~ crashed
  /\ \/ CallInitArray
     \/ CallSetRequestType
     \/ CallAddPair
     \/ CallLookUp
     \/ CallFreeArray
     \/ ReleaseByHand
     \/ FreeRefused

ArraySpec == CallerStarts /\ [][ArrayNext]_callerVars

-----------------------------------------------------------------------------
(* Properties.                                                             *)

Pair == [key : Nat, value : Nat, name : Key, text : Text]

\* Every variable has its type, and the array never holds more pairs than it
\* has room for, nor more than MAX_CAPACITY (KeyValuePairArray.c:5, 44).
ArrayTypeOK ==
  /\ heap \subseteq 1..top
  /\ top \in Nat
  /\ array \in [live : BOOLEAN, data : Nat \cup {Garbage}, size : Nat,
                capacity : 0..MaxCapacity, request_type : Nat \cup {Garbage},
                pairs : Seq(Pair)]
  /\ array.size = Len(array.pairs)
  /\ array.size <= array.capacity
  /\ refused \subseteq 1..top
  /\ offered \in Seq([name : Key, text : Text])
  /\ badFree \in BOOLEAN
  /\ crashed \in BOOLEAN
  /\ failures \in 0..MaxFailures

\* Nothing is freed that is not an allocated block, and nothing twice, by
\* free_key_value_pair_array or by hand (KeyValuePairArray.c:52-63,
\* unitTests.c:57-62).
NoBadFree == ~ badFree

\* Every allocated block is in one place: the array points to it, the caller
\* keeps it from a refused pair, or it is lost, and only two things lose one: a
\* second set_request_type, which overwrites the pointer to the first name
\* (KeyValuePairArray.c:36), and an owner that frees by hand and leaves data or
\* the name behind (unitTests.c:57-62, 132).  free_key_value_pair_array loses
\* none, and no allocation that fails in between costs a block.
BlocksAccounted ==
  ~ crashed =>
    /\ heap = Owned \cup refused \cup lost
    /\ Owned \cap refused = {}
    /\ (Owned \cup refused) \cap lost = {}

\* A look-up that returns sees the first pair offered under a key, provided it
\* was among the first `capacity` pairs offered; later pairs are as if never
\* offered, and so is one whose key could not be copied
\* (KeyValuePairArray.c:43-50, 65-89).
FirstPairWins ==
  array.live /\ ~ crashed =>
    \A key \in Key :
      LET early == {i \in 1..Len(offered) : /\ i <= array.capacity
                                            /\ offered[i].name = key}
      IN \/ MeetsNull(key)
         \/ /\ GetKey(key) <=> early # {}
            /\ \A i \in early :
                 (\A j \in early : i <= j) => GetValue(key).text = offered[i].text

\* No call uses a NULL pointer while every allocation succeeds
\* (KeyValuePairArray.c:17-26, 44-47, 67).
CrashNeedsFailure == crashed => failures > 0
=============================================================================
