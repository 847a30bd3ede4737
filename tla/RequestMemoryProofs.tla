------------------------- MODULE RequestMemoryProofs -------------------------
(***************************************************************************)
(* Proofs about RequestMemory, for every set of documents, every number of *)
(* allocations that fail and every MAX_CAPACITY a char holds: no pointer   *)
(* of the read loop dangles, the array the tree walk fills is the one the  *)
(* server computes with, and a request leaves behind what Footprint says.  *)
(*                                                                         *)
(* The calls on the array are KeyValuePairArray's; what each does to the   *)
(* heap is proved in KeyValuePairArrayProofs and used here.                *)
(***************************************************************************)
EXTENDS RequestMemory, PositionProofs, FiniteSetTheorems

\* The parts of RequestAssumption, for arithmetic.
LEMMA BoundTypes ==
  /\ MaxCapacity \in Nat /\ MaxCapacity > 0
  /\ CharMax \in Nat /\ CharMax > 0
<1>1. MaxCapacity \in Nat \ {0} /\ CharMax \in Nat \ {0}
  BY RequestAssumption
<1> QED BY <1>1

LEMMA DocType ==
  ASSUME NEW d \in Doc
  PROVE  /\ d.root \in STRING
         /\ d.elems \in Seq(Pair)
BY RequestAssumption

\* MaxBlocks bounds only the caller ArrayNext, which is not used here.
P == INSTANCE KeyValuePairArrayProofs WITH
       Key <- STRING, Text <- Value, Missing <- NoText,
       Capacities <- {MaxCapacity}, MaxBlocks <- 0, SetsType <- TRUE,
       lost <- {}

-----------------------------------------------------------------------------
(* The array of the program and the array of its proofs are the same.      *)

LEMMA ArrayParameters == P!ArrayAssumption
BY RequestAssumption, MemoryAssumption DEF P!ArrayAssumption

LEMMA SameCardinality ==
  ASSUME NEW S
  PROVE  P!Cardinality(S) = Cardinality(S) /\ A!Cardinality(S) = Cardinality(S)
BY DEF P!Cardinality, A!Cardinality, Cardinality

LEMMA SamePointers ==
  /\ P!Null = 0 /\ A!Null = 0 /\ P!Garbage = -1 /\ A!Garbage = -1
  /\ P!Stale = A!Stale /\ P!NoArray = A!NoArray
BY DEF P!Null, A!Null, P!Garbage, A!Garbage, P!Stale, A!Stale, P!NoArray, A!NoArray

LEMMA SameAllocations ==
  ASSUME NEW n
  PROVE  A!Allocations(n) = P!Allocations(n)
BY SameCardinality DEF P!Allocations, A!Allocations, P!Null, A!Null

LEMMA SameTake ==
  ASSUME NEW p
  PROVE  A!Take(p) <=> P!Take(p)
BY SameCardinality DEF P!Take, A!Take, P!Null, A!Null

LEMMA SameInit == A!ArrayInit <=> P!ArrayInit
BY SamePointers DEF A!ArrayInit, P!ArrayInit

LEMMA SameInitArray ==
  ASSUME NEW c
  PROVE  A!InitArray(c) => P!InitArray(c)
<1> SUFFICES ASSUME A!InitArray(c) PROVE P!InitArray(c)
  OBVIOUS
<1>1. PICK p \in A!Allocations(1), stale \in A!Stale :
        /\ A!Take(p)
        /\ array' = [A!NoArray EXCEPT !.live = TRUE, !.data = p[1],
                                      !.capacity = A!Granted(c),
                                      !.request_type = stale]
  BY DEF A!InitArray
<1>2. A!Granted(c) = P!Granted(c)
  BY DEF A!Granted, P!Granted
<1>3. P!Take(p) /\ p \in P!Allocations(1) /\ stale \in P!Stale
  BY <1>1, SameTake, SameAllocations, SamePointers
<1>4. array' = [P!NoArray EXCEPT !.live = TRUE, !.data = p[1],
                                 !.capacity = P!Granted(c),
                                 !.request_type = stale]
  BY <1>1, <1>2, SamePointers
<1>5. offered' = <<>> /\ UNCHANGED <<refused, badFree, crashed>>
  BY DEF A!InitArray
<1> QED BY <1>3, <1>4, <1>5 DEF P!InitArray

LEMMA SameSetRequestType == A!SetRequestType => P!SetRequestType
BY SameTake, SameAllocations DEF A!SetRequestType, P!SetRequestType

LEMMA SameAddPair ==
  ASSUME NEW key, NEW text, A!AddPair(key, text)
  PROVE  P!AddPair(key, text)
BY SameTake, SameAllocations, SamePointers DEF A!AddPair, P!AddPair

LEMMA SameFreeArray == A!FreeArray => P!FreeArray
<1>1. A!Released = P!Released
  BY DEF A!Released, P!Released, A!PairPointers, P!PairPointers
<1>2. \A s : A!Free(s) => P!Free(s)
  BY SamePointers DEF A!Free, P!Free
<1> QED BY <1>1, <1>2, SamePointers DEF A!FreeArray, P!FreeArray

LEMMA SameOwned == A!Owned = P!Owned
BY SamePointers DEF A!Owned, P!Owned

LEMMA SameMeetsNull ==
  ASSUME NEW key
  PROVE  A!MeetsNull(key) <=> P!MeetsNull(key)
BY SamePointers DEF A!MeetsNull, P!MeetsNull, A!PairsNamed, P!PairsNamed

-----------------------------------------------------------------------------
(* The invariant of the blocks and of the walk.                            *)

\* The loop has an array from init_key_value_array to
\* free_key_value_pair_array, and has named its type before it looks at it.
ArrayInUse ==
  /\ array.live <=> step \in {"type", "traverse", "write"}
  /\ step = "type" => array.request_type \in P!Stale
  /\ step \in {"traverse", "write"} =>
       /\ array.request_type # P!Garbage
       /\ array.request_type = P!Null => failures > 0

\* The blocks of the loop itself are neither the array's nor those of refused
\* pairs, and no pointer of the loop shares one.
LoopBlocks ==
  /\ step \notin {"session", "ended"} => device \in P!Unowned \cup {P!Null}
  /\ step \in {"init", "type", "traverse", "write", "free"} =>
       docBlock \in P!Unowned \ {device}
  /\ step \in {"write", "free"} /\ ~ crashed =>
       idBlock \in P!Unowned \ {device, docBlock}
  /\ step = "write" => replyBlock \in P!Unowned \cup {P!Null}

LoopInv ==
  /\ P!ArrayInv
  /\ ArrayInUse
  /\ LoopBlocks
  /\ ~ badFree
  /\ CrashNeedsFailure

\* The pair extract_xml makes of a node.
PairAt(t, node) ==
  [name |-> t[node].name, text |-> ElementText(t, node, NoText)]

\* The nodes up to m have been visited.  Each activation but the last waits
\* at a node whose subtree is being walked, one level deeper than its caller's;
\* the last is at the next node if that is on its level, and at the end of its
\* level otherwise.
StackAt(t, s, m) ==
  LET k == Len(s) IN
  /\ \A i \in 1..(k - 1) :
       /\ s[i] \in 2..m
       /\ t[s[i]].depth = i + 1
       /\ \A n \in (s[i] + 1)..m : t[n].depth > i + 1
  /\ k > 0 => \/ /\ s[k] = m + 1
                 /\ m < Len(t)
                 /\ t[m + 1].depth = k + 1
              \/ /\ s[k] = NullNode
                 /\ m < Len(t) => t[m + 1].depth <= k
  /\ k = 0 => m = Len(t)

\* The pairs offered are those of the elements up to m, in order.
OfferedUpTo(t, pairs, m) ==
  /\ Len(pairs) = Cardinality(ElementsUpTo(t, m))
  /\ \A i \in 1..Len(pairs) : \E n \in ElementsUpTo(t, m) :
       /\ Cardinality(ElementsUpTo(t, n)) = i
       /\ pairs[i] = PairAt(t, n)

\* The array has room for MAX_CAPACITY pairs and gets those of the nodes
\* visited.
Traversal ==
  /\ step \in {"init", "type", "traverse", "write", "free"} => tree \in Tree
  /\ step \in {"type", "traverse", "write"} => array.capacity = MaxCapacity
  /\ step = "type" => offered = <<>>
  /\ step = "traverse" =>
       /\ stack \in Seq(Nat)
       /\ \E m \in 1..Len(tree) : /\ StackAt(tree, stack, m)
                                  /\ OfferedUpTo(tree, offered, m)
  /\ step = "write" => OfferedUpTo(tree, offered, Len(tree))

LEMMA LoopInit == Init => LoopInv
<1> SUFFICES ASSUME Init PROVE LoopInv
  OBVIOUS
<1>1. P!ArrayInv /\ CrashNeedsFailure
  BY ArrayParameters, SameInit, P!CallerInit
  DEF Init, P!CallerStarts, P!CallerInv, P!CrashNeedsFailure, CrashNeedsFailure
<1>2. ArrayInUse /\ LoopBlocks /\ ~ badFree
  BY DEF Init, A!ArrayInit, A!NoArray, ArrayInUse, LoopBlocks
<1> QED BY <1>1, <1>2 DEF LoopInv

\* What the loop does with its own blocks leaves the array alone.
LEMMA LoopTakes ==
  ASSUME LoopInv, NEW n \in Nat, NEW p \in A!Allocations(n), A!Take(p),
         UNCHANGED <<array, refused, offered, badFree>>, crashed' \in BOOLEAN
  PROVE  /\ P!ArrayInv'
         /\ P!Unowned' = P!Unowned \cup ({p[i] : i \in 1..n} \ {P!Null})
         /\ \A i \in 1..n : p[i] \in P!Unowned' \cup {P!Null} /\ p[i] \notin heap
         /\ \A i, j \in 1..n : p[i] = p[j] /\ p[i] # P!Null => i = j
         /\ heap' = heap \cup ({p[i] : i \in 1..n} \ {P!Null})
         /\ failures' \in Nat /\ failures \in Nat /\ failures <= failures'
         /\ (\E i \in 1..n : p[i] = P!Null) => failures' > 0
<1>1. P!ArrayInv /\ p \in P!Allocations(n) /\ P!Take(p)
  BY SameAllocations, SameTake DEF LoopInv
<1>2. badFree' \in BOOLEAN /\ failures \in Nat /\ top \in Nat /\ P!Null \notin heap
  BY <1>1, SamePointers DEF P!ArrayInv, P!ArrayTypeOK
<1>3. /\ P!ArrayInv'
      /\ P!Unowned' = P!Unowned \cup ({p[i] : i \in 1..n} \ {P!Null})
      /\ ({p[i] : i \in 1..n} \ {P!Null}) \cap heap = {}
      /\ heap' = heap \cup ({p[i] : i \in 1..n} \ {P!Null})
      /\ failures' \in Nat /\ failures <= failures'
      /\ (\E i \in 1..n : p[i] = P!Null) => failures' > 0
      /\ \A i \in 1..n : p[i] = P!Null \/ p[i] = top + i
  BY <1>1, <1>2, ArrayParameters, P!CallerTakes
<1>4. \A i, j \in 1..n : p[i] = p[j] /\ p[i] # P!Null => i = j
  BY <1>2, <1>3
<1> QED BY <1>2, <1>3, <1>4

\* A step that changes no block, and nothing of the array.
LEMMA LoopRests ==
  ASSUME LoopInv, UNCHANGED <<arrayVars, docBlock, idBlock, replyBlock, device>>
  PROVE  /\ P!ArrayInv' /\ P!Unowned' = P!Unowned
         /\ ~ badFree' /\ CrashNeedsFailure'
<1>1. UNCHANGED <<heap, top, failures, array, refused, offered, badFree, crashed>>
  BY DEF arrayVars, memoryVars
<1>2. P!ArrayInv /\ crashed' \in BOOLEAN
  BY <1>1 DEF LoopInv, P!ArrayInv, P!ArrayTypeOK
<1> QED BY <1>1, <1>2, ArrayParameters, P!ArrayKept DEF LoopInv, CrashNeedsFailure

\* What extract_xml finds in a node has its type.
LEMMA NodeTypes ==
  ASSUME NEW t \in Tree, NEW n \in 1..Len(t)
  PROVE  /\ t[n].depth \in Nat \ {0}
         /\ t[n].name \in STRING
         /\ ElementText(t, n, NoText) \in Value
<1>1. t \in Seq(Node(Value)) /\ Len(t) \in Nat
  BY MemoryAssumption, LenProperties DEF IsTree
<1>2. \A k \in 1..Len(t) : t[k] \in Node(Value)
  BY <1>1, ElementOfSeq
<1>3. /\ Children(t, n) # NullNode => Children(t, n) \in 1..Len(t)
  BY <1>1 DEF Children
<1>4. ElementText(t, n, NoText) \in Value
  <2>1. NoText \in Value
    BY RequestAssumption
  <2> QED BY <1>2, <1>3, <2>1 DEF ElementText, Node
<1> QED BY <1>2, <1>4 DEF Node

\* The node traverse_xml is at is the next one.
LEMMA ChildIsNext ==
  ASSUME Traversal, step = "traverse", stack # <<>>, child # NullNode
  PROVE  child \in 2..Len(tree)
<1>1. PICK m \in 1..Len(tree) : StackAt(tree, stack, m) /\ stack \in Seq(Nat)
  BY DEF Traversal
<1>2. Len(stack) \in Nat /\ Len(stack) > 0 /\ tree \in Seq(Node(Value)) /\ Len(tree) \in Nat
  <2>1. tree \in Seq(Node(Value))
    BY MemoryAssumption DEF Traversal, IsTree
  <2> QED BY <1>1, <2>1, EmptySeq, LenProperties
<1>3. child = m + 1 /\ m < Len(tree)
  BY <1>1, <1>2 DEF StackAt, child
<1> QED BY <1>2, <1>3

LEMMA LoopStep ==
  ASSUME LoopInv, Traversal, [Next]_vars
  PROVE  LoopInv'
<1>0. /\ P!ArrayInv /\ ~ badFree /\ CrashNeedsFailure
      /\ crashed \in BOOLEAN /\ failures \in Nat
      /\ P!Unowned \subseteq heap /\ P!Null \notin heap
      /\ heap \subseteq 1..top /\ top \in Nat
  BY SamePointers DEF LoopInv, P!ArrayInv, P!ArrayTypeOK, P!Unowned
<1>1. CASE InitAbcc
  <2>1. PICK p \in A!Allocations(1) : A!Take(p) /\ device' = p[1]
    BY <1>1 DEF InitAbcc
  <2>2. /\ step = "session" /\ step' = "read"
        /\ UNCHANGED <<array, refused, offered, badFree, crashed>>
    BY <1>1 DEF InitAbcc
  <2>3. /\ P!ArrayInv' /\ device' \in P!Unowned' \cup {P!Null}
        /\ failures' \in Nat /\ failures <= failures'
    BY <1>0, <2>1, <2>2, LoopTakes
  <2>4. ArrayInUse' /\ LoopBlocks'
    BY <2>2, <2>3 DEF LoopInv, ArrayInUse, LoopBlocks
  <2> QED BY <1>0, <2>2, <2>3, <2>4 DEF LoopInv, CrashNeedsFailure
<1>2. CASE SessionEnds
  <2>1. /\ step = "read" /\ step' \in {"session", "ended"}
        /\ UNCHANGED arrayVars
        /\ UNCHANGED <<array, failures, docBlock, idBlock, replyBlock, device>>
    BY <1>2 DEF SessionEnds, loopVars, arrayVars, memoryVars
  <2>2. /\ P!ArrayInv' /\ P!Unowned' = P!Unowned
        /\ ~ badFree' /\ CrashNeedsFailure'
    BY <2>1, LoopRests
  <2>3. ArrayInUse' /\ LoopBlocks'
    BY <2>1, <2>2 DEF LoopInv, ArrayInUse, LoopBlocks
  <2> QED BY <2>2, <2>3 DEF LoopInv
<1>3. CASE \E t \in Tree : ParseXml(t)
  <2>1. /\ step = "read" /\ step' = "init"
        /\ A!Take(<<top + 1>>) /\ docBlock' = top + 1
        /\ UNCHANGED <<array, refused, offered, badFree, crashed, device>>
    BY <1>3 DEF ParseXml
  <2>2. <<top + 1>> \in A!Allocations(1)
    <3>1. {} \in {S \in SUBSET (1..1) : failures + A!Cardinality(S) <= MaxFailures}
      <4>1. A!Cardinality({}) = 0
        BY SameCardinality, FS_EmptySet
      <4>2. failures <= MaxFailures /\ MaxFailures \in Nat
        BY <1>0, MemoryAssumption DEF P!ArrayInv, P!ArrayTypeOK
      <4> QED BY <1>0, <4>1, <4>2
    <3>2. <<top + 1>> = [i \in 1..1 |-> IF i \in {} THEN A!Null ELSE top + i]
      BY <1>0
    <3> QED BY <3>1, <3>2 DEF A!Allocations
  <2> DEFINE p == <<top + 1>>
  <2>3. p[1] = top + 1
    OBVIOUS
  <2> HIDE DEF p
  <2>4. /\ P!ArrayInv'
        /\ P!Unowned' = P!Unowned \cup ({p[i] : i \in 1..1} \ {P!Null})
        /\ \A i \in 1..1 : p[i] \in P!Unowned' \cup {P!Null} /\ p[i] \notin heap
        /\ failures' \in Nat /\ failures <= failures'
    BY <1>0, <2>1, <2>2, LoopTakes DEF p
  <2>5. top + 1 \in P!Unowned' /\ top + 1 \notin heap /\ top + 1 # P!Null
    BY <1>0, <2>3, <2>4, SamePointers
  <2>6. ArrayInUse' /\ LoopBlocks'
    BY <1>0, <2>1, <2>4, <2>5 DEF LoopInv, ArrayInUse, LoopBlocks
  <2> QED BY <1>0, <2>1, <2>4, <2>6 DEF LoopInv, CrashNeedsFailure
<1>4. CASE InitArray
  <2>1. /\ step = "init" /\ step' = "type" /\ A!InitArray(MaxCapacity)
        /\ UNCHANGED <<docBlock, idBlock, replyBlock, device, badFree, crashed>>
    BY <1>4 DEF InitArray, A!InitArray, loopVars
  <2>2. ~ array.live /\ P!InitArray(MaxCapacity) /\ MaxCapacity \in Nat
    BY <2>1, SameInitArray, BoundTypes DEF LoopInv, ArrayInUse
  <2>3. P!ArrayInv' /\ P!Unowned' = P!Unowned
    BY <1>0, <2>2, ArrayParameters, P!InitArrayStep
  <2>4. /\ array'.live /\ array'.request_type \in P!Stale
        /\ failures' \in Nat /\ failures <= failures'
    <3>1. PICK p \in P!Allocations(1), stale \in P!Stale :
            /\ P!Take(p)
            /\ array' = [P!NoArray EXCEPT !.live = TRUE, !.data = p[1],
                                          !.capacity = P!Granted(MaxCapacity),
                                          !.request_type = stale]
      BY <2>2 DEF P!InitArray
    <3>2. failures' \in failures..MaxFailures
      BY <1>0, <3>1, ArrayParameters, P!TakeStep DEF P!ArrayInv, P!ArrayTypeOK
    <3>3. array'.live /\ array'.request_type = stale
      BY <3>1 DEF P!NoArray
    <3> QED BY <1>0, <3>1, <3>2, <3>3, MemoryAssumption
  <2>5. ArrayInUse' /\ LoopBlocks'
    BY <2>1, <2>3, <2>4 DEF LoopInv, ArrayInUse, LoopBlocks
  <2> QED BY <1>0, <2>1, <2>3, <2>4, <2>5 DEF LoopInv, CrashNeedsFailure
<1>5. CASE SetRequestType
  <2>1. /\ step = "type" /\ step' = "traverse" /\ A!SetRequestType
        /\ UNCHANGED <<docBlock, idBlock, replyBlock, device, badFree, crashed>>
    BY <1>5 DEF SetRequestType, A!SetRequestType, loopVars
  <2>2. array.live /\ P!SetRequestType
    BY <2>1, SameSetRequestType DEF LoopInv, ArrayInUse
  <2>3. P!ArrayInv'
    BY <1>0, <2>2, ArrayParameters, P!SetRequestTypeStep
  <2>4. PICK p \in P!Allocations(1) :
          P!Take(p) /\ array' = [array EXCEPT !.request_type = p[1]]
    BY <2>2 DEF P!SetRequestType
  <2>5. /\ failures' \in failures..MaxFailures
        /\ (\E i \in 1..1 : p[i] = P!Null) => failures' > 0
        /\ \A i \in 1..1 : p[i] = P!Null \/ p[i] = top + i
    BY <1>0, <2>4, ArrayParameters, P!TakeStep DEF P!ArrayInv, P!ArrayTypeOK
  <2>6. /\ array'.request_type = p[1] /\ array'.live
    BY <1>0, <2>2, <2>4 DEF P!ArrayInv, P!ArrayTypeOK
  <2>7. p[1] # P!Garbage /\ (p[1] = P!Null => failures' > 0)
    BY <1>0, <2>5, SamePointers
  <2>8. P!Unowned' = P!Unowned
    BY <1>0, <2>1, <2>2, ArrayParameters, P!SetRequestTypeStep DEF LoopInv, ArrayInUse
  <2>9. failures' \in Nat /\ failures <= failures'
    BY <1>0, <2>5, MemoryAssumption
  <2>10. ArrayInUse' /\ LoopBlocks'
    BY <2>1, <2>6, <2>7, <2>8 DEF LoopInv, ArrayInUse, LoopBlocks
  <2> QED BY <1>0, <2>1, <2>3, <2>9, <2>10 DEF LoopInv, CrashNeedsFailure
<1>6. CASE TraverseXml
  <2>1. /\ step = "traverse" /\ step' = "traverse" /\ stack # <<>> /\ child # NullNode
        /\ ExtractXml(child)
        /\ UNCHANGED <<docBlock, idBlock, replyBlock, device>>
    BY <1>6 DEF TraverseXml, loopVars
  <2>2. CASE tree[child].type = "element"
    <3>1. A!AddPair(tree[child].name, ElementText(tree, child, NoText))
      BY <2>1, <2>2 DEF ExtractXml
    <3>2. P!AddPair(tree[child].name, ElementText(tree, child, NoText))
      BY <3>1, SameAddPair
    <3>3. tree[child].name \in STRING /\ ElementText(tree, child, NoText) \in Value
      <4>1. child \in 2..Len(tree) /\ tree \in Tree
        BY <2>1, ChildIsNext DEF Traversal
      <4>2. child \in 1..Len(tree)
        BY <4>1
      <4> QED BY <4>1, <4>2, NodeTypes
    <3>4. array.live
      BY <2>1 DEF LoopInv, ArrayInUse
    <3>5. P!ArrayInv' /\ P!Unowned' = P!Unowned /\ (crashed' => failures' > 0)
      BY <1>0, <3>2, <3>3, <3>4, ArrayParameters, P!AddPairStep
    <3>6. PICK p \in P!Allocations(2) : P!Take(p)
      BY <3>2 DEF P!AddPair
    <3>7. failures' \in failures..MaxFailures
      BY <1>0, <3>6, ArrayParameters, P!TakeStep DEF P!ArrayInv, P!ArrayTypeOK
    <3>8. badFree' = badFree /\ array'.live /\ array'.request_type = array.request_type
      BY <1>0, <3>2, <3>4 DEF P!AddPair, P!ArrayInv, P!ArrayTypeOK
    <3>9. ArrayInUse' /\ LoopBlocks'
      BY <1>0, <2>1, <3>4, <3>5, <3>7, <3>8 DEF LoopInv, ArrayInUse, LoopBlocks
    <3> QED BY <1>0, <3>5, <3>8, <3>9 DEF LoopInv, CrashNeedsFailure
  <2>3. CASE tree[child].type # "element"
    <3>1. UNCHANGED arrayVars
      BY <2>1, <2>3 DEF ExtractXml
    <3>2. /\ P!ArrayInv' /\ P!Unowned' = P!Unowned
          /\ ~ badFree' /\ CrashNeedsFailure'
      BY <2>1, <3>1, LoopRests
    <3>3. UNCHANGED <<array, failures, crashed>>
      BY <3>1 DEF arrayVars, memoryVars
    <3>4. ArrayInUse' /\ LoopBlocks'
      BY <2>1, <3>2, <3>3 DEF LoopInv, ArrayInUse, LoopBlocks
    <3> QED BY <3>2, <3>4 DEF LoopInv
  <2> QED BY <2>2, <2>3
<1>7. CASE Return
  <2>1. UNCHANGED <<arrayVars, step, docBlock, idBlock, replyBlock, device>>
    BY <1>7 DEF Return, loopVars
  <2>2. /\ P!ArrayInv' /\ P!Unowned' = P!Unowned
        /\ ~ badFree' /\ CrashNeedsFailure'
    BY <2>1, LoopRests
  <2>3. ArrayInUse' /\ LoopBlocks'
    BY <2>1, <2>2 DEF LoopInv, ArrayInUse, LoopBlocks, arrayVars, memoryVars
  <2> QED BY <2>2, <2>3 DEF LoopInv
<1>8. CASE CreateReply
  <2> DEFINE n == IF IsData \/ CopiesAddress THEN 2 ELSE 1
  <2>1. PICK p \in A!Allocations(n) :
          /\ A!Take(p)
          /\ idBlock' = p[1]
          /\ replyBlock' = IF IsData THEN p[2] ELSE A!Null
          /\ device' = NewDevice(p[Len(p)])
          /\ crashed' = \/ p[1] = A!Null
                        \/ array.request_type = A!Null
                        \/ \E key \in KeysAsked : A!MeetsNull(key)
                        \/ IsData /\ p[2] = A!Null
                        \/ CopiesAddress /\ AddressFound = A!Null
    BY <1>8 DEF CreateReply
  <2>2. /\ step = "traverse" /\ step' = "write"
        /\ UNCHANGED <<array, refused, offered, badFree, docBlock>>
    BY <1>8 DEF CreateReply
  <2>3. n \in Nat /\ n >= 1 /\ (IsData \/ CopiesAddress => n = 2) /\ n \in {1, 2}
    OBVIOUS
  <2>4. crashed' \in BOOLEAN
    BY <2>1
  <2> HIDE DEF n
  <2>5. /\ P!ArrayInv'
        /\ P!Unowned' = P!Unowned \cup ({p[i] : i \in 1..n} \ {P!Null})
        /\ \A i \in 1..n : p[i] \in P!Unowned' \cup {P!Null} /\ p[i] \notin heap
        /\ \A i, j \in 1..n : p[i] = p[j] /\ p[i] # P!Null => i = j
        /\ failures' \in Nat /\ failures <= failures'
        /\ (\E i \in 1..n : p[i] = P!Null) => failures' > 0
    BY <2>1, <2>2, <2>3, <2>4, LoopTakes
  <2>6. Len(p) = n
    <3>1. p \in P!Allocations(n) /\ top \in Nat
      BY <1>0, <2>1, SameAllocations
    <3> QED BY <2>3, <3>1, ArrayParameters, P!AllocationsReturn
  <2>7. /\ 1 \in 1..n /\ n \in 1..n /\ (IsData \/ CopiesAddress => 2 \in 1..n)
    BY <2>3
  <2>8. CrashNeedsFailure'
    <3>1. ASSUME crashed', failures' = 0 PROVE FALSE
      <4>1. p[1] # A!Null /\ (IsData => p[2] # A!Null)
        BY <2>5, <2>7, <3>1, SamePointers
      <4>2. array.request_type # A!Null
        BY <1>0, <2>2, <2>5, <3>1, SamePointers DEF LoopInv, ArrayInUse
      <4>3. ~ \E key \in KeysAsked : A!MeetsNull(key)
        BY <1>0, <2>5, <3>1, SameMeetsNull, ArrayParameters, P!LookUpCrash
      <4>4. CopiesAddress => AddressFound # A!Null
        BY DEF CopiesAddress
      <4> QED BY <2>1, <3>1, <4>1, <4>2, <4>3, <4>4
    <3> QED BY <2>5, <3>1 DEF CrashNeedsFailure
  <2>9. ArrayInUse'
    BY <1>0, <2>2, <2>5 DEF LoopInv, ArrayInUse
  <2>10. LoopBlocks'
    <3>1. ~ crashed' => p[1] # P!Null
      BY <2>1, SamePointers
    <3>2. device' \in P!Unowned' \cup {P!Null} /\ device' \in {device, p[n]}
      <4>1. device \in P!Unowned \cup {P!Null}
        BY <2>2 DEF LoopInv, LoopBlocks
      <4> QED BY <2>1, <2>5, <2>6, <2>7, <4>1 DEF NewDevice
    <3>3. device' = IF CopiesAddress THEN p[2] ELSE device
      BY <2>1, <2>3, <2>6 DEF NewDevice
    <3>4. docBlock' = docBlock /\ docBlock \in P!Unowned \ {device} /\ docBlock \in heap
      BY <1>0, <2>2 DEF LoopInv, LoopBlocks
    <3>5. docBlock # device' /\ docBlock \in P!Unowned'
      BY <2>5, <2>7, <3>2, <3>4
    <3>6. ~ crashed' => p[1] \in P!Unowned' \ {device', docBlock}
      <4>1. CASE CopiesAddress
        BY <2>5, <2>7, <3>1, <3>3, <3>4, <4>1
      <4>2. CASE ~ CopiesAddress
        <5>1. device \in heap \cup {P!Null}
          BY <1>0, <2>2 DEF LoopInv, LoopBlocks
        <5> QED BY <2>5, <2>7, <3>1, <3>3, <3>4, <4>2, <5>1
      <4> QED BY <4>1, <4>2
    <3>7. replyBlock' \in P!Unowned' \cup {P!Null}
      BY <2>1, <2>5, <2>7, SamePointers
    <3> QED BY <2>1, <2>2, <3>2, <3>4, <3>5, <3>6, <3>7 DEF LoopBlocks
  <2> QED BY <1>0, <2>2, <2>5, <2>8, <2>9, <2>10 DEF LoopInv
<1>9. CASE FreeArray
  <2>1. /\ step = "write" /\ step' = "free" /\ A!FreeArray
        /\ UNCHANGED <<docBlock, idBlock, replyBlock, device, crashed, failures>>
    BY <1>9 DEF FreeArray, A!FreeArray, loopVars
  <2>2. array.live /\ P!FreeArray /\ array.request_type # P!Garbage
    BY <2>1, SameFreeArray DEF LoopInv, ArrayInUse
  <2>3. P!ArrayInv' /\ P!Unowned' = P!Unowned /\ badFree' = badFree
    BY <1>0, <2>2, ArrayParameters, P!FreeArrayStep
  <2>4. ~ array'.live
    BY <2>2 DEF P!FreeArray, P!NoArray
  <2>5. ArrayInUse' /\ LoopBlocks'
    BY <2>1, <2>3, <2>4 DEF LoopInv, ArrayInUse, LoopBlocks
  <2> QED BY <1>0, <2>1, <2>3, <2>5 DEF LoopInv, CrashNeedsFailure
<1>10. CASE Cleanup /\ ~ crashed
  <2>1. /\ step = "free" /\ step' = "read" /\ A!Free(<<docBlock, idBlock>>)
        /\ UNCHANGED <<top, failures, array, refused, offered, crashed>>
        /\ UNCHANGED device
    BY <1>10 DEF Cleanup, loopVars
  <2>2. /\ docBlock \in P!Unowned \ {device}
        /\ idBlock \in P!Unowned \ {device, docBlock}
        /\ device \in P!Unowned \cup {P!Null}
    BY <1>10, <2>1 DEF LoopInv, LoopBlocks
  <2>3. heap' = heap \ {docBlock, idBlock} /\ ~ badFree' /\ badFree' \in BOOLEAN
    <3> DEFINE s == <<docBlock, idBlock>>
    <3>1. Len(s) = 2 /\ s[1] = docBlock /\ s[2] = idBlock /\ 1..2 = {1, 2}
      OBVIOUS
    <3> HIDE DEF s
    <3>2. {s[i] : i \in 1..Len(s)} = {docBlock, idBlock}
      BY <3>1
    <3>3. ~ \E i \in 1..Len(s) :
              /\ s[i] # A!Null
              /\ \/ s[i] \notin heap
                 \/ \E j \in 1..(i - 1) : s[j] = s[i]
      <4>1. ASSUME NEW i \in 1..Len(s)
            PROVE  s[i] \in heap /\ ~ \E j \in 1..(i - 1) : s[j] = s[i]
        <5>1. CASE i = 1
          BY <1>0, <2>2, <3>1, <5>1
        <5>2. CASE i = 2
          <6>1. \A j \in 1..(2 - 1) : j = 1
            OBVIOUS
          <6> QED BY <1>0, <2>2, <3>1, <5>2, <6>1
        <5> QED BY <3>1, <5>1, <5>2
      <4> QED BY <4>1
    <3>4. A!Free(s)
      BY <2>1 DEF s
    <3>5. /\ heap' = heap \ {s[i] : i \in 1..Len(s)}
          /\ badFree' = (badFree \/ \E i \in 1..Len(s) :
                /\ s[i] # A!Null
                /\ \/ s[i] \notin heap
                   \/ \E j \in 1..(i - 1) : s[j] = s[i])
      BY <3>4 DEF A!Free
    <3> QED BY <1>0, <3>2, <3>3, <3>5
  <2>4. badFree' \in BOOLEAN /\ crashed' \in BOOLEAN
    BY <1>0, <2>1, <2>3
  <2>5. P!ArrayInv' /\ P!Unowned' = P!Unowned \ {docBlock, idBlock}
    <3> DEFINE S == {docBlock, idBlock}
    <3>1. S \in SUBSET P!Unowned /\ heap' = heap \ S
      BY <2>2, <2>3
    <3> HIDE DEF S
    <3>2. P!ArrayInv' /\ P!Unowned' = P!Unowned \ S
      BY <1>0, <2>1, <2>4, <3>1, ArrayParameters, P!CallerFrees
    <3> QED BY <3>2 DEF S
  <2>6. ArrayInUse' /\ LoopBlocks'
    BY <2>1, <2>2, <2>5 DEF LoopInv, ArrayInUse, LoopBlocks
  <2> QED BY <1>0, <2>1, <2>3, <2>5, <2>6 DEF LoopInv, CrashNeedsFailure
<1>11. CASE UNCHANGED vars
  <2>1. UNCHANGED <<arrayVars, step, docBlock, idBlock, replyBlock, device>>
    BY <1>11 DEF vars, loopVars
  <2>2. /\ P!ArrayInv' /\ P!Unowned' = P!Unowned
        /\ ~ badFree' /\ CrashNeedsFailure'
    BY <2>1, LoopRests
  <2>3. ArrayInUse' /\ LoopBlocks'
    BY <2>1, <2>2 DEF LoopInv, ArrayInUse, LoopBlocks, arrayVars, memoryVars
  <2> QED BY <2>2, <2>3 DEF LoopInv
<1> QED
  BY <1>1, <1>2, <1>3, <1>4, <1>5, <1>6, <1>7, <1>8, <1>9, <1>10, <1>11 DEF Next

-----------------------------------------------------------------------------
(* The walk over the document.                                             *)

LEMMA TreeFacts ==
  ASSUME NEW t \in Tree
  PROVE  /\ Len(t) \in Nat /\ Len(t) >= 1
         /\ t[1].depth = 1
         /\ \A n \in 1..Len(t) : t[n].depth \in Nat /\ t[n].depth > 0
         /\ \A n \in 2..Len(t) : t[n].depth > 1 /\ t[n].depth <= t[n - 1].depth + 1
<1>1. IsTree(t, Value) /\ t \in Seq(Node(Value)) /\ t # <<>>
  BY MemoryAssumption DEF IsTree
<1>2. Len(t) \in Nat /\ Len(t) >= 1
  BY <1>1, LenProperties, EmptySeq
<1>3. \A n \in 1..Len(t) : t[n].depth \in Nat /\ t[n].depth > 0
  <2>1. \A n \in 1..Len(t) : t[n].depth \in Nat \ {0}
    BY NodeTypes
  <2> QED BY <2>1
<1>4. ASSUME NEW n \in 2..Len(t)
      PROVE  t[n].depth > 1 /\ t[n].depth <= t[n - 1].depth + 1
  <2>1. t[n].depth \in 2..(t[n - 1].depth + 1)
    BY <1>1 DEF IsTree
  <2>2. t[n].depth \in Nat /\ t[n - 1].depth \in Nat
    BY <1>2, <1>3
  <2> QED BY <2>1, <2>2
<1> QED BY <1>1, <1>2, <1>3, <1>4 DEF IsTree

\* The walk starts below the root.
LEMMA WalkStarts ==
  ASSUME NEW t \in Tree
  PROVE  <<Children(t, 1)>> \in Seq(Nat) /\ StackAt(t, <<Children(t, 1)>>, 1)
<1> DEFINE c == Children(t, 1)
<1>1. /\ Len(t) \in Nat /\ Len(t) >= 1 /\ t[1].depth = 1
      /\ 1 < Len(t) => t[2].depth = 2
  <2>1. 1 < Len(t) => 2 \in 2..Len(t) /\ 2 \in 1..Len(t) /\ 2 - 1 = 1
    BY TreeFacts
  <2> QED BY <2>1, TreeFacts
<1>2. \/ c = 2 /\ 1 < Len(t)
      \/ c = NullNode /\ ~ (1 < Len(t))
  BY <1>1 DEF Children
<1>3. c \in Nat
  BY <1>2 DEF NullNode
<1> HIDE DEF c
<1>4. <<c>> \in Seq(Nat) /\ Len(<<c>>) = 1 /\ <<c>>[1] = c
  BY <1>3
<1>5. StackAt(t, <<c>>, 1)
  <2> DEFINE s == <<c>>
  <2>1. Len(s) = 1 /\ s[1] = c
    BY <1>4
  <2> HIDE DEF s
  <2>2. StackAt(t, s, 1)
    BY <1>1, <1>2, <2>1 DEF StackAt
  <2> QED BY <2>2 DEF s
<1> QED BY <1>4, <1>5 DEF c

\* An activation calls the next one at the node's children.
LEMMA WalkDown ==
  ASSUME NEW t \in Tree, NEW s \in Seq(Nat), NEW m \in 1..Len(t),
         StackAt(t, s, m), s # <<>>, s[Len(s)] # NullNode
  PROVE  /\ s[Len(s)] = m + 1 /\ m < Len(t)
         /\ Append(s, Children(t, s[Len(s)])) \in Seq(Nat)
         /\ StackAt(t, Append(s, Children(t, s[Len(s)])), m + 1)
<1> DEFINE k == Len(s)
           c == Children(t, m + 1)
           r == Append(s, c)
<1>1. k \in Nat /\ k > 0
  BY LenProperties, EmptySeq
<1>2. Len(t) \in Nat /\ m \in Nat
  BY TreeFacts
<1>3. s[k] = m + 1 /\ m < Len(t) /\ t[m + 1].depth = k + 1
  BY <1>1 DEF StackAt
<1>4. \A i \in 1..(k - 1) : /\ s[i] \in 2..m
                             /\ t[s[i]].depth = i + 1
                             /\ \A n \in (s[i] + 1)..m : t[n].depth > i + 1
  BY DEF StackAt
<1>5. \/ c = m + 2 /\ m + 1 < Len(t) /\ t[m + 2].depth = k + 2
      \/ c = NullNode /\ (m + 1 < Len(t) => t[m + 2].depth <= k + 1)
  <2>1. ASSUME m + 1 < Len(t)
        PROVE  t[m + 2].depth \in Nat /\ t[m + 2].depth <= k + 2
    <3>1. m + 2 \in 2..Len(t) /\ m + 2 \in 1..Len(t) /\ (m + 2) - 1 = m + 1
      BY <1>2, <2>1
    <3>2. t[m + 2].depth <= t[m + 1].depth + 1 /\ t[m + 2].depth \in Nat
      BY <3>1, TreeFacts
    <3> QED BY <1>1, <1>3, <3>2
  <2>2. (m + 1) + 1 = m + 2 /\ (k + 1) + 1 = k + 2
    BY <1>1, <1>2
  <2>3. c = IF m + 1 < Len(t) /\ t[m + 2].depth = k + 2 THEN m + 2 ELSE NullNode
    BY <1>3, <2>2 DEF Children
  <2>4. m + 1 < Len(t) /\ t[m + 2].depth # k + 2 => t[m + 2].depth <= k + 1
    BY <1>1, <2>1
  <2> HIDE DEF c, k
  <2> QED BY <2>3, <2>4
<1>6. c \in Nat
  BY <1>2, <1>5 DEF NullNode
<1> HIDE DEF c
<1>7. /\ r \in Seq(Nat) /\ Len(r) = k + 1
      /\ \A i \in 1..k : r[i] = s[i]
      /\ r[k + 1] = c
  BY <1>6, AppendProperties
<1> HIDE DEF k, r
<1>8. ASSUME NEW i \in 1..k
      PROVE  /\ r[i] \in 2..(m + 1)
             /\ t[r[i]].depth = i + 1
             /\ \A n \in (r[i] + 1)..(m + 1) : t[n].depth > i + 1
  <2>1. CASE i = k
    BY <1>1, <1>2, <1>3, <1>7, <2>1
  <2>2. CASE i # k
    <3>1. i \in 1..(k - 1) /\ i < k /\ i \in Nat
      BY <1>1, <2>2
    <3>2. r[i] = s[i] /\ s[i] \in 2..m /\ t[s[i]].depth = i + 1
      BY <1>4, <1>7, <3>1
    <3>3. ASSUME NEW n \in (r[i] + 1)..(m + 1)
          PROVE  t[n].depth > i + 1
      <4>1. CASE n = m + 1
        BY <1>1, <1>3, <3>1, <4>1
      <4>2. CASE n # m + 1
        <5>1. n \in (s[i] + 1)..m
          BY <1>2, <3>2, <4>2
        <5> QED BY <1>4, <3>1, <5>1
      <4> QED BY <4>1, <4>2
    <3> QED BY <1>2, <3>2, <3>3
  <2> QED BY <2>1, <2>2
<1>9. StackAt(t, r, m + 1)
  <2>1. (k + 1) - 1 = k /\ (m + 1) + 1 = m + 2 /\ (k + 1) + 1 = k + 2 /\ k + 1 # 0
    BY <1>1, <1>2
  <2> QED BY <1>5, <1>7, <1>8, <2>1 DEF StackAt
<1> QED BY <1>3, <1>7, <1>9 DEF k, c, r

\* An activation returns and its caller steps to the node's next sibling.
LEMMA WalkBack ==
  ASSUME NEW t \in Tree, NEW s \in Seq(Nat), NEW m \in 1..Len(t),
         StackAt(t, s, m), s # <<>>, s[Len(s)] = NullNode
  PROVE  LET r == [i \in 1..(Len(s) - 1) |->
                     IF i < Len(s) - 1 THEN s[i] ELSE NextSibling(t, s[i])]
         IN r \in Seq(Nat) /\ StackAt(t, r, m)
<1> DEFINE k == Len(s)
           r == [i \in 1..(k - 1) |->
                   IF i < k - 1 THEN s[i] ELSE NextSibling(t, s[i])]
<1> SUFFICES r \in Seq(Nat) /\ StackAt(t, r, m)
  OBVIOUS
<1>1. k \in Nat /\ k > 0
  BY LenProperties, EmptySeq
<1>2. Len(t) \in Nat /\ m \in Nat
  BY TreeFacts
<1>3. m < Len(t) => t[m + 1].depth <= k
  BY <1>1, <1>2 DEF StackAt, NullNode
<1>4. \A i \in 1..(k - 1) : /\ s[i] \in 2..m
                             /\ t[s[i]].depth = i + 1
                             /\ \A n \in (s[i] + 1)..m : t[n].depth > i + 1
  BY DEF StackAt
<1>5. CASE k = 1
  <2>1. m = Len(t)
    <3>1. m < Len(t) => m + 1 \in 2..Len(t) /\ m + 1 \in 1..Len(t)
      BY <1>2
    <3>2. m < Len(t) => t[m + 1].depth > 1 /\ t[m + 1].depth \in Nat
      BY <3>1, TreeFacts
    <3> QED BY <1>2, <1>3, <1>5, <3>2
  <2>2. r = <<>>
    BY <1>5
  <2>3. Len(<<>>) = 0 /\ <<>> \in Seq(Nat)
    BY EmptySeq
  <2>4. StackAt(t, <<>>, m)
    BY <2>1, <2>3 DEF StackAt
  <2> QED BY <2>2, <2>3, <2>4
<1>6. CASE k > 1
  <2> DEFINE a == s[k - 1]
             x == NextSibling(t, a)
  <2>1. /\ a \in 2..m /\ t[a].depth = k
        /\ \A n \in (a + 1)..m : t[n].depth > k
    <3>1. k - 1 \in 1..(k - 1) /\ (k - 1) + 1 = k
      BY <1>1, <1>6
    <3> QED BY <1>4, <3>1
  <2>2. \/ x = m + 1 /\ m < Len(t) /\ t[m + 1].depth = k
        \/ x = NullNode /\ (m < Len(t) => t[m + 1].depth <= k - 1)
    <3> DEFINE later == {n \in (a + 1)..Len(t) : t[n].depth <= t[a].depth}
               first == CHOOSE n \in later : \A j \in later : n <= j
    <3>1. x = IF later # {} /\ t[first].depth = t[a].depth THEN first ELSE NullNode
      BY DEF NextSibling
    <3>2. \A n \in later : n >= m + 1 /\ n \in Nat
      <4>1. ASSUME NEW n \in later PROVE n >= m + 1 /\ n \in Nat
        <5>1. n \in (a + 1)..Len(t) /\ t[n].depth <= k
          BY <2>1
        <5>2. t[n].depth \in Nat
          <6>1. n \in 1..Len(t)
            BY <1>2, <2>1, <5>1
          <6> QED BY <6>1, TreeFacts
        <5>3. n \notin (a + 1)..m
          <6>1. ~ (t[n].depth > k)
            BY <1>1, <5>1, <5>2
          <6> QED BY <2>1, <6>1
        <5> QED BY <1>2, <2>1, <5>1, <5>3
      <4> QED BY <4>1
    <3>3. CASE m < Len(t)
      <4>1. t[m + 1].depth \in Nat /\ t[m + 1].depth <= k
        <5>1. m + 1 \in 1..Len(t)
          BY <1>2, <3>3
        <5> QED BY <1>3, <3>3, <5>1, TreeFacts
      <4>2. m + 1 \in later
        BY <1>2, <2>1, <3>3, <4>1
      <4> HIDE DEF later
      <4>3. \A n \in later : (\A j \in later : n <= j) => n = m + 1
        BY <1>2, <3>2, <4>2
      <4>4. \A j \in later : m + 1 <= j
        BY <1>2, <3>2
      <4>5. first = m + 1
        BY <4>2, <4>3, <4>4
      <4> HIDE DEF first, x
      <4>6. x = IF t[m + 1].depth = k THEN m + 1 ELSE NullNode
        BY <2>1, <3>1, <4>2, <4>5
      <4>7. t[m + 1].depth # k => t[m + 1].depth <= k - 1
        BY <1>1, <4>1
      <4> HIDE DEF k
      <4> QED BY <3>3, <4>6, <4>7
    <3>4. CASE ~ (m < Len(t))
      <4>1. later = {}
        <5>1. \A n \in later : n <= Len(t)
          BY <1>2, <2>1
        <5> HIDE DEF later
        <5> QED BY <1>2, <3>2, <3>4, <5>1
      <4> HIDE DEF later, first, x
      <4> QED BY <3>1, <3>4, <4>1
    <3> QED BY <3>3, <3>4
  <2>3. x \in Nat
    BY <1>2, <2>2 DEF NullNode
  <2> HIDE DEF x
  <2>4. /\ \A i \in 1..(k - 2) : r[i] = s[i]
        /\ r[k - 1] = x
    BY <1>1, <1>6 DEF x
  <2>5. r \in Seq(Nat) /\ Len(r) = k - 1
    <3>1. \A i \in 1..(k - 1) : s[i] \in Nat
      BY <1>2, <1>4
    <3>2. \A i \in 1..(k - 1) : ~ (i < k - 1) => i = k - 1
      BY <1>1
    <3>3. r \in [1..(k - 1) -> Nat]
      BY <2>3, <3>1, <3>2 DEF x
    <3>4. k - 1 \in Nat
      BY <1>1
    <3> HIDE DEF r, k
    <3>5. r \in Seq(Nat)
      BY <3>3, <3>4, SeqDef
    <3> QED BY <3>3, <3>4, <3>5, LenProperties
  <2> HIDE DEF r, k, a
  <2>6. \A i \in 1..((k - 1) - 1) : i \in 1..(k - 1) /\ i \in 1..(k - 2)
    BY <1>1
  <2>7. (k - 1) + 1 = k /\ k - 1 > 0
    BY <1>1, <1>6
  <2>8. \A i \in 1..((k - 1) - 1) : /\ r[i] \in 2..m
                                   /\ t[r[i]].depth = i + 1
                                   /\ \A n \in (r[i] + 1)..m : t[n].depth > i + 1
    BY <1>4, <2>4, <2>6
  <2>9. StackAt(t, r, m)
    BY <2>2, <2>4, <2>5, <2>7, <2>8 DEF StackAt
  <2> QED BY <2>5, <2>9
<1> HIDE DEF k, r
<1>7. k = 1 \/ k > 1
  BY <1>1
<1> QED BY <1>5, <1>6, <1>7

-----------------------------------------------------------------------------
(* The pairs offered.                                                      *)

\* Every element is one more than those before it.
LEMMA CountElements ==
  ASSUME NEW t, NEW m \in Nat, m > 0
  PROVE  /\ IsFiniteSet(ElementsUpTo(t, m))
         /\ Cardinality(ElementsUpTo(t, m)) \in Nat
         /\ t[m + 1].type = "element" =>
              /\ ElementsUpTo(t, m + 1) = ElementsUpTo(t, m) \cup {m + 1}
              /\ Cardinality(ElementsUpTo(t, m + 1))
                   = Cardinality(ElementsUpTo(t, m)) + 1
         /\ t[m + 1].type # "element" =>
              ElementsUpTo(t, m + 1) = ElementsUpTo(t, m)
<1>1. IsFiniteSet(ElementsUpTo(t, m))
  <2>1. IsFiniteSet(2..m)
    BY FS_Interval
  <2> QED BY <2>1, FS_Subset DEF ElementsUpTo
<1>2. Cardinality(ElementsUpTo(t, m)) \in Nat
  BY <1>1, FS_CardinalityType
<1>3. 2..(m + 1) = (2..m) \cup {m + 1} /\ m + 1 \notin 2..m
  OBVIOUS
<1>4. m + 1 \notin ElementsUpTo(t, m)
  BY <1>3 DEF ElementsUpTo
<1>5. ASSUME t[m + 1].type = "element"
      PROVE  /\ ElementsUpTo(t, m + 1) = ElementsUpTo(t, m) \cup {m + 1}
             /\ Cardinality(ElementsUpTo(t, m + 1))
                  = Cardinality(ElementsUpTo(t, m)) + 1
  <2>1. ElementsUpTo(t, m + 1) = ElementsUpTo(t, m) \cup {m + 1}
    BY <1>3, <1>5 DEF ElementsUpTo
  <2> QED BY <1>1, <1>4, <2>1, FS_AddElement
<1>6. t[m + 1].type # "element" => ElementsUpTo(t, m + 1) = ElementsUpTo(t, m)
  BY <1>3 DEF ElementsUpTo
<1> QED BY <1>1, <1>2, <1>5, <1>6

\* No two elements have as many before them.
LEMMA ElementsNumbered ==
  ASSUME NEW t, NEW m \in Nat,
         NEW i \in ElementsUpTo(t, m), NEW j \in ElementsUpTo(t, m),
         Cardinality(ElementsUpTo(t, i)) = Cardinality(ElementsUpTo(t, j))
  PROVE  i = j
<1>1. ASSUME NEW a \in ElementsUpTo(t, m), NEW b \in ElementsUpTo(t, m), a < b
      PROVE  Cardinality(ElementsUpTo(t, a)) # Cardinality(ElementsUpTo(t, b))
  <2>1. a \in Nat /\ b \in Nat /\ a > 0 /\ b > 0 /\ a >= 2 /\ b >= 2
    BY DEF ElementsUpTo
  <2>2. ElementsUpTo(t, a) \subseteq ElementsUpTo(t, b)
    BY <1>1, <2>1 DEF ElementsUpTo
  <2>3. b \in ElementsUpTo(t, b) /\ b \notin ElementsUpTo(t, a)
    BY <1>1, <2>1 DEF ElementsUpTo
  <2>4. IsFiniteSet(ElementsUpTo(t, b))
    BY <2>1, CountElements
  <2> QED BY <2>2, <2>3, <2>4, FS_Subset
<1>2. i \in Nat /\ j \in Nat
  BY DEF ElementsUpTo
<1> QED BY <1>1, <1>2

LEMMA NothingOffered ==
  ASSUME NEW t
  PROVE  OfferedUpTo(t, <<>>, 1)
<1>1. ElementsUpTo(t, 1) = {}
  BY DEF ElementsUpTo
<1>2. Cardinality({}) = 0 /\ Len(<<>>) = 0
  BY FS_EmptySet, EmptySeq
<1> QED BY <1>1, <1>2 DEF OfferedUpTo

\* extract_xml offers the next node if it is an element.
LEMMA OfferNext ==
  ASSUME NEW t, NEW S, NEW pairs \in Seq(S), NEW m \in Nat, m > 0,
         OfferedUpTo(t, pairs, m), t[m + 1].type = "element", PairAt(t, m + 1) \in S
  PROVE  OfferedUpTo(t, Append(pairs, PairAt(t, m + 1)), m + 1)
<1> DEFINE n == Len(pairs)
           r == Append(pairs, PairAt(t, m + 1))
<1>1. n \in Nat
  BY LenProperties
<1>2. /\ Len(r) = n + 1 /\ r[n + 1] = PairAt(t, m + 1)
      /\ \A i \in 1..n : r[i] = pairs[i]
  BY AppendProperties
<1>3. /\ ElementsUpTo(t, m + 1) = ElementsUpTo(t, m) \cup {m + 1}
      /\ Cardinality(ElementsUpTo(t, m + 1)) = Cardinality(ElementsUpTo(t, m)) + 1
  BY CountElements
<1>4. /\ n = Cardinality(ElementsUpTo(t, m))
      /\ \A i \in 1..n : \E e \in ElementsUpTo(t, m) :
           /\ Cardinality(ElementsUpTo(t, e)) = i
           /\ pairs[i] = PairAt(t, e)
  BY DEF OfferedUpTo
<1> HIDE DEF n, r
<1>5. ASSUME NEW i \in 1..(n + 1)
      PROVE  \E e \in ElementsUpTo(t, m + 1) :
               Cardinality(ElementsUpTo(t, e)) = i /\ r[i] = PairAt(t, e)
  <2>1. CASE i = n + 1
    BY <1>2, <1>3, <1>4, <2>1
  <2>2. CASE i # n + 1
    <3>1. i \in 1..n
      BY <1>1, <2>2
    <3> QED BY <1>2, <1>3, <1>4, <3>1
  <2> QED BY <2>1, <2>2
<1>6. OfferedUpTo(t, r, m + 1)
  BY <1>2, <1>3, <1>4, <1>5 DEF OfferedUpTo
<1> QED BY <1>6 DEF r

LEMMA OfferNothing ==
  ASSUME NEW t, NEW pairs, NEW m \in Nat, m > 0,
         OfferedUpTo(t, pairs, m), t[m + 1].type # "element"
  PROVE  OfferedUpTo(t, pairs, m + 1)
<1>1. ElementsUpTo(t, m + 1) = ElementsUpTo(t, m)
  BY CountElements
<1> QED BY <1>1 DEF OfferedUpTo

\* After the last node the pairs offered are the elements of the request.
LEMMA AllOffered ==
  ASSUME NEW t \in Tree, NEW pairs, OfferedUpTo(t, pairs, Len(t))
  PROVE  LET elems == DocumentOf(t, NoText).elems IN
         /\ DOMAIN elems = 1..Len(pairs)
         /\ \A i \in 1..Len(pairs) :
              elems[i] = [key |-> pairs[i].name, value |-> pairs[i].text]
<1> DEFINE all == ElementsUpTo(t, Len(t))
           elems == DocumentOf(t, NoText).elems
<1>1. Len(t) \in Nat
  BY TreeFacts
<1>2. /\ Len(pairs) = Cardinality(all)
      /\ \A i \in 1..Len(pairs) : \E n \in all :
           /\ Cardinality(ElementsUpTo(t, n)) = i
           /\ pairs[i] = PairAt(t, n)
  BY DEF OfferedUpTo
<1>3. Elements(t) = [i \in 1..Len(pairs) |->
                       CHOOSE n \in all : Cardinality(ElementsUpTo(t, n)) = i]
  BY <1>2 DEF Elements
<1>4. elems = [i \in 1..Len(pairs) |->
                 [key |-> t[Elements(t)[i]].name,
                  value |-> ElementText(t, Elements(t)[i], NoText)]]
  BY <1>3 DEF DocumentOf
<1> HIDE DEF elems
<1>5. ASSUME NEW i \in 1..Len(pairs)
      PROVE  elems[i] = [key |-> pairs[i].name, value |-> pairs[i].text]
  <2>1. PICK n \in all : /\ Cardinality(ElementsUpTo(t, n)) = i
                         /\ pairs[i] = PairAt(t, n)
    BY <1>2
  <2>2. \A k \in all : Cardinality(ElementsUpTo(t, k)) = i => k = n
    BY <1>1, <2>1, ElementsNumbered
  <2> HIDE DEF all
  <2>3. Elements(t)[i] = n
    <3>1. Elements(t)[i] = CHOOSE k \in all : Cardinality(ElementsUpTo(t, k)) = i
      BY <1>3
    <3> QED BY <2>1, <2>2, <3>1
  <2> QED BY <1>4, <2>1, <2>3 DEF PairAt
<1> QED BY <1>4, <1>5 DEF elems

-----------------------------------------------------------------------------
(* The array holds the request.                                            *)

LEMMA TraversalInit == Init => Traversal
BY DEF Init, Traversal

LEMMA TraversalStep ==
  ASSUME LoopInv, Traversal, [Next]_vars
  PROVE  Traversal'
<1>1. CASE InitAbcc
  BY <1>1 DEF InitAbcc, Traversal
<1>2. CASE SessionEnds
  BY <1>2 DEF SessionEnds, Traversal
<1>3. CASE \E t \in Tree : ParseXml(t)
  <2>1. step' = "init" /\ tree' \in Tree
    BY <1>3 DEF ParseXml
  <2> QED BY <2>1 DEF Traversal
<1>4. CASE InitArray
  <2>1. /\ step = "init" /\ step' = "type" /\ tree' = tree
        /\ P!InitArray(MaxCapacity)
    BY <1>4, SameInitArray DEF InitArray, loopVars
  <2>2. P!Granted(MaxCapacity) = MaxCapacity
    BY BoundTypes, MemoryAssumption DEF P!Granted
  <2>3. array'.capacity = MaxCapacity /\ offered' = <<>>
    BY <2>1, <2>2 DEF P!InitArray, P!NoArray
  <2> QED BY <2>1, <2>3 DEF Traversal
<1>5. CASE SetRequestType
  <2>1. /\ step = "type" /\ step' = "traverse" /\ tree' = tree
        /\ P!SetRequestType /\ stack' = <<Children(tree, 1)>>
    BY <1>5, SameSetRequestType DEF SetRequestType, loopVars
  <2>2. array'.capacity = array.capacity /\ offered' = offered
    BY <2>1 DEF P!SetRequestType, LoopInv, P!ArrayInv, P!ArrayTypeOK
  <2>3. tree \in Tree /\ array.capacity = MaxCapacity /\ offered = <<>>
    BY <2>1 DEF Traversal
  <2>4. /\ stack' \in Seq(Nat) /\ StackAt(tree, stack', 1)
        /\ OfferedUpTo(tree, offered', 1)
    BY <2>1, <2>2, <2>3, WalkStarts, NothingOffered
  <2>5. 1 \in 1..Len(tree)
    BY <2>3, TreeFacts
  <2> QED BY <2>1, <2>2, <2>3, <2>4, <2>5 DEF Traversal
<1>6. CASE TraverseXml
  <2>1. /\ step = "traverse" /\ step' = "traverse" /\ tree' = tree
        /\ stack # <<>> /\ child # NullNode
        /\ ExtractXml(child)
        /\ stack' = Append(stack, Children(tree, child))
    BY <1>6 DEF TraverseXml, loopVars
  <2>2. tree \in Tree /\ stack \in Seq(Nat) /\ array.capacity = MaxCapacity
    BY <2>1 DEF Traversal
  <2>3. PICK m \in 1..Len(tree) : /\ StackAt(tree, stack, m)
                                  /\ OfferedUpTo(tree, offered, m)
    BY <2>1 DEF Traversal
  <2>4. /\ child = m + 1 /\ m < Len(tree)
        /\ stack' \in Seq(Nat) /\ StackAt(tree, stack', m + 1)
    BY <2>1, <2>2, <2>3, WalkDown DEF child
  <2>5. Len(tree) \in Nat /\ m \in Nat /\ m > 0 /\ m + 1 \in 1..Len(tree)
    BY <2>2, <2>4, TreeFacts
  <2>6. OfferedUpTo(tree, offered', m + 1) /\ array'.capacity = array.capacity
    <3>1. CASE tree[m + 1].type = "element"
      <4>1. P!AddPair(tree[m + 1].name, ElementText(tree, m + 1, NoText))
        BY <2>1, <2>4, <3>1, SameAddPair DEF ExtractXml
      <4>2. offered' = Append(offered, PairAt(tree, m + 1))
        BY <4>1 DEF P!AddPair, PairAt
      <4>3. array'.capacity = array.capacity
        BY <4>1 DEF P!AddPair, LoopInv, P!ArrayInv, P!ArrayTypeOK
      <4>4. /\ offered \in Seq([name : STRING, text : Value])
            /\ PairAt(tree, m + 1) \in [name : STRING, text : Value]
        BY <2>2, <2>5, NodeTypes DEF LoopInv, P!ArrayInv, P!ArrayTypeOK, PairAt
      <4> QED BY <2>3, <2>5, <3>1, <4>2, <4>3, <4>4, OfferNext
    <3>2. CASE tree[m + 1].type # "element"
      <4>1. UNCHANGED <<array, offered>>
        BY <2>1, <2>4, <3>2 DEF ExtractXml, arrayVars
      <4> QED BY <2>3, <2>5, <3>2, <4>1, OfferNothing
    <3> QED BY <3>1, <3>2
  <2> QED BY <2>1, <2>2, <2>4, <2>5, <2>6 DEF Traversal
<1>7. CASE Return
  <2>1. /\ step = "traverse" /\ step' = step /\ tree' = tree
        /\ stack # <<>> /\ child = NullNode
        /\ UNCHANGED <<array, offered>>
        /\ stack' = [i \in 1..(Len(stack) - 1) |->
                       IF i < Len(stack) - 1 THEN stack[i]
                       ELSE NextSibling(tree, stack[i])]
    BY <1>7 DEF Return, loopVars, arrayVars
  <2>2. tree \in Tree /\ stack \in Seq(Nat) /\ array.capacity = MaxCapacity
    BY <2>1 DEF Traversal
  <2>3. PICK m \in 1..Len(tree) : /\ StackAt(tree, stack, m)
                                  /\ OfferedUpTo(tree, offered, m)
    BY <2>1 DEF Traversal
  <2>4. stack' \in Seq(Nat) /\ StackAt(tree, stack', m)
    BY <2>1, <2>2, <2>3, WalkBack DEF child
  <2> QED BY <2>1, <2>2, <2>3, <2>4 DEF Traversal
<1>8. CASE CreateReply
  <2>1. /\ step = "traverse" /\ step' = "write" /\ stack = <<>>
        /\ UNCHANGED <<array, offered, tree>>
    BY <1>8 DEF CreateReply
  <2>2. PICK m \in 1..Len(tree) : /\ StackAt(tree, stack, m)
                                  /\ OfferedUpTo(tree, offered, m)
    BY <2>1 DEF Traversal
  <2>3. m = Len(tree)
    BY <2>1, <2>2, EmptySeq DEF StackAt
  <2> QED BY <2>1, <2>2, <2>3 DEF Traversal
<1>9. CASE FreeArray
  <2>1. step = "write" /\ step' = "free" /\ tree' = tree
    BY <1>9 DEF FreeArray, loopVars
  <2> QED BY <2>1 DEF Traversal
<1>10. CASE Cleanup
  <2>1. step' = "read"
    BY <1>10 DEF Cleanup
  <2> QED BY <2>1 DEF Traversal
<1>11. CASE UNCHANGED vars
  <2>1. UNCHANGED <<step, tree, array, offered, stack>>
    BY <1>11 DEF vars, arrayVars, loopVars
  <2> QED BY <2>1 DEF Traversal
<1> QED
  BY <1>1, <1>2, <1>3, <1>4, <1>5, <1>6, <1>7, <1>8, <1>9, <1>10, <1>11 DEF Next

\* At the end of the walk the array is the server's.
LEMMA WalkedArray ==
  ASSUME LoopInv, tree \in Tree, array.live, array.capacity = MaxCapacity,
         OfferedUpTo(tree, offered, Len(tree))
  PROVE  /\ Filled = ProcessXml(request)
         /\ Len(request.elems) = Len(offered)
         /\ Len(ProcessXml(request).data) = array.size
<1> DEFINE elems == request.elems
           size == array.size
<1>1. /\ offered \in Seq([name : STRING, text : Value])
      /\ size \in Nat /\ size = Len(array.pairs)
      /\ size = IF Len(offered) <= MaxCapacity THEN Len(offered) ELSE MaxCapacity
      /\ \A i \in 1..size : /\ array.pairs[i].name = offered[i].name
                            /\ array.pairs[i].text = offered[i].text
  BY DEF LoopInv, P!ArrayInv, P!ArrayTypeOK, P!HoldsFirstOffered
<1>2. request \in Doc
  BY MemoryAssumption DEF request
<1>3. elems \in Seq(Pair) /\ Len(elems) \in Nat /\ DOMAIN elems = 1..Len(elems)
  BY <1>2, DocType, LenProperties
<1>4. Len(offered) \in Nat /\ MaxCapacity \in Nat
  BY <1>1, LenProperties, BoundTypes
<1>5. /\ DOMAIN elems = 1..Len(offered)
      /\ \A i \in 1..Len(offered) :
           elems[i] = [key |-> offered[i].name, value |-> offered[i].text]
  BY AllOffered DEF request
<1> HIDE DEF elems, size
<1>6. Len(elems) = Len(offered)
  BY <1>3, <1>4, <1>5
<1>7. size <= Len(elems) /\ 1 \in Nat \ {0}
  BY <1>1, <1>4, <1>6
<1>8. /\ SubSeq(elems, 1, size) \in Seq(Pair)
      /\ Len(SubSeq(elems, 1, size)) = IF 1 <= size THEN size - 1 + 1 ELSE 0
      /\ \A i \in 1..(size - 1 + 1) : SubSeq(elems, 1, size)[i] = elems[1 + i - 1]
  BY <1>1, <1>3, <1>7, SubSeqType
<1> DEFINE front == SubSeq(elems, 1, size)
<1>9. /\ Len(front) = size
      /\ \A i \in 1..size : front[i] = elems[i]
  <2>1. size - 1 + 1 = size /\ (~ (1 <= size) => size = 0)
    BY <1>1
  <2>2. \A i \in 1..size : 1 + i - 1 = i
    OBVIOUS
  <2> HIDE DEF front
  <2> QED BY <1>8, <2>1, <2>2 DEF front
<1>10. front = [i \in 1..size |-> [key |-> array.pairs[i].name,
                                   value |-> array.pairs[i].text]]
  <2>1. \A i \in 1..size : i \in 1..Len(offered)
    <3>1. size \in Nat /\ Len(offered) \in Nat /\ size <= Len(offered)
      BY <1>1, <1>4, <1>6, <1>7
    <3> HIDE DEF front
    <3> QED BY <3>1
  <2>2. \A i \in 1..size : front[i] = [key |-> array.pairs[i].name,
                                       value |-> array.pairs[i].text]
    BY <1>1, <1>5, <1>9, <2>1
  <2>3. front \in [1..size -> Pair]
    BY <1>8, <1>9, LenProperties
  <2> HIDE DEF front
  <2> QED BY <2>2, <2>3
<1>11. ProcessXml(request) = [request_type |-> request.root, data |-> front]
  <2>1. size = IF Len(elems) <= MaxCapacity THEN Len(elems) ELSE MaxCapacity
    BY <1>1, <1>6
  <2> QED BY <2>1 DEF ProcessXml, elems
<1>12. Filled = [request_type |-> request.root, data |-> front]
  BY <1>10 DEF Filled, size
<1>13. ProcessXml(request).data = front /\ Len(front) = array.size
  <2> HIDE DEF front
  <2> QED BY <1>9, <1>11 DEF size
<1>14. Len(request.elems) = Len(offered)
  BY <1>6 DEF elems
<1> HIDE DEF front
<1> QED BY <1>11, <1>12, <1>13, <1>14

-----------------------------------------------------------------------------
(* Pointers, and what the array holds.                                     *)

\* At every statement of the loop its blocks have one owner and the stack of
\* traverse_xml says which elements have been offered to the array
\* (network.c:207-281, parse.c:151-170).
THEOREM LoopCorrect == Spec => [](LoopInv /\ Traversal)
<1>1. Init => LoopInv /\ Traversal
  BY LoopInit, TraversalInit
<1>2. LoopInv /\ Traversal /\ [Next]_vars => LoopInv' /\ Traversal'
  BY LoopStep, TraversalStep
<1> QED BY <1>1, <1>2, PTL DEF Spec

\* No pointer the loop still follows points to a freed block, and nothing is
\* freed twice, whatever allocation fails (network.c:207-281).
THEOREM NoDanglingPointerCorrect == Spec => []NoDanglingPointer
<1>1. LoopInv => NoDanglingPointer
  <2> SUFFICES ASSUME LoopInv PROVE NoDanglingPointer
    OBVIOUS
  <2>1. P!Owned \subseteq heap /\ P!Unowned \subseteq heap
    BY DEF LoopInv, P!ArrayInv, P!BlocksHeld, P!Unowned
  <2> QED BY <2>1, SameOwned, SamePointers DEF LoopInv, LoopBlocks, NoDanglingPointer
<1> QED BY <1>1, LoopCorrect, PTL

\* When the reply has been created the array is what process_xml makes of the
\* document, whatever its shape: every element once, in document order, up to
\* the capacity (parse.c:39-53, 151-170).
THEOREM ArrayHoldsRequestCorrect == Spec => []ArrayHoldsRequest
<1>1. LoopInv /\ Traversal => ArrayHoldsRequest
  <2> SUFFICES ASSUME LoopInv, Traversal, step = "write"
               PROVE  Filled = ProcessXml(request)
    BY DEF ArrayHoldsRequest
  <2>1. tree \in Tree /\ array.live /\ array.capacity = MaxCapacity
        /\ OfferedUpTo(tree, offered, Len(tree))
    BY DEF LoopInv, ArrayInUse, Traversal
  <2> QED BY <2>1, WalkedArray
<1> QED BY <1>1, LoopCorrect, PTL

\* No request makes the loop use a NULL pointer unless an allocation failed
\* (parse.c:79-81, 159; abcc.c:14).
THEOREM CrashNeedsFailureCorrect == Spec => []CrashNeedsFailure
<1>1. LoopInv => CrashNeedsFailure
  BY DEF LoopInv
<1> QED BY <1>1, LoopCorrect, PTL

-----------------------------------------------------------------------------
(* What a request leaves behind.                                           *)

\* Blocks of this request that nobody is going to free.
Left == ((refused \cup P!Unowned) \ base) \ {docBlock, idBlock}

\* What was there before is neither the array's nor the request's own; the
\* pairs refused since are counted by the pairs offered, and what is left at
\* the end by the request.
Accounted ==
  /\ step \in {"init", "type", "traverse", "write", "free"} =>
       base \subseteq (refused \cup P!Unowned) \ {docBlock}
  /\ step \in {"init", "type", "traverse"} =>
       P!Unowned \subseteq base \cup {docBlock}
  /\ step \in {"init", "type"} => refused \subseteq base
  /\ step = "traverse" =>
       LET extra == Len(offered) - array.size IN
       /\ IsFiniteSet(refused \ base)
       /\ Cardinality(refused \ base) <= 2 * extra
       /\ failures = 0 => Cardinality(refused \ base) = 2 * extra
  /\ step \in {"write", "free"} /\ ~ crashed =>
       /\ idBlock \notin base
       /\ Cardinality(Left) <= Footprint(request)
       /\ failures = 0 => Cardinality(Left) = Footprint(request)

\* One more block, or two.
LEMMA OneMore ==
  ASSUME NEW S, IsFiniteSet(S), NEW q, q = 0 \/ q \notin S
  PROVE  LET T == S \cup ({q} \ {0}) IN
         /\ IsFiniteSet(T) /\ Cardinality(S) \in Nat
         /\ Cardinality(T) = Cardinality(S) + IF q = 0 THEN 0 ELSE 1
<1>0. Cardinality(S) \in Nat
  BY FS_CardinalityType
<1>1. CASE q = 0
  <2>1. S \cup ({q} \ {0}) = S
    BY <1>1
  <2> QED BY <1>0, <1>1, <2>1
<1>2. CASE q # 0
  <2>1. S \cup ({q} \ {0}) = S \cup {q}
    BY <1>2
  <2>2. IsFiniteSet(S \cup {q}) /\ Cardinality(S \cup {q}) = Cardinality(S) + 1
    BY <1>2, FS_AddElement
  <2> QED BY <1>0, <1>2, <2>1, <2>2
<1> QED BY <1>1, <1>2

LEMMA TwoMore ==
  ASSUME NEW S, IsFiniteSet(S), NEW p, NEW q,
         p = 0 \/ p \notin S, q = 0 \/ q \notin S, p = q => p = 0
  PROVE  LET T == S \cup ({p, q} \ {0}) IN
         /\ IsFiniteSet(T) /\ Cardinality(S) \in Nat
         /\ Cardinality(T) <= Cardinality(S) + 2
         /\ p # 0 /\ q # 0 => Cardinality(T) = Cardinality(S) + 2
<1> DEFINE R == S \cup ({p} \ {0})
           T == R \cup ({q} \ {0})
<1>1. /\ IsFiniteSet(R) /\ Cardinality(S) \in Nat
      /\ Cardinality(R) = Cardinality(S) + IF p = 0 THEN 0 ELSE 1
  BY OneMore
<1>2. q = 0 \/ q \notin R
  OBVIOUS
<1>3. S \cup ({p, q} \ {0}) = T
  OBVIOUS
<1> HIDE DEF R
<1>4. /\ IsFiniteSet(T)
      /\ Cardinality(T) = Cardinality(R) + IF q = 0 THEN 0 ELSE 1
  BY <1>1, <1>2, OneMore
<1> HIDE DEF T
<1> QED BY <1>1, <1>3, <1>4

\* The requests that are answered by "ok".
LEMMA OkMeans ==
  ASSUME NEW arr, NEW ip, NEW id
  PROVE  CreateXmlReply(arr, ip, id).kind = "ok"
           <=> /\ arr.request_type = "rpc"
               /\ ~ HasKey(arr, "get") /\ ~ HasKey(arr, "get-schema")
               /\ HasKey(arr, "edit-config") /\ HasKey(arr, "running")
<1>1. /\ HelloReply.kind # "ok" /\ SchemaReply.kind # "ok" /\ ModulesReply.kind # "ok"
      /\ SchemasReply.kind # "ok" /\ EmptyReply.kind # "ok" /\ OkReply.kind = "ok"
      /\ DataReply(ip, id).kind # "ok"
  BY DEF HelloReply, SchemaReply, ModulesReply, SchemasReply, EmptyReply, OkReply,
         DataReply, Fixed
<1> HIDE DEF HelloReply, SchemaReply, ModulesReply, SchemasReply, EmptyReply,
             OkReply, DataReply, HasKey
<1>2. CASE arr.request_type = "hello"
  BY <1>1, <1>2 DEF CreateXmlReply
<1>3. CASE arr.request_type = "rpc"
  BY <1>1, <1>3 DEF CreateXmlReply
<1>4. CASE arr.request_type \notin {"hello", "rpc"}
  BY <1>1, <1>4 DEF CreateXmlReply
<1> QED BY <1>2, <1>3, <1>4

\* The loop copies an address only for a request that sets one, and does so
\* if the array got its blocks.
LEMMA CopiesMeans ==
  ASSUME LoopInv
  PROVE  /\ CopiesAddress => SetsAddress(Filled)
         /\ SetsAddress(Filled) => ~ IsData
         /\ SetsAddress(Filled) /\ failures = 0 => CopiesAddress
<1> DEFINE named == A!PairsNamed("IP_ADDRESS")
           hits == Hits(Filled, "IP_ADDRESS")
<1>1. /\ array.size \in Nat /\ failures \in Nat
      /\ (\E i \in 1..array.size : P!Null \in {array.pairs[i].key, array.pairs[i].value})
            => failures > 0
  BY DEF LoopInv, P!ArrayInv, P!ArrayTypeOK, P!NullNeedsFailure
<1>2. hits = {i \in 1..array.size : array.pairs[i].name = "IP_ADDRESS"}
  <2> DEFINE data == [i \in 1..array.size |-> [key |-> array.pairs[i].name,
                                               value |-> array.pairs[i].text]]
  <2>1. Filled.data = data
    BY DEF Filled
  <2>2. Len(data) = array.size
    BY <1>1
  <2>3. \A i \in 1..array.size : data[i].key = array.pairs[i].name
    OBVIOUS
  <2> HIDE DEF data
  <2> QED BY <2>1, <2>2, <2>3 DEF Hits
<1>3. named = {i \in hits : array.pairs[i].key # P!Null}
  BY <1>2, SamePointers DEF A!PairsNamed
<1> HIDE DEF named, hits
<1>4. IsOk /\ hits # {} <=> SetsAddress(Filled)
  BY OkMeans DEF IsOk, SetsAddress, HasKey, hits
<1>5. SetsAddress(Filled) => ~ IsData
  <2>1. IsOk => ~ IsData
    BY DEF IsOk, IsData
  <2> QED BY <1>4, <2>1
<1>6. CopiesAddress => SetsAddress(Filled)
  <2>1. CopiesAddress => IsOk /\ A!GetKey("IP_ADDRESS")
    BY DEF CopiesAddress, AddressFound
  <2>2. A!GetKey("IP_ADDRESS") => hits # {}
    BY <1>3 DEF A!GetKey, named
  <2> QED BY <1>4, <2>1, <2>2
<1>7. ASSUME SetsAddress(Filled), failures = 0
      PROVE  CopiesAddress
  <2>1. IsOk /\ hits # {}
    BY <1>4, <1>7
  <2>2. named = hits
    BY <1>1, <1>2, <1>3, <1>7
  <2>3. named # {} /\ named \subseteq 1..array.size /\ named \subseteq Nat
    BY <1>1, <1>2, <2>1, <2>2
  <2>4. PICK least \in named : \A j \in named : least <= j
    BY <2>3, SmallestExists
  <2>5. \E i \in named : A!GetValue("IP_ADDRESS") = array.pairs[i]
    BY <2>4 DEF A!GetValue, named
  <2>6. A!GetValue("IP_ADDRESS").value # A!Null
    BY <1>1, <1>7, <2>3, <2>5, SamePointers
  <2>7. A!GetKey("IP_ADDRESS")
    BY <2>3 DEF A!GetKey, named
  <2> QED BY <2>1, <2>6, <2>7 DEF CopiesAddress, AddressFound
<1> QED BY <1>5, <1>6, <1>7

\* The sizes Footprint adds up.
LEMMA FootprintIs ==
  ASSUME LoopInv, tree \in Tree, array.live, array.capacity = MaxCapacity,
         OfferedUpTo(tree, offered, Len(tree))
  PROVE  /\ Len(offered) \in Nat /\ array.size \in Nat /\ array.size <= Len(offered)
         /\ Footprint(request) = 2 * (Len(offered) - array.size)
                                   + (IF IsData THEN 1 ELSE 0)
                                   + (IF SetsAddress(Filled) THEN 1 ELSE 0)
<1>1. /\ Filled = ProcessXml(request)
      /\ Len(request.elems) = Len(offered)
      /\ Len(ProcessXml(request).data) = array.size
  BY WalkedArray
<1>2. /\ Len(offered) \in Nat /\ array.size \in Nat /\ array.capacity \in Nat
      /\ array.size = IF Len(offered) <= array.capacity THEN Len(offered)
                      ELSE array.capacity
  BY LenProperties DEF LoopInv, P!ArrayInv, P!ArrayTypeOK, P!HoldsFirstOffered
<1>3. IsData <=> CreateXmlReply(ProcessXml(request), "", 0).kind = "data"
  BY <1>1 DEF IsData
<1>4. Footprint(request) = 2 * (Len(offered) - array.size)
                             + (IF IsData THEN 1 ELSE 0)
                             + (IF SetsAddress(Filled) THEN 1 ELSE 0)
  BY <1>1, <1>3 DEF Footprint
<1> QED BY <1>2, <1>4

\* What the loop has while it has no array.
LEMMA HeapWithoutArray ==
  ASSUME LoopInv, ~ array.live
  PROVE  heap = refused \cup P!Unowned
BY DEF LoopInv, P!ArrayInv, P!BlocksHeld, P!Unowned, P!Owned

LEMMA AccountedInit == Init => Accounted /\ LeakPerRequest
BY DEF Init, Accounted, LeakPerRequest

LEMMA AccountedStep ==
  ASSUME LoopInv, Traversal, Accounted, LeakPerRequest, [Next]_vars, LoopInv'
  PROVE  Accounted' /\ LeakPerRequest'
<1>0. /\ P!ArrayInv /\ P!Unowned \subseteq heap /\ refused \subseteq heap
      /\ failures \in Nat /\ crashed \in BOOLEAN /\ top \in Nat
      /\ P!Unowned \cap refused = {}
  BY DEF LoopInv, P!ArrayInv, P!ArrayTypeOK, P!BlocksHeld, P!Unowned
<1>1. CASE InitAbcc
  BY <1>1 DEF InitAbcc, Accounted, LeakPerRequest
<1>2. CASE SessionEnds
  BY <1>2 DEF SessionEnds, Accounted, LeakPerRequest
<1>3. CASE \E t \in Tree : ParseXml(t)
  <2>1. /\ step = "read" /\ step' = "init" /\ base' = heap
        /\ UNCHANGED <<array, refused>>
        /\ docBlock' = top + 1 /\ A!Take(<<top + 1>>)
    BY <1>3 DEF ParseXml
  <2>2. ~ array.live /\ heap = refused \cup P!Unowned
    BY <2>1, HeapWithoutArray DEF LoopInv, ArrayInUse
  <2>3. ~ array'.live /\ heap' = refused' \cup P!Unowned'
    <3>1. ~ array'.live /\ P!ArrayInv'
      BY <2>1, <2>2 DEF LoopInv
    <3> QED BY <3>1 DEF P!ArrayInv, P!BlocksHeld, P!Unowned, P!Owned
  <2>4. heap' = heap \cup {top + 1} /\ top + 1 \notin heap
    <3> DEFINE p == <<top + 1>>
    <3>1. Len(p) = 1 /\ p[1] = top + 1
      OBVIOUS
    <3> HIDE DEF p
    <3>2. heap' = heap \cup {p[i] : i \in 1..Len(p) \ {i \in 1..Len(p) : p[i] = A!Null}}
      BY <2>1 DEF A!Take, p
    <3>3. {p[i] : i \in 1..Len(p) \ {i \in 1..Len(p) : p[i] = A!Null}} = {top + 1}
      BY <1>0, <3>1, SamePointers
    <3>4. heap \subseteq 1..top
      BY <1>0 DEF P!ArrayInv, P!ArrayTypeOK
    <3>5. top + 1 \notin 1..top
      BY <1>0
    <3>6. heap' = heap \cup {top + 1}
      BY <3>2, <3>3
    <3> QED BY <3>4, <3>5, <3>6
  <2>5. P!Unowned' \cap refused' = {}
    BY DEF P!Unowned
  <2> QED BY <1>0, <2>1, <2>2, <2>3, <2>4, <2>5 DEF Accounted, LeakPerRequest
<1>4. CASE InitArray
  <2>1. /\ step = "init" /\ step' = "type" /\ A!InitArray(MaxCapacity)
        /\ UNCHANGED <<docBlock, base, refused>>
    BY <1>4 DEF InitArray, A!InitArray, loopVars
  <2>2. ~ array.live /\ P!InitArray(MaxCapacity) /\ MaxCapacity \in Nat
    BY <2>1, SameInitArray, BoundTypes DEF LoopInv, ArrayInUse
  <2>3. P!Unowned' = P!Unowned
    BY <1>0, <2>2, ArrayParameters, P!InitArrayStep
  <2> QED BY <2>1, <2>3 DEF Accounted, LeakPerRequest
<1>5. CASE SetRequestType
  <2>1. /\ step = "type" /\ step' = "traverse" /\ A!SetRequestType
        /\ UNCHANGED <<docBlock, base, refused, offered>>
    BY <1>5 DEF SetRequestType, A!SetRequestType, loopVars
  <2>2. array.live /\ P!SetRequestType /\ array.request_type \in P!Stale
    BY <2>1, SameSetRequestType DEF LoopInv, ArrayInUse
  <2>3. P!Unowned' = P!Unowned
    BY <1>0, <2>2, ArrayParameters, P!SetRequestTypeStep
  <2>4. array'.size = array.size
    BY <1>0, <2>2 DEF P!SetRequestType, P!ArrayInv, P!ArrayTypeOK
  <2>5. refused' \ base' = {}
    BY <2>1 DEF Accounted
  <2>6. Len(offered') - array'.size = 0
    <3>1. array.capacity \in Nat
      BY <1>0 DEF P!ArrayInv, P!ArrayTypeOK
    <3>2. offered = <<>> /\ Len(offered) = 0
      BY <2>1, EmptySeq DEF Traversal
    <3>3. array.size = 0
      BY <1>0, <2>2, <3>1, <3>2 DEF P!ArrayInv, P!HoldsFirstOffered
    <3> QED BY <2>1, <2>4, <3>2, <3>3
  <2>7. LET extra == Len(offered') - array'.size IN
        /\ IsFiniteSet(refused' \ base')
        /\ Cardinality(refused' \ base') <= 2 * extra
        /\ Cardinality(refused' \ base') = 2 * extra
    BY <2>5, <2>6, FS_EmptySet
  <2> QED BY <2>1, <2>3, <2>7 DEF Accounted, LeakPerRequest
<1>6. CASE TraverseXml
  <2>1. /\ step = "traverse" /\ step' = "traverse" /\ stack # <<>> /\ child # NullNode
        /\ ExtractXml(child) /\ UNCHANGED <<docBlock, base>>
    BY <1>6 DEF TraverseXml, loopVars
  <2>2. CASE tree[child].type = "element"
    <3> DEFINE key == tree[child].name
               text == ElementText(tree, child, NoText)
    <3>1. P!AddPair(key, text)
      BY <2>1, <2>2, SameAddPair DEF ExtractXml
    <3>2. key \in STRING /\ text \in Value
      <4>1. child \in 2..Len(tree) /\ tree \in Tree
        BY <2>1, ChildIsNext DEF Traversal
      <4>2. child \in 1..Len(tree)
        BY <4>1
      <4> QED BY <4>1, <4>2, NodeTypes
    <3>3. array.live
      BY <2>1 DEF LoopInv, ArrayInUse
    <3> HIDE DEF key, text
    <3>4. P!Unowned' = P!Unowned
      BY <1>0, <3>1, <3>2, <3>3, ArrayParameters, P!AddPairStep
    <3>5. PICK p \in P!Allocations(2) :
            LET pair == [key |-> p[1], value |-> p[2], name |-> key, text |-> text]
                full == array.size = array.capacity
            IN
            /\ P!Take(p)
            /\ offered' = Append(offered, [name |-> key, text |-> text])
            /\ array' = IF full THEN array
                        ELSE [array EXCEPT !.size = @ + 1, !.pairs = Append(@, pair)]
            /\ refused' = IF full THEN refused \cup ({p[1], p[2]} \ {P!Null})
                          ELSE refused
      BY <3>1 DEF P!AddPair
    <3>6. /\ failures' \in failures..MaxFailures
          /\ (\E i \in 1..2 : p[i] = P!Null) => failures' > 0
          /\ \A i \in 1..2 : p[i] = P!Null \/ p[i] = top + i
      BY <1>0, <3>5, ArrayParameters, P!TakeStep DEF P!ArrayInv, P!ArrayTypeOK
    <3>7. /\ 1 \in 1..2 /\ 2 \in 1..2 /\ failures' \in Nat
          /\ failures' = 0 => failures = 0 /\ p[1] # 0 /\ p[2] # 0
          /\ p[1] = 0 \/ p[1] = top + 1
          /\ p[2] = 0 \/ p[2] = top + 2
      <4>1. 1 \in 1..2 /\ 2 \in 1..2
        OBVIOUS
      <4>2. failures' \in Nat /\ failures <= failures'
        BY <1>0, <3>6, MemoryAssumption
      <4> QED BY <1>0, <3>6, <4>1, <4>2, SamePointers
    <3>8. /\ p[1] = 0 \/ p[1] \notin heap
          /\ p[2] = 0 \/ p[2] \notin heap
          /\ p[1] = p[2] => p[1] = 0
      BY <1>0, <3>7 DEF P!ArrayInv, P!ArrayTypeOK
    <3> DEFINE extra == Len(offered) - array.size
               S == refused \ base
               new == {p[1], p[2]} \ {0}
    <3>9. /\ IsFiniteSet(S) /\ Cardinality(S) \in Nat
          /\ Cardinality(S) <= 2 * extra
          /\ failures = 0 => Cardinality(S) = 2 * extra
          /\ base \subseteq heap
      <4>1. base \subseteq (refused \cup P!Unowned) \ {docBlock}
        BY <2>1 DEF Accounted
      <4> QED BY <1>0, <2>1, <4>1, FS_CardinalityType DEF Accounted
    <3>10. /\ Len(offered) \in Nat /\ array.size \in Nat
           /\ Len(offered') = Len(offered) + 1
      <4>1. /\ offered \in Seq([name : STRING, text : Value]) /\ array.size \in Nat
            /\ [name |-> key, text |-> text] \in [name : STRING, text : Value]
        BY <1>0, <3>2 DEF P!ArrayInv, P!ArrayTypeOK
      <4> QED BY <3>5, <4>1, AppendProperties, LenProperties
    <3>11. /\ IsFiniteSet(refused' \ base')
           /\ Cardinality(refused' \ base') <= 2 * (Len(offered') - array'.size)
           /\ failures' = 0 =>
                Cardinality(refused' \ base') = 2 * (Len(offered') - array'.size)
      <4>1. CASE array.size = array.capacity
        <5>1. refused' = refused \cup new /\ array' = array
          BY <3>5, <4>1, SamePointers
        <5>2. refused' \ base' = S \cup new
          <6>1. new \cap base = {}
            BY <3>8, <3>9
          <6> HIDE DEF new
          <6> QED BY <2>1, <5>1, <6>1
        <5>3. /\ IsFiniteSet(S \cup new)
              /\ Cardinality(S \cup new) <= Cardinality(S) + 2
              /\ p[1] # 0 /\ p[2] # 0 => Cardinality(S \cup new) = Cardinality(S) + 2
          <6>1. (p[1] = 0 \/ p[1] \notin S) /\ (p[2] = 0 \/ p[2] \notin S)
            BY <1>0, <3>8
          <6> HIDE DEF S
          <6> QED BY <3>8, <3>9, <6>1, TwoMore
        <5> HIDE DEF S, new
        <5>4. 2 * (Len(offered') - array'.size) = 2 * extra + 2 /\ extra \in Int
          BY <3>10, <5>1
        <5> HIDE DEF extra
        <5>5. Cardinality(S \cup new) \in Nat
          BY <5>3, FS_CardinalityType
        <5> DEFINE c == Cardinality(S)
                   d == Cardinality(S \cup new)
        <5>6. /\ c \in Nat /\ c <= 2 * extra /\ (failures = 0 => c = 2 * extra)
              /\ d \in Nat /\ d <= c + 2 /\ (p[1] # 0 /\ p[2] # 0 => d = c + 2)
          BY <3>9, <5>3, <5>5
        <5>7. d <= 2 * extra + 2 /\ (failures' = 0 => d = 2 * extra + 2)
          <6> HIDE DEF c, d
          <6> QED BY <3>7, <5>4, <5>6
        <5> QED BY <5>2, <5>3, <5>4, <5>7
      <4>2. CASE array.size # array.capacity
        <5>1. refused' = refused /\ array'.size = array.size + 1
          BY <1>0, <3>5, <4>2 DEF P!ArrayInv, P!ArrayTypeOK
        <5>2. Len(offered') - array'.size = extra
          BY <3>10, <5>1
        <5> QED BY <2>1, <3>7, <3>9, <5>1, <5>2
      <4> QED BY <4>1, <4>2
    <3>12. refused \subseteq refused'
      BY <3>5
    <3> QED BY <2>1, <3>4, <3>11, <3>12 DEF Accounted, LeakPerRequest
  <2>3. CASE tree[child].type # "element"
    <3>1. UNCHANGED arrayVars
      BY <2>1, <2>3 DEF ExtractXml
    <3>2. UNCHANGED <<array, failures, offered, refused, heap, top, crashed, badFree>>
      BY <3>1 DEF arrayVars, memoryVars
    <3>3. P!Unowned' = P!Unowned
      BY <1>0, <3>2, ArrayParameters, P!ArrayKept
    <3> QED BY <2>1, <3>2, <3>3 DEF Accounted, LeakPerRequest
  <2> QED BY <2>2, <2>3
<1>7. CASE Return
  <2>1. /\ step = "traverse" /\ step' = "traverse"
        /\ UNCHANGED <<docBlock, base>> /\ UNCHANGED arrayVars
    BY <1>7 DEF Return, loopVars
  <2>2. UNCHANGED <<array, failures, offered, refused, heap, top, crashed, badFree>>
    BY <2>1 DEF arrayVars, memoryVars
  <2>3. P!Unowned' = P!Unowned
    BY <1>0, <2>2, ArrayParameters, P!ArrayKept
  <2> QED BY <2>1, <2>2, <2>3 DEF Accounted, LeakPerRequest
<1>8. CASE CreateReply
  <2> DEFINE n == IF IsData \/ CopiesAddress THEN 2 ELSE 1
  <2>1. PICK p \in A!Allocations(n) :
          /\ A!Take(p)
          /\ idBlock' = p[1]
          /\ crashed' = \/ p[1] = A!Null
                        \/ array.request_type = A!Null
                        \/ \E key \in KeysAsked : A!MeetsNull(key)
                        \/ IsData /\ p[2] = A!Null
                        \/ CopiesAddress /\ AddressFound = A!Null
    BY <1>8 DEF CreateReply
  <2>2. /\ step = "traverse" /\ step' = "write" /\ stack = <<>>
        /\ UNCHANGED <<array, refused, offered, badFree, docBlock, base, tree>>
    BY <1>8 DEF CreateReply
  <2>3. n \in Nat /\ n \in {1, 2} /\ (n = 2 <=> IsData \/ CopiesAddress)
    OBVIOUS
  <2>4. crashed' \in BOOLEAN
    BY <2>1
  <2> HIDE DEF n
  <2> DEFINE new == {p[i] : i \in 1..n} \ {P!Null}
  <2>5. /\ P!Unowned' = P!Unowned \cup new
        /\ \A i \in 1..n : p[i] \notin heap
        /\ \A i, j \in 1..n : p[i] = p[j] /\ p[i] # P!Null => i = j
        /\ failures' \in Nat /\ failures <= failures'
        /\ (\E i \in 1..n : p[i] = P!Null) => failures' > 0
    BY <2>1, <2>2, <2>3, <2>4, LoopTakes
  <2>6. /\ base \subseteq (refused \cup P!Unowned) \ {docBlock}
        /\ P!Unowned \subseteq base \cup {docBlock}
        /\ docBlock \in P!Unowned
    BY <2>2 DEF Accounted, LoopInv, LoopBlocks
  <2>7. 1 \in 1..n /\ base \subseteq heap /\ docBlock \in heap
    BY <1>0, <2>3, <2>6
  <2>8. ASSUME ~ crashed'
        PROVE  /\ idBlock' \notin base'
               /\ Cardinality(Left') <= Footprint(request)'
               /\ failures' = 0 => Cardinality(Left') = Footprint(request)'
    <3> DEFINE q == IF n = 2 THEN p[2] ELSE 0
               S == refused \ base
               extra == Len(offered) - array.size
    <3>1. p[1] # 0 /\ p[1] \notin heap
      BY <2>1, <2>5, <2>7, <2>8, SamePointers
    <3>2. new = {p[1]} \cup ({q} \ {0})
      <4>1. CASE n = 1
        <5>1. 1..n = {1}
          BY <4>1
        <5> QED BY <3>1, <4>1, <5>1, SamePointers
      <4>2. CASE n = 2
        <5>1. 1..n = {1, 2}
          BY <4>2
        <5>2. {p[i] : i \in 1..n} = {p[1], p[2]}
          BY <5>1
        <5> QED BY <3>1, <4>2, <5>2, SamePointers
      <4> QED BY <2>3, <4>1, <4>2
    <3>3. /\ q # p[1]
          /\ q = 0 \/ q \notin heap
          /\ failures' = 0 /\ n = 2 => q # 0
          /\ n # 2 => q = 0
      <4>1. CASE n = 1
        BY <3>1, <4>1
      <4>2. CASE n = 2
        <5>1. 2 \in 1..n
          BY <4>2
        <5>2. p[2] = p[1] /\ p[2] # 0 => 2 = 1
          BY <2>5, <2>7, <5>1, SamePointers
        <5>3. p[2] = 0 => failures' > 0
          BY <2>5, <5>1, SamePointers
        <5> QED BY <2>5, <3>1, <4>2, <5>1, <5>2, <5>3
      <4> QED BY <2>3, <4>1, <4>2
    <3> HIDE DEF q, new
    <3>4. Left' = S \cup ({q} \ {0})
      <4>1. Left' = ((refused \cup (P!Unowned \cup new)) \ base) \ {docBlock, p[1]}
        BY <2>1, <2>2, <2>5 DEF Left
      <4>2. docBlock \notin refused /\ docBlock # q
        BY <1>0, <2>6, <2>7, <3>3, SamePointers DEF LoopInv, P!ArrayInv, P!ArrayTypeOK
      <4>3. q # 0 => q \notin base /\ q # p[1]
        BY <2>7, <3>3
      <4>4. p[1] \notin refused
        BY <1>0, <3>1
      <4> QED BY <2>6, <3>2, <4>1, <4>2, <4>3, <4>4
    <3>5. /\ IsFiniteSet(S)
          /\ Cardinality(S) <= 2 * extra
          /\ failures = 0 => Cardinality(S) = 2 * extra
      BY <2>2 DEF Accounted
    <3>6. q = 0 \/ q \notin S
      BY <1>0, <3>3
    <3> HIDE DEF S
    <3>7. /\ Cardinality(Left') = Cardinality(S) + IF q = 0 THEN 0 ELSE 1
          /\ Cardinality(S) \in Nat
      BY <3>4, <3>5, <3>6, OneMore
    <3>8. /\ Len(offered) \in Nat /\ array.size \in Nat
          /\ Footprint(request) = 2 * extra
                                   + (IF IsData THEN 1 ELSE 0)
                                   + (IF SetsAddress(Filled) THEN 1 ELSE 0)
      <4>1. /\ tree \in Tree /\ array.capacity = MaxCapacity /\ array.live
        BY <2>2 DEF Traversal, LoopInv, ArrayInUse
      <4>2. PICK m \in 1..Len(tree) : /\ StackAt(tree, stack, m)
                                      /\ OfferedUpTo(tree, offered, m)
        BY <2>2 DEF Traversal
      <4>3. m = Len(tree)
        BY <2>2, <4>2, EmptySeq DEF StackAt
      <4> QED BY <4>1, <4>2, <4>3, FootprintIs
    <3>9. Footprint(request)' = Footprint(request)
      BY <2>2 DEF request, Footprint
    <3>10. /\ SetsAddress(Filled) => ~ IsData
           /\ CopiesAddress => SetsAddress(Filled)
           /\ failures' = 0 /\ SetsAddress(Filled) => CopiesAddress
      <4>1. failures' = 0 => failures = 0
        BY <1>0, <2>5
      <4> QED BY <4>1, CopiesMeans
    <3>11. /\ q # 0 => IsData \/ SetsAddress(Filled)
           /\ failures' = 0 /\ (IsData \/ SetsAddress(Filled)) => q # 0
      BY <2>3, <3>3, <3>10
    <3> DEFINE kept == (IF IsData THEN 1 ELSE 0) + (IF SetsAddress(Filled) THEN 1 ELSE 0)
    <3>12. /\ kept = IF IsData \/ SetsAddress(Filled) THEN 1 ELSE 0
           /\ Footprint(request) = 2 * extra + kept
           /\ extra \in Int
      <4>1. extra \in Int
        BY <3>8
      <4> HIDE DEF extra
      <4>2. kept = IF IsData \/ SetsAddress(Filled) THEN 1 ELSE 0
        BY <3>10
      <4> QED BY <3>8, <4>1, <4>2
    <3> HIDE DEF kept, extra
    <3>13. failures' = 0 => failures = 0
      BY <1>0, <2>5
    <3>14. idBlock' \notin base'
      BY <2>1, <2>2, <2>7, <3>1
    <3> QED BY <3>5, <3>7, <3>9, <3>11, <3>12, <3>13, <3>14
  <2>9. base' \subseteq (refused' \cup P!Unowned') \ {docBlock'}
    BY <2>2, <2>5, <2>6
  <2> QED BY <2>2, <2>8, <2>9 DEF Accounted, LeakPerRequest
<1>9. CASE FreeArray
  <2>1. /\ step = "write" /\ step' = "free" /\ A!FreeArray
        /\ UNCHANGED <<docBlock, idBlock, base, tree, crashed, failures, refused>>
    BY <1>9 DEF FreeArray, A!FreeArray, loopVars
  <2>2. array.live /\ P!FreeArray
    BY <2>1, SameFreeArray DEF LoopInv, ArrayInUse
  <2>3. P!Unowned' = P!Unowned
    BY <1>0, <2>2, ArrayParameters, P!FreeArrayStep
  <2>4. Left' = Left /\ Footprint(request)' = Footprint(request)
    BY <2>1, <2>3 DEF Left, Footprint, request
  <2> QED BY <2>1, <2>3, <2>4 DEF Accounted, LeakPerRequest
<1>10. CASE Cleanup /\ ~ crashed
  <2>1. /\ step = "free" /\ step' = "read" /\ A!Free(<<docBlock, idBlock>>)
        /\ UNCHANGED <<failures, base, tree>>
    BY <1>10 DEF Cleanup, loopVars
  <2>2. /\ base \subseteq (refused \cup P!Unowned) \ {docBlock}
        /\ idBlock \notin base
        /\ Cardinality(Left) <= Footprint(request)
        /\ failures = 0 => Cardinality(Left) = Footprint(request)
    BY <1>10, <2>1 DEF Accounted
  <2>3. heap = refused \cup P!Unowned
    BY <2>1, HeapWithoutArray DEF LoopInv, ArrayInUse
  <2>4. heap' = heap \ {docBlock, idBlock}
    <3> DEFINE s == <<docBlock, idBlock>>
    <3>1. Len(s) = 2 /\ s[1] = docBlock /\ s[2] = idBlock /\ 1..2 = {1, 2}
      OBVIOUS
    <3>2. heap' = heap \ {s[i] : i \in 1..Len(s)}
      BY <2>1 DEF A!Free
    <3> HIDE DEF s
    <3>3. {s[i] : i \in 1..Len(s)} = {docBlock, idBlock}
      BY <3>1
    <3> QED BY <3>2, <3>3
  <2>5. heap' \ base' = Left /\ base' \subseteq heap'
    BY <2>1, <2>2, <2>3, <2>4 DEF Left
  <2>6. Footprint(request)' = Footprint(request)
    BY <2>1 DEF Footprint, request
  <2>7. LeakPerRequest'
    BY <2>1, <2>2, <2>5, <2>6 DEF LeakPerRequest
  <2> QED BY <2>1, <2>7 DEF Accounted
<1>11. CASE UNCHANGED vars
  <2>1. /\ UNCHANGED <<step, tree, docBlock, idBlock, base>>
        /\ UNCHANGED <<array, failures, offered, refused, heap, top, crashed, badFree>>
    BY <1>11 DEF vars, arrayVars, memoryVars, loopVars
  <2>2. P!Unowned' = P!Unowned
    BY <1>0, <2>1, ArrayParameters, P!ArrayKept
  <2>3. Left' = Left /\ Footprint(request)' = Footprint(request)
    BY <2>1, <2>2 DEF Left, Footprint, request
  <2> QED BY <2>1, <2>2, <2>3 DEF Accounted, LeakPerRequest
<1> QED
  BY <1>1, <1>2, <1>3, <1>4, <1>5, <1>6, <1>7, <1>8, <1>9, <1>10, <1>11 DEF Next

\* A request leaves behind the pairs the array refused, a reply it allocated
\* and the address an edit replaced, whatever allocation fails, and nothing
\* else: the heap of a session grows by exactly that (network.c:266-272,
\* parse.c:130, 159-160, abcc.c:16).
THEOREM LeakPerRequestCorrect == Spec => []LeakPerRequest
<1> DEFINE Inv == (LoopInv /\ Traversal) /\ Accounted /\ LeakPerRequest
<1>1. Init => Inv
  BY LoopInit, TraversalInit, AccountedInit
<1>2. Inv /\ [Next]_vars => Inv'
  BY LoopStep, TraversalStep, AccountedStep
<1>3. Inv => LeakPerRequest
  OBVIOUS
<1> HIDE DEF Inv
<1> QED BY <1>1, <1>2, <1>3, PTL DEF Spec
=============================================================================
