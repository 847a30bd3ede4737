---------------------------- MODULE RequestMemory ----------------------------
(***************************************************************************)
(* One pass of the read loop after another, seen from the heap: the blocks *)
(* parse_xml, process_xml, int_to_str, create_xml_reply, set_IP_ADDRESS    *)
(* and init_abcc allocate, and the ones the loop frees (network.c:207-281, *)
(* parse.c).  The key/value array is KeyValuePairArray's, filled node by   *)
(* node as traverse_xml walks the document; which blocks a reply costs is  *)
(* decided by CreateXmlReply on what the array holds.  Any allocation of   *)
(* the program's own may fail.  A block that lives only inside one C       *)
(* function (request_copy, xml_buff, the reply's xmlDoc) is not shown.     *)
(***************************************************************************)
EXTENDS NetconfRequest, XmlTree

CONSTANTS
  Tree,          \* the documents clients send, as libxml2 builds them
  MaxFailures,   \* bound: allocations that fail
  MaxRequests,   \* bound: requests handled
  MaxSessions    \* bound: sessions opened

\* init_key_value_array takes the capacity as an unsigned char; MAX_CAPACITY is
\* 10 (KeyValuePairArray.h:9, 28).
ASSUME MemoryAssumption ==
  /\ \A t \in Tree : IsTree(t, Value) /\ DocumentOf(t, NoText) \in Doc
  /\ MaxCapacity <= 255
  /\ MaxFailures \in Nat
  /\ MaxRequests \in Nat
  /\ MaxSessions \in Nat

VARIABLES
  heap, top, failures, array, refused, offered, badFree, crashed,
                 \* of KeyValuePairArray
  step,          \* the statement of the loop executed next
  tree,          \* the document being handled
  stack,         \* `child` of every activation of traverse_xml
  docBlock,      \* the xmlDoc of the request
  idBlock,       \* msg_num_str
  replyBlock,    \* client_reply, NULL when it is a string literal
  device,        \* device.IP_ADDRESS
  requests,      \* requests handled so far
  sessions,      \* sessions opened so far
  base           \* history: the heap when the request was read

A == INSTANCE KeyValuePairArray WITH
       Key <- STRING, Text <- Value, Missing <- NoText,
       Capacities <- {MaxCapacity}, MaxBlocks <- 0, SetsType <- TRUE,
       lost <- {}

memoryVars == <<heap, top, failures>>
arrayVars == <<memoryVars, array, refused, offered, badFree, crashed>>
loopVars == <<tree, docBlock, idBlock, replyBlock, device, requests,
              sessions, base>>
vars == <<arrayVars, step, stack, loopVars>>

request == DocumentOf(tree, NoText)

Init ==
  /\ A!ArrayInit
  /\ step = "session"
  /\ tree = <<>>
  /\ stack = <<>>
  /\ docBlock = A!Null
  /\ idBlock = A!Null
  /\ replyBlock = A!Null
  /\ device = A!Garbage
  /\ requests = 0
  /\ sessions = 0
  /\ base = {}

\* init_abcc on the device of the session, a struct of the loop's own block:
\* an address left by an earlier session is forgotten, and nobody looks at
\* whether the new one could be copied.
InitAbcc ==
  /\ step = "session"
  /\ sessions < MaxSessions
  /\ \E p \in A!Allocations(1) :
       /\ A!Take(p)
       /\ device' = p[1]
  /\ sessions' = sessions + 1
  /\ tree' = <<>>
  /\ step' = "read"
  /\ UNCHANGED <<array, refused, offered, badFree, crashed, stack, docBlock,
                 idBlock, replyBlock, requests, base>>

\* The session ends between two requests, or the process does: it leaves by
\* exit, or parse_xml gets no copy of the message or no document from it and
\* returns with no block of its own.
SessionEnds ==
  /\ step = "read"
  /\ step' \in {"session", "ended"}
  /\ UNCHANGED <<arrayVars, stack, loopVars>>

\* parse_xml builds the document; the library's allocations do not fail.
ParseXml(t) ==
  /\ step = "read"
  /\ requests < MaxRequests
  /\ requests' = requests + 1
  /\ tree' = t
  /\ base' = heap
  /\ A!Take(<<top + 1>>)
  /\ docBlock' = top + 1
  /\ step' = "init"
  /\ UNCHANGED <<array, refused, offered, badFree, crashed, stack, idBlock,
                 replyBlock, device, sessions>>

InitArray ==
  /\ step = "init"
  /\ A!InitArray(MaxCapacity)
  /\ step' = "type"
  /\ UNCHANGED <<stack, loopVars>>

\* process_xml: set_request_type with the root's name, then traverse_xml from
\* the root's first child.
SetRequestType ==
  /\ step = "type"
  /\ A!SetRequestType
  /\ stack' = <<Children(tree, 1)>>
  /\ step' = "traverse"
  /\ UNCHANGED loopVars

\* The activation of traverse_xml that runs, and the node it is at.
child == stack[Len(stack)]

\* extract_xml takes the node if it is an element ...
ExtractXml(node) ==
  IF tree[node].type = "element"
  THEN A!AddPair(tree[node].name, ElementText(tree, node, NoText))
  ELSE UNCHANGED arrayVars

\* ... and traverse_xml goes down to the node's children.
TraverseXml ==
  /\ step = "traverse"
  /\ stack # <<>>
  /\ child # NullNode
  /\ ExtractXml(child)
  /\ stack' = Append(stack, Children(tree, child))
  /\ UNCHANGED <<step, loopVars>>

Return_FirstChildOnly ==
  /\ step = "traverse"
  /\ stack # <<>>
  /\ child = NullNode
  /\ stack' = [i \in 1..(Len(stack) - 1) |->
                 IF i < Len(stack) - 1 THEN stack[i] ELSE NullNode]
  /\ UNCHANGED <<arrayVars, step, loopVars>>

\* The loop of an activation is over: its caller steps to the next sibling.
Return ==
  /\ step = "traverse"
  /\ stack # <<>>
  /\ child = NullNode
  /\ stack' = [i \in 1..(Len(stack) - 1) |->
                 IF i < Len(stack) - 1 THEN stack[i]
                 ELSE NextSibling(tree, stack[i])]
  /\ UNCHANGED <<arrayVars, step, loopVars>>

\* The array as create_xml_reply reads it.
Filled ==
  [request_type |-> request.root,
   data |-> [i \in 1..array.size |-> [key |-> array.pairs[i].name,
                                      value |-> array.pairs[i].text]]]

\* The keys create_xml_reply looks for on the array it is given.
KeysAsked ==
  LET has(key) == HasKey(Filled, key) IN
  CASE array.request_type = A!Null \/ Filled.request_type # "rpc" -> {}
    [] has("get") -> {"get", "netconf-state"}
                     \cup (IF has("netconf-state") THEN {} ELSE {"modules-state"})
    [] has("get-schema") -> {"get", "get-schema"}
    [] has("edit-config") -> {"get", "get-schema", "edit-config", "running"}
                             \cup (IF has("running") THEN {"IP_ADDRESS"} ELSE {})
    [] OTHER -> {"get", "get-schema", "edit-config", "get-config"}

IsData == CreateXmlReply(Filled, "", 0).kind = "data"
IsOk == CreateXmlReply(Filled, "", 0).kind = "ok"

\* What get_value leaves in `value`, NULL if the array has no address.
AddressFound ==
  IF IsOk /\ A!GetKey("IP_ADDRESS") THEN A!GetValue("IP_ADDRESS").value
  ELSE A!Null

CopiesAddress_Unchecked == IsOk

\* set_IP_ADDRESS returns before the copy when it is given NULL.
CopiesAddress == IsOk /\ AddressFound # A!Null

NewDevice_Borrows(copy) == IF CopiesAddress THEN AddressFound ELSE device

\* The copy replaces the pointer the device had, even by the NULL of a strdup
\* that failed.
NewDevice(copy) == IF CopiesAddress THEN copy ELSE device

\* int_to_str and create_xml_reply: create_netconf_response_4 returns a new
\* block, every other reply is a literal.  Only set_IP_ADDRESS looks at what
\* an allocation returned, and nobody looks at its own result.
CreateReply ==
  /\ step = "traverse"
  /\ stack = <<>>
  /\ \E p \in A!Allocations(IF IsData \/ CopiesAddress THEN 2 ELSE 1) :
       /\ A!Take(p)
       /\ idBlock' = p[1]
       /\ replyBlock' = IF IsData THEN p[2] ELSE A!Null
       /\ device' = NewDevice(p[Len(p)])
       /\ crashed' = \/ p[1] = A!Null
                     \/ array.request_type = A!Null
                     \/ \E key \in KeysAsked : A!MeetsNull(key)
                     \/ IsData /\ p[2] = A!Null
                     \/ CopiesAddress /\ AddressFound = A!Null
  /\ step' = "write"
  /\ UNCHANGED <<array, refused, offered, badFree, stack, tree, docBlock,
                 requests, sessions, base>>

\* write_to_client, then free_key_value_pair_array.
FreeArray ==
  /\ step = "write"
  /\ A!FreeArray
  /\ step' = "free"
  /\ UNCHANGED <<stack, loopVars>>

Cleanup_ForgetsId ==
  /\ step = "free"
  /\ A!Free(<<docBlock>>)
  /\ step' = "read"
  /\ UNCHANGED <<top, failures, array, refused, offered, crashed, stack, loopVars>>

\* xmlFreeDoc and free(msg_num_str).
Cleanup ==
  /\ step = "free"
  /\ A!Free(<<docBlock, idBlock>>)
  /\ step' = "read"
  /\ UNCHANGED <<top, failures, array, refused, offered, crashed, stack, loopVars>>

Next ==
  /\ ~ crashed
  /\ \/ InitAbcc
     \/ SessionEnds
     \/ \E t \in Tree : ParseXml(t)
     \/ InitArray
     \/ SetRequestType
     \/ TraverseXml
     \/ Return
     \/ CreateReply
     \/ FreeArray
     \/ Cleanup

Spec == Init /\ [][Next]_vars

-----------------------------------------------------------------------------
(* Properties.                                                             *)

\* Every pointer the loop still dereferences points to an allocated block:
\* the device's address outlives the array it was copied from, the reply
\* outlives the call that built it, the document outlives the array's use.
NoDanglingPointer ==
  ~ crashed =>
    /\ ~ badFree
    /\ step \notin {"session", "ended"} => device \in heap \cup {A!Null}
    /\ step \in {"write", "free"} => {idBlock, docBlock} \subseteq heap
    /\ step = "write" => replyBlock \in heap \cup {A!Null}
    /\ A!Owned \subseteq heap

\* The array that traverse_xml fills one node at a time is the one the server
\* computes with: when the reply has been created its i-th pair stands for the
\* i-th element of the document, up to the capacity (parse.c:39-53, 151-170).
ArrayHoldsRequest ==
  step = "write" => Filled = ProcessXml(request)

\* What one request leaves behind: two blocks for each element beyond the
\* array's capacity, the reply built by create_netconf_response_4, and the
\* address an edit replaces.
Footprint(d) ==
  LET arr == ProcessXml(d) IN
    2 * (Len(d.elems) - Len(arr.data))
    + (IF CreateXmlReply(arr, "", 0).kind = "data" THEN 1 ELSE 0)
    + (IF SetsAddress(arr) THEN 1 ELSE 0)

\* A request gives back every block it took except those, and no failed
\* allocation makes it keep more: the heap grows with each such request and
\* never shrinks (network.c:266-272, parse.c:130, 159-160, abcc.c:16).
LeakPerRequest ==
  step = "read" /\ tree # <<>> =>
    /\ base \subseteq heap
    /\ Cardinality(heap \ base) <= Footprint(request)
    /\ failures = 0 => Cardinality(heap \ base) = Footprint(request)

\* No request, whatever its elements, makes the loop use a NULL pointer while
\* every allocation succeeds: an edit without an address, an element without a
\* text, a key that is not there (parse.c:79-81, 159; abcc.c:14).
CrashNeedsFailure == crashed => failures > 0
=============================================================================
