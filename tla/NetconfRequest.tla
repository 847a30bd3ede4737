--------------------------- MODULE NetconfRequest ---------------------------
(***************************************************************************)
(* The functional core of parsing/parse.c: what one parsed request leaves  *)
(* in the key/value array, the reply create_xml_reply chooses for it, and  *)
(* what happens to the device.  No state is kept here; the server and the  *)
(* abstract service both compute with these operators.                     *)
(*                                                                         *)
(* A document is the record [root, elems, size]: the name of the root, the *)
(* descendant elements in document order (the order traverse_xml visits    *)
(* them) as [key, value] pairs, and the number of pieces its text takes on *)
(* the wire.                                                               *)
(***************************************************************************)
EXTENDS Integers, Sequences

CONSTANTS
  Doc,          \* the well-formed request documents clients send
  Value,        \* the texts an element may hold
  DefaultIP,    \* the address init_abcc gives the device
  Plain,        \* the texts that xmlNewChild and sprintf copy unchanged
  Garbled,      \* what any other text becomes on its way to the client
  MaxCapacity,  \* pairs a KeyValuePairArray holds (10 in the code)
  CharMax       \* CHAR_MAX of the `char msg_num` (127 on the build's targets)

\* A KeyValuePair: an element's name and its text.
Pair == [key : STRING, value : Value]

\* The text of an element that has none, and of a reply without an address.
NoText == ""

ASSUME RequestAssumption ==
  /\ \A d \in Doc : /\ DOMAIN d = {"root", "elems", "size"}
                    /\ d.root \in STRING
                    /\ d.elems \in Seq(Pair)
                    /\ d.size \in Nat \ {0}
  /\ Value \subseteq STRING
  /\ {NoText, DefaultIP} \subseteq Value
  /\ Plain \subseteq Value
  /\ Garbled \notin Value
  /\ MaxCapacity \in Nat \ {0}
  /\ CharMax \in Nat \ {0}

\* The smallest member of a nonempty set of positions: what a scan that
\* returns at the first hit yields.
FirstOf(S) == CHOOSE i \in S : \A j \in S : i <= j

-----------------------------------------------------------------------------
(* The key/value array.                                                    *)

\* A KeyValuePairArray after process_xml: add_key_value refuses every pair
\* beyond the capacity, and extract_xml ignores that it did.
ProcessXml(d) ==
  [request_type |-> d.root,
   data |-> SubSeq(d.elems, 1, IF Len(d.elems) <= MaxCapacity
                               THEN Len(d.elems) ELSE MaxCapacity)]

\* The positions at which a key is stored; get_key answers SUCCESS exactly
\* when there is one.
Hits(array, key) == {i \in 1..Len(array.data) : array.data[i].key = key}
HasKey(array, key) == Hits(array, key) # {}

\* What get_value stores through its out parameter when it finds the key.
ValueOf(array, key) == array.data[FirstOf(Hits(array, key))].value

-----------------------------------------------------------------------------
(* Replies.                                                                *)

\* RESPONSE_1, 2, 3 and 6 carry the message-id written in the macro; only
\* create_netconf_response_4 is given the server's counter.
Fixed(kind, id) == [kind |-> kind, id |-> id, ip |-> NoText]
HelloReply  == Fixed("hello", 0)
SchemaReply == Fixed("schema", 1)
ModulesReply == Fixed("modules-state", 2)
SchemasReply == Fixed("schemas", 3)
OkReply     == Fixed("ok", 6)
EmptyReply  == Fixed("empty", 0)
NoReply     == Fixed("none", 0)      \* no reply is being prepared
DataReply(ip, id) == [kind |-> "data", id |-> id, ip |-> ip]

ReplyKind == {"hello", "schema", "modules-state", "schemas", "ok", "empty",
              "data"}
Reply == [kind : ReplyKind, id : Int, ip : Value \cup {Garbled}]

\* The reply is the format of sprintf, and the address went through
\* xmlNewChild, which reads entity references in it: a text with '%' or '&'
\* does not arrive as it was stored.
Sprintf(reply) ==
  IF reply.kind = "data" /\ reply.ip \notin Plain
  THEN [reply EXCEPT !.ip = Garbled] ELSE reply

\* The requests that reach set_IP_ADDRESS with a value: an edit-config that
\* names the running datastore and holds an IP_ADDRESS, unless an earlier
\* test of create_xml_reply takes the request first.
SetsAddress(array) ==
  /\ array.request_type = "rpc"
  /\ ~ HasKey(array, "get")
  /\ ~ HasKey(array, "get-schema")
  /\ HasKey(array, "edit-config")
  /\ HasKey(array, "running")
  /\ HasKey(array, "IP_ADDRESS")

\* The device's address after the request.
NewAddress(array, ip) ==
  IF SetsAddress(array) THEN ValueOf(array, "IP_ADDRESS") ELSE ip

\* get_key returns 0 when it finds the key: `if (get_key(array, "running"))`
\* is the branch of an edit that does NOT name the running datastore.
CreateXmlReply(array, ip, id) ==
  LET has(key) == HasKey(array, key) IN
  CASE array.request_type = "hello" -> HelloReply
    [] array.request_type = "rpc" ->
       IF has("get")
       THEN IF has("netconf-state") THEN ModulesReply
            ELSE IF has("modules-state") THEN SchemaReply
            ELSE DataReply(ip, id)
       ELSE IF has("get-schema") THEN SchemaReply
       ELSE IF has("edit-config")
            THEN IF has("running") THEN OkReply ELSE DataReply(ip, id)
       ELSE IF has("get-config") THEN SchemasReply
       ELSE EmptyReply
    [] OTHER -> EmptyReply

-----------------------------------------------------------------------------
(* The message counter.                                                    *)

NextId_Saturating(n) == IF n = CharMax THEN n ELSE n + 1

NextId_Unbounded(n) == n + 1

\* `++msg_num` on a signed char.
NextId(n) == IF n = CharMax THEN -CharMax - 1 ELSE n + 1

\* The char that holds the number of requests served before, for any number.
CharOf(n) == ((n + CharMax + 1) % (2 * CharMax + 2)) - CharMax - 1
=============================================================================
