------------------------ MODULE NetconfServerProofs ------------------------
(***************************************************************************)
(* Proofs about NetconfServer, for every set of clients and documents and  *)
(* every value of the other constants: its types, whom the ssl context     *)
(* belongs to, that no connection is left behind, that what a session      *)
(* answers is a function of the requests of that session, and that the     *)
(* server implements the abstract service.  The first lemmas are about the *)
(* operators of NetconfRequest: what they return, and how the message      *)
(* counter relates to the number of messages.                              *)
(***************************************************************************)
EXTENDS NetconfServer, PositionProofs

\* What process_xml makes of a document.
Parsed == [request_type : STRING, data : Seq(Pair)]

-----------------------------------------------------------------------------
(* The first hit of a scan.                                                *)

\* The scan of get_key and get_value stops at a hit, and at no later one.
LEMMA FirstOfIsFirst ==
  ASSUME NEW S, S \subseteq Nat, S # {}
  PROVE  /\ FirstOf(S) \in S
         /\ \A j \in S : FirstOf(S) <= j
BY SmallestExists DEF FirstOf

-----------------------------------------------------------------------------
(* Types of the operators of NetconfRequest.                               *)

\* The parts of RequestAssumption, for arithmetic.
LEMMA BoundTypes ==
  /\ MaxCapacity \in Nat /\ MaxCapacity > 0
  /\ CharMax \in Nat /\ CharMax > 0
<1>1. MaxCapacity \in Nat \ {0} /\ CharMax \in Nat \ {0}
  BY RequestAssumption
<1> QED BY <1>1

LEMMA DocType ==
  ASSUME NEW d \in Doc
  PROVE  /\ d.root \in STRING
         /\ d.elems \in Seq(Pair)
BY RequestAssumption

\* The array process_xml fills is well formed, and no longer than the
\* document.
LEMMA ProcessXmlType ==
  ASSUME NEW d \in Doc
  PROVE  /\ ProcessXml(d) \in Parsed
         /\ Len(ProcessXml(d).data) <= MaxCapacity
<1> DEFINE n == IF Len(d.elems) <= MaxCapacity THEN Len(d.elems)
                ELSE MaxCapacity
<1>1. /\ d.root \in STRING
      /\ d.elems \in Seq(Pair)
  BY DocType
<1>2. Len(d.elems) \in Nat /\ MaxCapacity \in Nat
  BY <1>1, LenProperties, BoundTypes
<1>3. n \in Nat /\ n <= Len(d.elems) /\ n <= MaxCapacity
  BY <1>2
<1>4. /\ SubSeq(d.elems, 1, n) \in Seq(Pair)
      /\ Len(SubSeq(d.elems, 1, n)) = n
  <2> HIDE DEF n
  <2>1. /\ SubSeq(d.elems, 1, n) \in Seq(Pair)
        /\ Len(SubSeq(d.elems, 1, n)) = IF 1 <= n THEN n - 1 + 1 ELSE 0
    BY <1>1, <1>3, SubSeqType
  <2> QED BY <1>3, <2>1
<1> QED BY <1>1, <1>3, <1>4 DEF ProcessXml, Parsed

\* A value that get_value finds is a value of the document.
LEMMA ValueOfType ==
  ASSUME NEW array \in Parsed, NEW key, HasKey(array, key)
  PROVE  ValueOf(array, key) \in Value
<1>1. /\ Hits(array, key) \subseteq 1..Len(array.data)
      /\ Hits(array, key) \subseteq Nat
      /\ Hits(array, key) # {}
  BY DEF Hits, HasKey, Parsed
<1>2. FirstOf(Hits(array, key)) \in 1..Len(array.data)
  BY <1>1, FirstOfIsFirst
<1>3. array.data \in Seq(Pair)
  BY DEF Parsed
<1>4. array.data[FirstOf(Hits(array, key))] \in Pair
  BY <1>2, <1>3, ElementOfSeq
<1> QED BY <1>4 DEF ValueOf, Pair

\* The device's address stays a value.
LEMMA NewAddressType ==
  ASSUME NEW array \in Parsed, NEW ip \in Value
  PROVE  NewAddress(array, ip) \in Value
BY ValueOfType DEF NewAddress, SetsAddress

\* create_xml_reply always returns one of the replies.
LEMMA CreateXmlReplyType ==
  ASSUME NEW array, NEW ip \in Value, NEW id \in Int
  PROVE  CreateXmlReply(array, ip, id) \in Reply
<1>0. NoText \in Value
  BY RequestAssumption
<1>1. {HelloReply, SchemaReply, ModulesReply, SchemasReply, OkReply,
       EmptyReply} \subseteq Reply
  <2>1. ASSUME NEW kind \in ReplyKind, NEW n \in Nat
        PROVE  Fixed(kind, n) \in Reply
    BY <1>0 DEF Fixed, Reply
  <2>2. {"hello", "schema", "modules-state", "schemas", "ok", "empty"}
          \subseteq ReplyKind
    BY DEF ReplyKind
  <2> QED
    BY <2>1, <2>2 DEF HelloReply, SchemaReply, ModulesReply, SchemasReply,
                      OkReply, EmptyReply
<1>2. DataReply(ip, id) \in Reply
  BY DEF DataReply, Reply, ReplyKind
<1>3. CreateXmlReply(array, ip, id)
        \in {HelloReply, SchemaReply, ModulesReply, SchemasReply, OkReply,
             EmptyReply, DataReply(ip, id)}
  <2> HIDE DEF HelloReply, SchemaReply, ModulesReply, SchemasReply, OkReply,
               EmptyReply, DataReply, HasKey
  <2>1. CASE array.request_type = "hello"
    BY <2>1 DEF CreateXmlReply
  <2>2. CASE array.request_type = "rpc"
    BY <2>2 DEF CreateXmlReply
  <2>3. CASE array.request_type \notin {"hello", "rpc"}
    BY <2>3 DEF CreateXmlReply
  <2> QED BY <2>1, <2>2, <2>3
<1> QED BY <1>1, <1>2, <1>3

\* The reply to a request that sets the address does not show the address,
\* so it makes no difference whether the device is changed before or after
\* the reply is chosen.
LEMMA ReplyIgnoresOwnEdit ==
  ASSUME NEW array, NEW ip, NEW id
  PROVE  CreateXmlReply(array, NewAddress(array, ip), id)
           = CreateXmlReply(array, ip, id)
<1>1. CASE SetsAddress(array)
  BY <1>1 DEF SetsAddress, CreateXmlReply
<1>2. CASE ~ SetsAddress(array)
  BY <1>2 DEF NewAddress
<1> QED BY <1>1, <1>2

\* What arrives at the client is a reply.
LEMMA SprintfType ==
  ASSUME NEW reply \in Reply
  PROVE  Sprintf(reply) \in Reply
BY DEF Sprintf, Reply

-----------------------------------------------------------------------------
(* The message counter.                                                    *)

\* The counter stays a char.
LEMMA NextIdType ==
  ASSUME NEW n \in (-CharMax - 1)..CharMax
  PROVE  NextId(n) \in (-CharMax - 1)..CharMax
BY BoundTypes DEF NextId

\* Counting one more message is the same in the char as in the natural
\* numbers taken modulo the char's range.
LEMMA NextIdCounts ==
  ASSUME NEW n \in Nat
  PROVE  NextId(CharOf(n)) = CharOf(n + 1)
BY BoundTypes DEF NextId, CharOf

-----------------------------------------------------------------------------
(* Messages on the wire.                                                   *)

\* The text of a message is a sequence of pieces.
LEMMA PiecesType ==
  ASSUME NEW i \in Nat, NEW d \in Doc
  PROVE  Pieces(i, d) \in Seq(Piece)
<1>1. d.size + 2 \in Nat
  BY RequestAssumption
<1>2. Pieces(i, d) \in [1..(d.size + 2) -> Piece]
  BY <1>1 DEF Pieces, Piece
<1> QED BY <1>1, <1>2, SeqDef

\* What parse_xml hands to the XML parser is a part of what was read.
LEMMA RequestType ==
  ASSUME NEW text \in Seq(Piece)
  PROVE  Request(text) \in Seq(Piece)
<1>1. Len(text) \in Nat
  BY LenProperties
<1>2. CASE Delimiters(text) = {}
  BY <1>2 DEF Request
<1>3. CASE Delimiters(text) # {}
  <2> DEFINE j == FirstOf(Delimiters(text))
  <2>1. Delimiters(text) \subseteq 1..(Len(text) - 1)
    BY DEF Delimiters
  <2>2. j \in 1..(Len(text) - 1)
    <3>1. Delimiters(text) \subseteq Nat
      BY <1>1, <2>1
    <3> QED BY <1>3, <2>1, <3>1, FirstOfIsFirst
  <2>3. SubSeq(text, 1, j - 1) \in Seq(Piece)
    <3> HIDE DEF j
    <3> QED BY <1>1, <2>2, SubSeqType
  <2> QED BY <1>3, <2>3 DEF Request
<1> QED BY <1>2, <1>3

\* A message that parses is one the server can act on.
LEMMA WellFormedType ==
  ASSUME NEW text \in Seq(Piece), WellFormed(Request(text))
  PROVE  /\ Request(text)[1].msg \in Nat
         /\ Request(text)[1].doc \in Doc
<1>1. Request(text) \in Seq(Piece) /\ Request(text) # <<>>
  BY RequestType DEF WellFormed
<1>2. 1 \in 1..Len(Request(text))
  BY <1>1, EmptySeq
<1>3. Request(text)[1] \in Piece
  BY <1>1, <1>2, ElementOfSeq
<1> QED BY <1>3 DEF Piece

-----------------------------------------------------------------------------
(* Type correctness, and whom the ssl context belongs to.                  *)

\* The context and the socket agree at every label that relies on it: none
\* is open where a connection is accepted, the handshake starts from a reset
\* context, and the session's context is the open socket's.
ContextAtLabel ==
  /\ pc \in {"startup", "accept"} => conn = NoClient /\ peer = NoClient
  /\ pc = "handshake" => conn \in Client /\ peer = NoClient
  /\ pc \in InSession => conn \in Client /\ peer = conn

\* A reply exists exactly while it is being written.
ReplyInFlight ==
  IF pc = "write" THEN client_reply \in Reply ELSE client_reply = NoReply

\* While the server starts up, a start-up call is left to make.
CallsLeft == pc = "startup" => booted < StartupCalls

CoreInv == TypeOK /\ ContextAtLabel /\ ReplyInFlight /\ CallsLeft

LEMMA CoreInit == Init => CoreInv
<1> SUFFICES ASSUME Init PROVE CoreInv
  OBVIOUS
<1>1. DefaultIP \in Value
  BY RequestAssumption
<1>2. 0 \in (-CharMax - 1)..CharMax
  BY BoundTypes
<1>3. TypeOK
  BY <1>1, <1>2 DEF Init, TypeOK, Label, InSession, Ended, StartupCalls,
     ConnState
<1>4. ContextAtLabel /\ ReplyInFlight /\ CallsLeft
  BY DEF Init, ContextAtLabel, ReplyInFlight, CallsLeft, InSession,
     StartupCalls
<1> QED BY <1>3, <1>4 DEF CoreInv

\* Cutting connections off keeps the clients' variables typed.
LEMMA DisconnectType ==
  ASSUME TypeOK, NEW S, NEW how \in ConnState, Disconnect(S, how)
  PROVE  /\ cst' \in [Client -> ConnState]
         /\ todo' \in [Client -> Seq(Piece)]
         /\ wire' \in [Client -> Seq(Seq(Piece))]
         /\ sent' \in [Client -> Seq(Doc)]
<1>1. <<>> \in Seq(Piece) /\ <<>> \in Seq(Seq(Piece))
  BY EmptySeq
<1>2. "dead" \in ConnState
  BY DEF ConnState
<1>3. cst' \in [Client -> ConnState]
  BY <1>2 DEF TypeOK, Disconnect
<1> QED BY <1>1, <1>3 DEF TypeOK, Disconnect

\* So does the end of the process.
LEMMA ProcessGoneType ==
  ASSUME TypeOK, ProcessGone, pc' \in Label
  PROVE  /\ TypeOK'
         /\ client_reply' = client_reply
<1>1. UNCHANGED <<buf, device, msg_num, client_reply, journal, written>>
  BY DEF ProcessGone
<1>2. /\ backlog' = <<>>
      /\ conn' = NoClient
      /\ peer' = NoClient
      /\ booted' = 0
  BY DEF ProcessGone
<1>3. /\ cst' \in [Client -> ConnState]
      /\ todo' \in [Client -> Seq(Piece)]
      /\ wire' \in [Client -> Seq(Seq(Piece))]
      /\ sent' \in [Client -> Seq(Doc)]
  <2>1. "dropped" \in ConnState
    BY DEF ConnState
  <2> QED BY <2>1, DisconnectType DEF ProcessGone
<1>4. /\ backlog' \in Seq(Client)
      /\ conn' \in Client \cup {NoClient}
      /\ peer' \in Client \cup {NoClient}
      /\ booted' \in 0..StartupCalls
  BY <1>2, EmptySeq DEF StartupCalls
<1>5. /\ buf' \in Seq(Piece)
      /\ device' \in Value
      /\ msg_num' \in -CharMax - 1..CharMax
      /\ client_reply' \in Reply \cup {NoReply}
      /\ journal' \in Seq(Entry)
      /\ written' \in [Client -> Seq(Reply)]
  BY <1>1 DEF TypeOK
<1>6. TypeOK'
  BY <1>3, <1>4, <1>5 DEF TypeOK
<1> QED BY <1>1, <1>6

LEMMA CoreStep ==
  ASSUME CoreInv, [Next]_vars
  PROVE  CoreInv'
<1> USE DEF CoreInv, TypeOK, ContextAtLabel, ReplyInFlight, CallsLeft
<1> USE DEF server, clients, Label, InSession, Ended, StartupCalls, ConnState
<1>1. CASE StartupCall
  BY <1>1 DEF StartupCall
<1>2. CASE StartupFails
  BY <1>2 DEF StartupFails
<1>3. CASE Reset
  <2>1. TypeOK'
    BY <1>3, DisconnectType DEF Reset
  <2> QED BY <1>3, <2>1 DEF Reset
<1>4. CASE Accept
  <2>1. Head(backlog) \in Client /\ Tail(backlog) \in Seq(Client)
    BY <1>4, HeadTailProperties DEF Accept
  <2> QED BY <1>4, <2>1 DEF Accept
<1>5. CASE AcceptFails
  BY <1>5 DEF AcceptFails
<1>6. CASE Handshake
  <2>1. conn \in Client /\ peer' = conn /\ UNCHANGED conn
    BY <1>6 DEF Handshake
  <2>2. cst' \in [Client -> ConnState]
    BY <1>6, <2>1 DEF Handshake
  <2>3. /\ device' \in Value
        /\ msg_num' \in (-CharMax - 1)..CharMax
        /\ journal' \in Seq(Entry)
    BY <1>6, RequestAssumption, BoundTypes, EmptySeq DEF Handshake
  <2> QED BY <1>6, <2>1, <2>2, <2>3 DEF Handshake
<1>7. CASE HandshakeFails
  BY <1>7 DEF HandshakeFails
<1>8. CASE ReadRecord
  <2>1. conn \in Client
    BY <1>8 DEF ReadRecord
  <2> DEFINE record == Head(wire[conn])
             rest == SubSeq(record, BufSize + 1, Len(record))
  <2>2. record \in Seq(Piece) /\ Tail(wire[conn]) \in Seq(Seq(Piece))
    BY <1>8, <2>1, HeadTailProperties DEF ReadRecord
  <2>3. Len(record) \in Nat /\ BufSize \in Nat \ {0}
    BY <2>2, LenProperties, ServerAssumption
  <2>4. /\ Len(record) > BufSize => SubSeq(record, 1, BufSize) \in Seq(Piece)
        /\ rest \in Seq(Piece)
    <3> HIDE DEF record
    <3>1. /\ BufSize + 1 \in Nat \ {0} /\ 1 \in Nat \ {0}
          /\ BufSize \in Nat
          /\ Len(record) <= Len(record)
          /\ Len(record) > BufSize => BufSize <= Len(record)
      BY <2>3
    <3>2. ASSUME Len(record) > BufSize
          PROVE  SubSeq(record, 1, BufSize) \in Seq(Piece)
      BY <2>2, <3>1, <3>2, SubSeqType
    <3>3. rest \in Seq(Piece)
      BY <2>2, <2>3, <3>1, SubSeqType
    <3> QED BY <3>2, <3>3
  <2>5. buf' \in Seq(Piece)
    BY <1>8, <2>2, <2>3, <2>4 DEF ReadRecord
  <2>6. /\ <<>> \o Tail(wire[conn]) \in Seq(Seq(Piece))
        /\ <<rest>> \o Tail(wire[conn]) \in Seq(Seq(Piece))
    <3>1. <<>> \in Seq(Seq(Piece)) /\ <<rest>> \in Seq(Seq(Piece))
      BY <2>4, EmptySeq
    <3> HIDE DEF record, rest
    <3> QED BY <2>2, <3>1, ConcatProperties
  <2>7. wire' \in [Client -> Seq(Seq(Piece))]
    <3>1. \E w \in Seq(Seq(Piece)) : wire' = [wire EXCEPT ![conn] = w]
      BY <1>8, <2>6 DEF ReadRecord
    <3> QED BY <3>1
  <2> QED BY <1>8, <2>5, <2>7 DEF ReadRecord
<1>9. CASE ReadEnd
  BY <1>9 DEF ReadEnd
<1>10. CASE HandleRequest
  <2> DEFINE message == Request(buf)[1]
             arr == ProcessXml(message.doc)
  <2>1. message.msg \in Nat /\ message.doc \in Doc
    BY <1>10, WellFormedType DEF HandleRequest
  <2>2. arr \in Parsed
    BY <2>1, ProcessXmlType
  <2> HIDE DEF arr
  <2>3. CreateXmlReply(arr, device, msg_num) \in Reply
    BY CreateXmlReplyType
  <2>4. NewAddress(arr, device) \in Value
    BY <2>2, NewAddressType
  <2>5. Append(journal, [msg |-> message.msg, doc |-> message.doc])
          \in Seq(Entry)
    BY <2>1, AppendProperties DEF Entry
  <2>6. /\ client_reply' \in Reply
        /\ device' \in Value
        /\ journal' \in Seq(Entry)
    BY <1>10, <2>3, <2>4, <2>5 DEF HandleRequest, arr
  <2> QED BY <1>10, <2>6 DEF HandleRequest
<1>11. CASE ParseFailure
  BY <1>11 DEF ParseFailure
<1>12. CASE WriteReply
  <2>1. conn \in Client /\ client_reply \in Reply
    BY <1>12 DEF WriteReply
  <2>2. Append(written[conn], Sprintf(client_reply)) \in Seq(Reply)
    BY <2>1, SprintfType, AppendProperties
  <2>3. written' \in [Client -> Seq(Reply)]
    BY <1>12, <2>1, <2>2 DEF WriteReply
  <2>4. msg_num' \in (-CharMax - 1)..CharMax
    BY <1>12, NextIdType DEF WriteReply
  <2> QED BY <1>12, <2>3, <2>4 DEF WriteReply
<1>13. CASE WriteReset
  BY <1>13, NextIdType DEF WriteReset
<1>14. CASE WriteFails
  BY <1>14, NextIdType DEF WriteFails
<1>15. CASE CloseNotify
  BY <1>15 DEF CloseNotify
<1>16. CASE Exit
  BY <1>16, ProcessGoneType DEF Exit
<1>17. CASE ReturnFromMain
  BY <1>17, ProcessGoneType DEF ReturnFromMain
<1>18. ASSUME NEW c \in Client, Connect(c)
       PROVE  CoreInv'
  BY <1>18 DEF Connect
<1>19. ASSUME NEW c \in Client, NEW d \in Doc, SendMessage(c, d)
       PROVE  CoreInv'
  <2>1. Append(sent[c], d) \in Seq(Doc)
    BY <1>19, AppendProperties
  <2>2. sent' \in [Client -> Seq(Doc)]
    BY <1>19, <2>1 DEF SendMessage
  <2>3. Len(sent'[c]) \in Nat
    BY <2>2, LenProperties
  <2>4. todo[c] \o Pieces(Len(sent'[c]), d) \in Seq(Piece)
    BY <2>3, PiecesType, ConcatProperties
  <2>5. todo' \in [Client -> Seq(Piece)]
    BY <1>19, <2>4 DEF SendMessage
  <2> QED BY <1>19, <2>2, <2>5 DEF SendMessage
<1>20. ASSUME NEW c \in Client, FlushSome(c)
       PROVE  CoreInv'
  <2>1. PICK n \in 1..Len(todo[c]) : Flush(c, n)
    BY <1>20 DEF FlushSome
  <2>2. todo[c] \in Seq(Piece) /\ Len(todo[c]) \in Nat /\ n \in Nat \ {0}
    BY <2>1, LenProperties
  <2>3. /\ SubSeq(todo[c], 1, n) \in Seq(Piece)
        /\ SubSeq(todo[c], n + 1, Len(todo[c])) \in Seq(Piece)
    <3>1. /\ n \in Nat /\ n <= Len(todo[c]) /\ 1 \in Nat \ {0}
          /\ n + 1 \in Nat \ {0} /\ Len(todo[c]) <= Len(todo[c])
      BY <2>1, <2>2
    <3>2. SubSeq(todo[c], 1, n) \in Seq(Piece)
      BY <2>2, <3>1, SubSeqType
    <3>3. SubSeq(todo[c], n + 1, Len(todo[c])) \in Seq(Piece)
      BY <2>2, <3>1, SubSeqType
    <3> QED BY <3>2, <3>3
  <2>4. Append(wire[c], SubSeq(todo[c], 1, n)) \in Seq(Seq(Piece))
    BY <2>3, AppendProperties
  <2>5. /\ wire' \in [Client -> Seq(Seq(Piece))]
        /\ todo' \in [Client -> Seq(Piece)]
    BY <2>1, <2>3, <2>4 DEF Flush
  <2> QED BY <2>1, <2>5 DEF Flush
<1>21. ASSUME NEW c \in Client, Close(c)
       PROVE  CoreInv'
  BY <1>21 DEF Close
<1>22. ASSUME NEW c \in Client, Die(c)
       PROVE  CoreInv'
  BY <1>22, DisconnectType DEF Die
<1>23. CASE UNCHANGED vars
  BY <1>23 DEF vars
<1> QED
  BY <1>1, <1>2, <1>3, <1>4, <1>5, <1>6, <1>7, <1>8, <1>9, <1>10, <1>11,
     <1>12, <1>13, <1>14, <1>15, <1>16, <1>17, <1>18, <1>19, <1>20, <1>21,
     <1>22, <1>23
  DEF Next, ServerStep, ServerAlone, ClientStep

\* CoreInv is an invariant of the server with its clients.
THEOREM CoreCorrect == Spec => []CoreInv
<1>1. Init => CoreInv
  BY CoreInit
<1>2. CoreInv /\ [Next]_vars => CoreInv'
  BY CoreStep
<1> QED BY <1>1, <1>2, PTL DEF Spec

\* Every variable keeps its type; the counter stays a char however many
\* messages a session has (network.c:207, 273).
THEOREM TypeCorrect == Spec => []TypeOK
<1>1. CoreInv => TypeOK
  BY DEF CoreInv
<1> QED BY <1>1, CoreCorrect, PTL

\* No session is served through another connection's handshake, although one
\* ssl context serves them all (network.c:174-206).
THEOREM ContextCorrect == Spec => []ContextServesConnection
<1>1. CoreInv => ContextServesConnection
  BY DEF CoreInv, ContextAtLabel, ContextServesConnection
<1> QED BY <1>1, CoreCorrect, PTL

-----------------------------------------------------------------------------
(* No connection is left behind.                                           *)

\* What makes NoOrphanConnection inductive: the backlog holds a connection
\* once, never the one being served, and only while its client still waits
\* or has given up.
BacklogWaits ==
  /\ \A i \in 1..Len(backlog) :
       /\ cst[backlog[i]] \in {"queued", "dead"}
       /\ backlog[i] # conn
  /\ \A i, j \in 1..Len(backlog) : backlog[i] = backlog[j] => i = j
  /\ conn # NoClient => cst[conn] # "new"

ConnectionInv == BacklogWaits /\ NoOrphanConnection

LEMMA ConnectionInit == Init => ConnectionInv
BY DEF Init, ConnectionInv, BacklogWaits, NoOrphanConnection

LEMMA ConnectionStep ==
  ASSUME CoreInv, ConnectionInv, [Next]_vars
  PROVE  ConnectionInv'
<1> USE DEF ConnectionInv, BacklogWaits, NoOrphanConnection
<1>0. /\ cst \in [Client -> ConnState]
      /\ backlog \in Seq(Client)
      /\ conn \in Client \cup {NoClient}
      /\ NoClient \notin Client
      /\ Len(backlog) \in Nat
      /\ \A i \in 1..Len(backlog) : backlog[i] \in Client
  BY ServerAssumption, LenProperties, ElementOfSeq DEF CoreInv, TypeOK
<1>1. CASE UNCHANGED <<backlog, conn, cst>>
  BY <1>1
<1>2. CASE Reset
  BY <1>0, <1>2 DEF Reset, Disconnect
<1>3. CASE Accept
  <2>1. conn = NoClient
    BY <1>3 DEF Accept, CoreInv, ContextAtLabel
  <2>2. /\ conn' = backlog[1]
        /\ backlog' = Tail(backlog)
        /\ cst' = cst
        /\ 1 \in 1..Len(backlog)
    BY <1>0, <1>3, EmptySeq DEF Accept, clients
  <2>3. /\ Len(backlog') = Len(backlog) - 1
        /\ \A i \in 1..Len(backlog') : backlog'[i] = backlog[i + 1]
    BY <1>0, <1>3, <2>2, HeadTailProperties DEF Accept
  <2>4. \A i \in 1..Len(backlog') : i + 1 \in 1..Len(backlog) /\ i + 1 # 1
    BY <1>0, <2>3
  <2>5. BacklogWaits'
    BY <1>0, <2>2, <2>3, <2>4
  <2>6. ASSUME NEW c \in Client, cst[c] \in {"queued", "up", "closed"}
        PROVE  c = conn' \/ \E i \in 1..Len(backlog') : backlog'[i] = c
    <3>1. PICK i \in 1..Len(backlog) : backlog[i] = c
      BY <1>0, <2>1, <2>6
    <3>2. CASE i = 1
      BY <2>2, <3>1, <3>2
    <3>3. CASE i # 1
      <4>1. i - 1 \in 1..Len(backlog') /\ (i - 1) + 1 = i
        BY <1>0, <2>3, <3>3
      <4>2. backlog'[i - 1] = backlog[(i - 1) + 1]
        BY <2>3, <4>1
      <4>3. backlog'[i - 1] = c
        BY <3>1, <4>1, <4>2
      <4> QED BY <4>1, <4>3
    <3> QED BY <3>2, <3>3
  <2> QED BY <2>2, <2>5, <2>6
<1>4. CASE Handshake
  BY <1>0, <1>4 DEF Handshake, CoreInv, ContextAtLabel, ConnState
<1>5. CASE ProcessGone
  BY <1>0, <1>5 DEF ProcessGone, Disconnect
<1>6. ASSUME NEW c \in Client, Connect(c)
      PROVE  ConnectionInv'
  <2>1. /\ cst[c] = "new"
        /\ cst' = [cst EXCEPT ![c] = "queued"]
        /\ backlog' = Append(backlog, c)
        /\ conn' = conn
    BY <1>6 DEF Connect
  <2>2. /\ Len(backlog') = Len(backlog) + 1
        /\ \A i \in 1..Len(backlog) : backlog'[i] = backlog[i]
        /\ backlog'[Len(backlog) + 1] = c
    BY <1>0, <2>1, AppendProperties
  <2>3. c # conn /\ \A i \in 1..Len(backlog) : backlog[i] # c
    BY <1>0, <2>1
  <2>4. \A i \in 1..Len(backlog') : i \in 1..Len(backlog) \/ i = Len(backlog) + 1
    BY <1>0, <2>2
  <2>5. BacklogWaits'
    BY <1>0, <2>1, <2>2, <2>3, <2>4
  <2>6. NoOrphanConnection'
    BY <1>0, <2>1, <2>2
  <2> QED BY <2>5, <2>6
<1>7. ASSUME NEW c \in Client, Close(c)
      PROVE  ConnectionInv'
  BY <1>0, <1>7 DEF Close, server
<1>8. ASSUME NEW c \in Client, Die(c)
      PROVE  ConnectionInv'
  BY <1>0, <1>8 DEF Die, Disconnect, server
<1>9. CASE UNCHANGED vars
  BY <1>1, <1>9 DEF vars, server, clients
<1>10. CASE ServerStep
  BY <1>1, <1>2, <1>3, <1>4, <1>5, <1>10
  DEF ServerStep, ServerAlone, StartupCall, StartupFails, AcceptFails, HandshakeFails,
      ReadRecord, ReadEnd, HandleRequest, ParseFailure, WriteReply,
      WriteReset, WriteFails, CloseNotify, Exit, ReturnFromMain, clients
<1>11. ASSUME NEW c \in Client, ClientStep(c)
       PROVE  ConnectionInv'
  BY <1>1, <1>6, <1>7, <1>8, <1>11
  DEF ClientStep, SendMessage, FlushSome, Flush, server
<1> QED BY <1>9, <1>10, <1>11 DEF Next

\* However a session ends, its socket was closed before the next connection
\* is accepted: none is forgotten with its client still waiting
\* (network.c:174, 182, 309).
THEOREM NoOrphans == Spec => []NoOrphanConnection
<1>1. Init => ConnectionInv
  BY ConnectionInit
<1>2. CoreInv /\ ConnectionInv /\ [Next]_vars => ConnectionInv'
  BY ConnectionStep
<1>3. ConnectionInv => NoOrphanConnection
  BY DEF ConnectionInv
<1> QED BY <1>1, <1>2, <1>3, CoreCorrect, PTL DEF Spec

-----------------------------------------------------------------------------
(* The service computes with the operators of NetconfRequest, as the       *)
(* server does: the instance's copies are the same operators.              *)

LEMMA SameParsing ==
  ASSUME NEW d, NEW array, NEW key
  PROVE  /\ Service!ProcessXml(d) = ProcessXml(d)
         /\ Service!HasKey(array, key) = HasKey(array, key)
         /\ Service!ValueOf(array, key) = ValueOf(array, key)
         /\ Service!SetsAddress(array) = SetsAddress(array)
BY DEF Service!ProcessXml, ProcessXml, Service!HasKey, HasKey, Service!Hits,
       Hits, Service!ValueOf, ValueOf, Service!FirstOf, FirstOf,
       Service!SetsAddress, SetsAddress

LEMMA SameReplies ==
  ASSUME NEW array, NEW ip, NEW id, NEW n, NEW reply
  PROVE  /\ Service!CreateXmlReply(array, ip, id) = CreateXmlReply(array, ip, id)
         /\ Service!CharOf(n) = CharOf(n)
         /\ Service!Sprintf(reply) = Sprintf(reply)
         /\ Service!NoReply = NoReply
         /\ Service!EmptyReply = EmptyReply
BY DEF Service!CreateXmlReply, CreateXmlReply, Service!CharOf, CharOf,
       Service!HasKey, HasKey, Service!Hits, Hits, Service!Sprintf, Sprintf,
       Service!HelloReply, HelloReply, Service!SchemaReply, SchemaReply,
       Service!ModulesReply, ModulesReply, Service!SchemasReply, SchemasReply,
       Service!OkReply, OkReply, Service!EmptyReply, EmptyReply,
       Service!NoReply, NoReply, Service!DataReply, DataReply,
       Service!Fixed, Fixed, Service!NoText, NoText

-----------------------------------------------------------------------------
(* The abstract service's view of one more request.                        *)

\* The last of a nonempty set of positions is in the set.
LEMMA LastOfIsLast ==
  ASSUME NEW n \in Nat, NEW S, S \subseteq 1..n, S # {}
  PROVE  /\ Service!LastOf(S) \in S
         /\ \A j \in S : j <= Service!LastOf(S)
BY LargestExists DEF Service!LastOf

\* Executing one more request changes the address exactly as NewAddress, the
\* code's step, does.
LEMMA AddressAfterAppend ==
  ASSUME NEW docs \in Seq(Doc), NEW d \in Doc
  PROVE  Service!AddressAfter(Append(docs, d))
           = NewAddress(ProcessXml(d), Service!AddressAfter(docs))
<1> DEFINE more == Append(docs, d)
           n == Len(docs)
<1>1. /\ n \in Nat
      /\ Len(more) = n + 1
      /\ \A k \in 1..n : more[k] = docs[k]
      /\ more[n + 1] = d
  BY LenProperties, AppendProperties
<1> HIDE DEF more, n
<1>2. Service!Edits(docs) \subseteq 1..n
  BY DEF Service!Edits, n
<1>3. CASE SetsAddress(ProcessXml(d))
  <2>1. n + 1 \in Service!Edits(more) /\ Service!Edits(more) \subseteq 1..n + 1
    BY <1>1, <1>3, SameParsing DEF Service!Edits
  <2>2. Service!LastOf(Service!Edits(more)) = n + 1
    <3>1. /\ Service!LastOf(Service!Edits(more)) \in 1..n + 1
          /\ n + 1 <= Service!LastOf(Service!Edits(more))
      BY <1>1, <2>1, LastOfIsLast
    <3> QED BY <1>1, <3>1
  <2>3. Service!AddressAfter(more) = ValueOf(ProcessXml(d), "IP_ADDRESS")
    BY <1>1, <2>1, <2>2, SameParsing DEF Service!AddressAfter
  <2> QED BY <1>3, <2>3 DEF NewAddress, more
<1>4. CASE ~ SetsAddress(ProcessXml(d))
  <2>1. Service!Edits(more) = Service!Edits(docs)
    BY <1>1, <1>4, SameParsing DEF Service!Edits, n
  <2>2. CASE Service!Edits(docs) = {}
    BY <1>4, <2>1, <2>2 DEF Service!AddressAfter, NewAddress, more
  <2>3. CASE Service!Edits(docs) # {}
    <3>1. Service!LastOf(Service!Edits(docs)) \in 1..n
      BY <1>1, <1>2, <2>3, LastOfIsLast
    <3>2. more[Service!LastOf(Service!Edits(docs))]
            = docs[Service!LastOf(Service!Edits(docs))]
      BY <1>1, <3>1
    <3> QED BY <1>4, <2>1, <2>3, <3>2 DEF Service!AddressAfter, NewAddress, more
  <2> QED BY <2>2, <2>3
<1> QED BY <1>3, <1>4

\* The reply due to one more request is the one create_xml_reply chooses
\* from the address before it and the counter.
LEMMA ReplyDueAppend ==
  ASSUME NEW docs \in Seq(Doc), NEW d \in Doc
  PROVE  Service!ReplyDue(Append(docs, d))
           = CreateXmlReply(ProcessXml(d), Service!AddressAfter(docs),
                            CharOf(Len(docs)))
<1>1. /\ Len(Append(docs, d)) = Len(docs) + 1
      /\ Append(docs, d)[Len(docs) + 1] = d
      /\ Len(docs) \in Nat
  BY LenProperties, AppendProperties
<1>2. Len(Append(docs, d)) - 1 = Len(docs)
  BY <1>1
<1> QED
  BY <1>1, <1>2, AddressAfterAppend, ReplyIgnoresOwnEdit, SameParsing,
     SameReplies
  DEF Service!ReplyDue

-----------------------------------------------------------------------------
(* A connection that was not served yet has no replies.                    *)

\* Replies are written only in a session, and a session never goes back to
\* waiting for a handshake.
UnservedIsEmpty ==
  /\ \A c \in Client : cst[c] \in {"new", "queued"} => written[c] = <<>>
  /\ pc \in InSession => cst[conn] \notin {"new", "queued"}

LEMMA UnservedInit == Init => UnservedIsEmpty
BY DEF Init, UnservedIsEmpty, InSession

LEMMA UnservedStep ==
  ASSUME CoreInv, ConnectionInv, UnservedIsEmpty, [Next]_vars
  PROVE  UnservedIsEmpty'
<1> USE DEF UnservedIsEmpty, InSession
<1>0. /\ cst \in [Client -> ConnState]
      /\ written \in [Client -> Seq(Reply)]
      /\ conn \in Client \cup {NoClient}
      /\ NoClient \notin Client
      /\ pc \in InSession \cup {"handshake"} => conn \in Client
      /\ pc = "handshake" => peer = NoClient
      /\ conn # NoClient => cst[conn] # "new"
  BY ServerAssumption
  DEF CoreInv, TypeOK, ContextAtLabel, ConnectionInv, BacklogWaits
<1>1. CASE /\ UNCHANGED <<cst, conn, written>>
           /\ pc' \in InSession => pc \in InSession
  BY <1>1
<1>2. ASSUME NEW S, NEW how \in {"dead", "dropped"}, Disconnect(S, how),
             UNCHANGED <<written, conn, pc>>
      PROVE  UnservedIsEmpty'
  BY <1>0, <1>2 DEF Disconnect
<1>3. ASSUME NEW S, NEW how \in {"dead", "dropped"}, Disconnect(S, how),
             UNCHANGED written, pc' \notin InSession
      PROVE  UnservedIsEmpty'
  BY <1>0, <1>3 DEF Disconnect
<1>4. CASE Handshake
  BY <1>0, <1>4 DEF Handshake
<1>5. CASE WriteReply
  BY <1>0, <1>5 DEF WriteReply, clients
<1>6. CASE Reset
  BY <1>3, <1>6 DEF Reset
<1>7. CASE Exit \/ ReturnFromMain
  BY <1>3, <1>7 DEF Exit, ReturnFromMain, ProcessGone
<1>8. CASE Accept
  BY <1>8 DEF Accept, clients
<1>9. CASE ServerStep
  BY <1>1, <1>4, <1>5, <1>6, <1>7, <1>8, <1>9
  DEF ServerStep, ServerAlone, StartupCall, StartupFails, AcceptFails, HandshakeFails,
      ReadRecord, ReadEnd, HandleRequest, ParseFailure, WriteReset,
      WriteFails, CloseNotify, clients
<1>10. ASSUME NEW c \in Client, ClientStep(c)
       PROVE  UnservedIsEmpty'
  <2>1. CASE Connect(c)
    BY <1>0, <2>1 DEF Connect
  <2>2. CASE Close(c)
    BY <1>0, <2>2 DEF Close, server
  <2>3. CASE Die(c)
    BY <1>2, <2>3 DEF Die, server
  <2> QED
    BY <1>1, <1>10, <2>1, <2>2, <2>3
    DEF ClientStep, SendMessage, FlushSome, Flush, server
<1>11. CASE UNCHANGED vars
  BY <1>1, <1>11 DEF vars, server, clients
<1> QED BY <1>9, <1>10, <1>11 DEF Next

-----------------------------------------------------------------------------
(* The session.                                                            *)

\* While a reply is being written it is the one due.
ReplyIsDue == pc = "write" => client_reply = Service!ReplyDue(Executed)

SessionInv == SessionState /\ RepliesMatchRequests /\ ReplyIsDue

LEMMA SessionInit == Init => SessionInv
BY DEF Init, SessionInv, SessionState, RepliesMatchRequests, ReplyIsDue,
       InSession

LEMMA ExecutedType ==
  ASSUME journal \in Seq(Entry)
  PROVE  Executed \in Seq(Doc) /\ Len(Executed) = Len(journal)
<1>1. Len(journal) \in Nat
  BY LenProperties
<1>2. \A k \in 1..Len(journal) : journal[k].doc \in Doc
  <2>1. \A k \in 1..Len(journal) : journal[k] \in Entry
    BY ElementOfSeq
  <2> QED BY <2>1 DEF Entry
<1>3. Executed \in [1..Len(journal) -> Doc]
  BY <1>2 DEF Executed
<1> QED BY <1>1, <1>3, SeqDef, LenProperties

LEMMA ExecutedAppend ==
  ASSUME journal \in Seq(Entry), NEW e \in Entry, journal' = Append(journal, e)
  PROVE  Executed' = Append(Executed, e.doc)
<1>1. Executed \in Seq(Doc) /\ Len(Executed) = Len(journal)
  BY ExecutedType
<1>2. /\ Len(journal) \in Nat
      /\ Len(journal') = Len(journal) + 1
      /\ \A k \in 1..Len(journal) : journal'[k] = journal[k]
      /\ journal'[Len(journal) + 1] = e
  BY LenProperties, AppendProperties
<1>3. e.doc \in Doc
  BY DEF Entry
<1>4. /\ Len(Append(Executed, e.doc)) = Len(journal) + 1
      /\ \A k \in 1..Len(journal) : Append(Executed, e.doc)[k] = Executed[k]
      /\ Append(Executed, e.doc)[Len(journal) + 1] = e.doc
      /\ Append(Executed, e.doc) \in Seq(Doc)
  BY <1>1, <1>3, AppendProperties
<1>5. \A k \in 1..Len(journal) + 1 :
        journal'[k].doc = Append(Executed, e.doc)[k]
  <2>1. \A k \in 1..Len(journal) : Executed[k] = journal[k].doc
    BY DEF Executed
  <2> QED BY <1>2, <1>4, <2>1
<1>6. DOMAIN Append(Executed, e.doc) = 1..Len(journal) + 1
  BY <1>4, LenProperties
<1>7. Append(Executed, e.doc)
        = [k \in 1..Len(journal) + 1 |-> Append(Executed, e.doc)[k]]
  BY <1>4, <1>6, LenProperties
<1> QED BY <1>2, <1>5, <1>7 DEF Executed

\* The first requests of a journal are the same after one more.
LEMMA PrefixOfAppend ==
  ASSUME NEW docs \in Seq(Doc), NEW d \in Doc, NEW k \in 1..Len(docs)
  PROVE  SubSeq(Append(docs, d), 1, k) = SubSeq(docs, 1, k)
<1>1. /\ Append(docs, d) \in Seq(Doc)
      /\ Len(Append(docs, d)) = Len(docs) + 1
      /\ \A i \in 1..Len(docs) : Append(docs, d)[i] = docs[i]
      /\ Len(docs) \in Nat
  BY AppendProperties, LenProperties
<1>2. k \in Nat /\ 1 \in Nat \ {0} /\ k <= Len(docs) /\ 1 <= k
      /\ k <= Len(Append(docs, d))
  BY <1>1
<1>3. /\ SubSeq(docs, 1, k) \in Seq(Doc)
      /\ Len(SubSeq(docs, 1, k)) = k - 1 + 1
      /\ \A i \in 1..(k - 1 + 1) : SubSeq(docs, 1, k)[i] = docs[1 + i - 1]
  BY <1>2, SubSeqType
<1>4. /\ SubSeq(Append(docs, d), 1, k) \in Seq(Doc)
      /\ Len(SubSeq(Append(docs, d), 1, k)) = k - 1 + 1
      /\ \A i \in 1..(k - 1 + 1) :
           SubSeq(Append(docs, d), 1, k)[i] = Append(docs, d)[1 + i - 1]
  BY <1>1, <1>2, SubSeqType
<1>5. \A i \in 1..k : SubSeq(Append(docs, d), 1, k)[i] = SubSeq(docs, 1, k)[i]
  BY <1>1, <1>2, <1>3, <1>4
<1>6. Len(SubSeq(docs, 1, k)) = k /\ Len(SubSeq(Append(docs, d), 1, k)) = k
  BY <1>2, <1>3, <1>4
<1> QED BY <1>3, <1>4, <1>5, <1>6, SeqEqual

\* Executing a request: the address and the reply are the service's.
LEMMA HandleRequestStep ==
  ASSUME CoreInv, SessionInv, HandleRequest
  PROVE  SessionInv'
<1> DEFINE message == Request(buf)[1]
           e == [msg |-> message.msg, doc |-> message.doc]
<1>1. /\ pc = "handle" /\ pc' = "write"
      /\ buf \in Seq(Piece)
      /\ WellFormed(Request(buf))
      /\ journal \in Seq(Entry)
      /\ written \in [Client -> Seq(Reply)]
      /\ conn \in Client
      /\ Len(written[conn]) \in Nat
      /\ UNCHANGED <<conn, written, msg_num>>
  BY LenProperties
  DEF HandleRequest, CoreInv, TypeOK, ContextAtLabel, InSession
<1>2. message.msg \in Nat /\ message.doc \in Doc
  BY <1>1, WellFormedType
<1>3. /\ journal' = Append(journal, e)
      /\ client_reply' = CreateXmlReply(ProcessXml(message.doc), device, msg_num)
      /\ device' = NewAddress(ProcessXml(message.doc), device)
  BY DEF HandleRequest
<1>4. e \in Entry /\ e.doc = message.doc
  BY <1>2 DEF Entry
<1> HIDE DEF message, e
<1>5. Executed' = Append(Executed, message.doc)
  BY <1>1, <1>3, <1>4, ExecutedAppend
<1>6. Executed \in Seq(Doc) /\ Len(Executed) = Len(journal)
  BY <1>1, ExecutedType
<1>7. /\ device = Service!AddressAfter(Executed)
      /\ msg_num = CharOf(Len(written[conn]))
      /\ Len(journal) = Len(written[conn])
      /\ \A k \in 1..Len(written[conn]) :
           written[conn][k] = Sprintf(Service!ReplyDue(SubSeq(Executed, 1, k)))
  BY <1>1 DEF SessionInv, SessionState, RepliesMatchRequests, InSession
<1>8. Len(journal') = Len(journal) + 1
  BY <1>1, <1>3, <1>4, AppendProperties
<1>9. SessionState'
  BY <1>1, <1>2, <1>3, <1>5, <1>6, <1>7, AddressAfterAppend DEF SessionState
<1>10. ReplyIsDue'
  BY <1>2, <1>3, <1>5, <1>6, <1>7, ReplyDueAppend DEF ReplyIsDue
<1>11. \A k \in 1..Len(written[conn]) :
         SubSeq(Executed', 1, k) = SubSeq(Executed, 1, k)
  BY <1>2, <1>5, <1>6, <1>7, PrefixOfAppend
<1>12. RepliesMatchRequests'
  BY <1>1, <1>7, <1>8, <1>11 DEF RepliesMatchRequests
<1> QED BY <1>9, <1>10, <1>12 DEF SessionInv

\* Writing the reply: it is the one due, and the counter still counts.
LEMMA WriteReplyStep ==
  ASSUME CoreInv, SessionInv, WriteReply
  PROVE  SessionInv'
<1> DEFINE n == Len(written[conn])
<1>1. /\ pc = "write" /\ pc' = "read"
      /\ journal \in Seq(Entry)
      /\ written \in [Client -> Seq(Reply)]
      /\ conn \in Client
      /\ client_reply \in Reply
      /\ UNCHANGED <<conn, journal, device>>
      /\ written' = [written EXCEPT ![conn] = Append(@, Sprintf(client_reply))]
      /\ msg_num' = NextId(msg_num)
  BY DEF WriteReply, CoreInv, TypeOK, ContextAtLabel, ReplyInFlight, InSession
<1>2. /\ n \in Nat
      /\ written'[conn] = Append(written[conn], Sprintf(client_reply))
      /\ Len(written'[conn]) = n + 1
      /\ \A k \in 1..n : written'[conn][k] = written[conn][k]
      /\ written'[conn][n + 1] = Sprintf(client_reply)
  BY <1>1, SprintfType, LenProperties, AppendProperties
<1>3. Executed \in Seq(Doc) /\ Len(Executed) = Len(journal)
  BY <1>1, ExecutedType
<1>4. Executed' = Executed
  BY <1>1 DEF Executed
<1>5. /\ device = Service!AddressAfter(Executed)
      /\ msg_num = CharOf(n)
      /\ Len(journal) = n + 1
      /\ \A k \in 1..n :
           written[conn][k] = Sprintf(Service!ReplyDue(SubSeq(Executed, 1, k)))
      /\ client_reply = Service!ReplyDue(Executed)
  BY <1>1 DEF SessionInv, SessionState, RepliesMatchRequests, ReplyIsDue,
              InSession
<1> HIDE DEF n
<1>6. SessionState'
  BY <1>1, <1>2, <1>4, <1>5, NextIdCounts DEF SessionState
<1>7. SubSeq(Executed, 1, n + 1) = Executed
  BY <1>3, <1>5, SubSeqFull
<1>8. \A k \in 1..n + 1 : k \in 1..n \/ k = n + 1
  BY <1>2
<1>9. \A k \in 1..n + 1 : written'[conn][k]
                           = Sprintf(Service!ReplyDue(SubSeq(Executed, 1, k)))
  BY <1>2, <1>5, <1>7, <1>8
<1>10. RepliesMatchRequests'
  BY <1>1, <1>2, <1>4, <1>5, <1>9 DEF RepliesMatchRequests
<1> QED BY <1>1, <1>6, <1>10 DEF SessionInv, ReplyIsDue

LEMMA SessionStep ==
  ASSUME CoreInv, UnservedIsEmpty, SessionInv, [Next]_vars
  PROVE  SessionInv'
<1>1. CASE pc' \notin InSession
  BY <1>1 DEF SessionInv, SessionState, RepliesMatchRequests, ReplyIsDue,
              InSession
<1>2. CASE /\ UNCHANGED <<conn, device, msg_num, written, journal, client_reply>>
           /\ pc \in InSession
           /\ pc = "write" <=> pc' = "write"
  <2>1. Executed' = Executed
    BY <1>2 DEF Executed
  <2> QED
    BY <1>2, <2>1
    DEF SessionInv, SessionState, RepliesMatchRequests, ReplyIsDue
<1>3. CASE Handshake
  <2>1. /\ pc = "handshake" /\ pc' = "read"
        /\ conn \in Client /\ peer = NoClient
        /\ UNCHANGED <<conn, written>>
        /\ cst[conn] = "queued"
        /\ device' = DefaultIP /\ msg_num' = 0 /\ journal' = <<>>
    BY <1>3 DEF Handshake, CoreInv, ContextAtLabel
  <2>2. written'[conn'] = <<>> /\ Len(written'[conn']) = 0
    BY <2>1, EmptySeq DEF UnservedIsEmpty
  <2>3. Executed' = <<>>
    BY <2>1 DEF Executed
  <2>4. Service!AddressAfter(<<>>) = DefaultIP
    BY DEF Service!AddressAfter, Service!Edits
  <2>5. CharOf(0) = 0
    BY BoundTypes DEF CharOf
  <2>6. SessionState'
    BY <2>1, <2>2, <2>3, <2>4, <2>5 DEF SessionState
  <2>7. RepliesMatchRequests'
    BY <2>1, <2>2, <2>3 DEF RepliesMatchRequests
  <2> QED BY <2>1, <2>6, <2>7 DEF SessionInv, ReplyIsDue
<1>4. CASE HandleRequest
  BY <1>4, HandleRequestStep
<1>5. CASE WriteReply
  BY <1>5, WriteReplyStep
<1>6. CASE ServerStep
  BY <1>1, <1>2, <1>3, <1>4, <1>5, <1>6
  DEF ServerStep, ServerAlone, StartupCall, StartupFails, Reset, Accept, AcceptFails,
      HandshakeFails, ReadRecord, ReadEnd, ParseFailure, WriteReset,
      WriteFails, CloseNotify, Exit, ReturnFromMain, InSession
<1>7. ASSUME NEW c \in Client, ClientStep(c)
      PROVE  SessionInv'
  <2>1. UNCHANGED <<pc, conn, device, msg_num, written, journal, client_reply>>
    BY <1>7 DEF ClientStep, Connect, SendMessage, FlushSome, Flush, Close, Die,
                server
  <2> QED BY <1>1, <1>2, <2>1
<1>8. CASE UNCHANGED vars
  BY <1>1, <1>2, <1>8 DEF vars, server
<1> QED BY <1>6, <1>7, <1>8 DEF Next

\* The invariants above hold together.
THEOREM SessionCorrect ==
  Spec => [](CoreInv /\ ConnectionInv /\ UnservedIsEmpty /\ SessionInv)
<1> DEFINE Inv == CoreInv /\ ConnectionInv /\ UnservedIsEmpty /\ SessionInv
<1>1. Init => Inv
  BY CoreInit, ConnectionInit, UnservedInit, SessionInit
<1>2. Inv /\ [Next]_vars => Inv'
  BY CoreStep, ConnectionStep, UnservedStep, SessionStep
<1> QED BY <1>1, <1>2, PTL DEF Spec

\* Nothing of an earlier session is left in the device or the counter: they
\* follow from the requests and the replies of this one (network.c:207-209).
THEOREM SessionStateCorrect == Spec => []SessionState
<1>1. SessionInv => SessionState
  BY DEF SessionInv
<1> QED BY <1>1, SessionCorrect, PTL

\* Every request of a session gets one reply, the one due after the requests
\* up to it, before the next is executed (network.c:249-281).
THEOREM RepliesCorrect == Spec => []RepliesMatchRequests
<1>1. SessionInv => RepliesMatchRequests
  BY DEF SessionInv
<1> QED BY <1>1, SessionCorrect, PTL

-----------------------------------------------------------------------------
(* The server implements the abstract service, for every value of the      *)
(* constants.  Five actions of the server change what the service shows;   *)
(* every other step, and every step of a client, leaves it as it is.       *)

\* The server starts as the service does.
LEMMA InitRefines == Init => Service!Init
BY SameReplies
DEF Init, Service!Init, InSession, Ended

\* A finished handshake opens the session.
LEMMA HandshakeRefines ==
  ASSUME CoreInv, UnservedIsEmpty, Handshake
  PROVE  Service!Next
<1>1. /\ pc = "handshake" /\ pc' = "read"
      /\ conn \in Client
      /\ UNCHANGED <<conn, written>>
      /\ written[conn] = <<>>
      /\ journal' = <<>>
  BY DEF Handshake, CoreInv, ContextAtLabel, UnservedIsEmpty
<1>2. Executed' = <<>>
  BY <1>1 DEF Executed
<1>3. Service!Begin(conn)
  BY <1>1, <1>2 DEF Service!Begin, InSession, Ended
<1> QED BY <1>1, <1>3 DEF Service!Next

\* Choosing the reply to a request executes it.
LEMMA HandleRequestRefines ==
  ASSUME CoreInv, SessionInv, SessionInv', HandleRequest
  PROVE  Service!Next
<1> DEFINE message == Request(buf)[1]
           e == [msg |-> message.msg, doc |-> message.doc]
<1>1. /\ pc = "handle" /\ pc' = "write"
      /\ buf \in Seq(Piece)
      /\ WellFormed(Request(buf))
      /\ journal \in Seq(Entry)
      /\ conn \in Client
      /\ UNCHANGED <<conn, written>>
      /\ journal' = Append(journal, e)
  BY DEF HandleRequest, CoreInv, TypeOK, ContextAtLabel, InSession
<1>2. message.msg \in Nat /\ message.doc \in Doc
  BY <1>1, WellFormedType
<1>3. e \in Entry /\ e.doc = message.doc
  BY <1>2 DEF Entry
<1> HIDE DEF message, e
<1>4. Executed' = Append(Executed, message.doc)
  BY <1>1, <1>3, ExecutedAppend
<1>5. client_reply' = Service!ReplyDue(Executed')
  BY <1>1 DEF SessionInv, ReplyIsDue, Service!ReplyDue
<1>6. Service!Execute(message.doc)
  BY <1>1, <1>4, <1>5, ServerAssumption, SameReplies
  DEF Service!Execute, InSession, Ended
<1> QED BY <1>2, <1>6 DEF Service!Next

\* Writing the reply delivers it.
LEMMA WriteReplyRefines ==
  ASSUME CoreInv, WriteReply
  PROVE  Service!Next
<1>1. /\ pc = "write" /\ pc' = "read"
      /\ client_reply \in Reply /\ client_reply # EmptyReply
      /\ UNCHANGED <<conn, journal>>
      /\ written' = [written EXCEPT ![conn] = Append(@, Sprintf(client_reply))]
  BY DEF WriteReply, CoreInv, ReplyInFlight
<1>2. client_reply # NoReply
  BY <1>1 DEF Reply, ReplyKind, NoReply, Fixed
<1>3. Executed' = Executed
  BY <1>1 DEF Executed
<1>4. Service!Deliver
  BY <1>1, <1>2, <1>3, SameReplies DEF Service!Deliver, InSession, Ended
<1> QED BY <1>4 DEF Service!Next

\* Leaving the read loop, whichever way, ends the session.
LEMMA LeavingRefines ==
  ASSUME CoreInv, pc \in InSession, pc' \in Label \ (InSession \cup Ended),
         UNCHANGED written
  PROVE  Service!Next
<1>1. conn # NoClient
  BY ServerAssumption DEF CoreInv, ContextAtLabel
<1>2. Service!End
  BY <1>1, SameReplies DEF Service!End, Service!Forget, InSession, Ended
<1> QED BY <1>2 DEF Service!Next

\* The end of the process stops the service.
LEMMA StopRefines ==
  ASSUME pc \notin InSession \cup Ended, pc' \in Ended, UNCHANGED written
  PROVE  Service!Next
<1>1. Service!Stop
  BY SameReplies DEF Service!Stop, Service!Forget, InSession, Ended
<1> QED BY <1>1 DEF Service!Next

LEMMA StepRefines ==
  ASSUME CoreInv, UnservedIsEmpty, SessionInv, SessionInv', [Next]_vars
  PROVE  [Service!Next]_(Service!vars)
<1>1. CASE /\ UNCHANGED written
           /\ pc \notin InSession \cup Ended
           /\ pc' \notin InSession \cup Ended
  BY <1>1 DEF Service!vars, InSession
<1>2. CASE /\ UNCHANGED <<written, conn, journal, client_reply>>
           /\ pc \in InSession <=> pc' \in InSession
           /\ pc \in Ended <=> pc' \in Ended
           /\ pc = "write" <=> pc' = "write"
  <2>1. Executed' = Executed
    BY <1>2 DEF Executed
  <2> QED BY <1>2, <2>1 DEF Service!vars
<1>3. CASE Handshake
  BY <1>3, HandshakeRefines
<1>4. CASE HandleRequest
  BY <1>4, HandleRequestRefines
<1>5. CASE WriteReply
  BY <1>5, WriteReplyRefines
<1>6. CASE WriteReset \/ WriteFails \/ ParseFailure \/ CloseNotify
  BY <1>6, LeavingRefines
  DEF WriteReset, WriteFails, ParseFailure, CloseNotify, Label, InSession,
      Ended
<1>7. CASE Exit \/ ReturnFromMain
  BY <1>7, StopRefines
  DEF Exit, ReturnFromMain, ProcessGone, InSession, Ended
<1>8. CASE ServerStep
  BY <1>1, <1>2, <1>3, <1>4, <1>5, <1>6, <1>7, <1>8
  DEF ServerStep, ServerAlone, StartupCall, StartupFails, Reset, Accept, AcceptFails,
      HandshakeFails, ReadRecord, ReadEnd, InSession, Ended
<1>9. ASSUME NEW c \in Client, ClientStep(c)
      PROVE  [Service!Next]_(Service!vars)
  <2>1. UNCHANGED <<pc, written, conn, journal, client_reply>>
    BY <1>9 DEF ClientStep, Connect, SendMessage, FlushSome, Flush, Close, Die,
                server
  <2> QED BY <1>2, <2>1
<1>10. CASE UNCHANGED vars
  BY <1>2, <1>10 DEF vars, server
<1> QED BY <1>8, <1>9, <1>10 DEF Next

\* The server implements the service: sessions are served one at a time, each
\* request is executed once and answered before the next, and a reply follows
\* from the requests of its own session (network.c:165-297).
THEOREM Refinement == Spec => ImplementsService
<1> DEFINE Inv == CoreInv /\ ConnectionInv /\ UnservedIsEmpty /\ SessionInv
<1>1. Init => Service!Init
  BY InitRefines
<1>2. Inv /\ Inv' /\ [Next]_vars => [Service!Next]_(Service!vars)
  BY StepRefines
<1> QED
  BY <1>1, <1>2, SessionCorrect, PTL DEF Spec, ImplementsService, Service!Spec
=============================================================================
