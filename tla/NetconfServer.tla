---------------------------- MODULE NetconfServer ----------------------------
(***************************************************************************)
(* mbed_ssl_server (networking/network.c) with the connections of its      *)
(* clients: start-up, the accept / handshake / read / reply / close cycle, *)
(* and the two ways out of the process.  The server is one thread that     *)
(* blocks in accept, handshake and read; a pc label stands for the         *)
(* statement it is about to execute.                                       *)
(*                                                                         *)
(* What the clients, TCP and the mbedTLS library do is modelled from the   *)
(* way network.c uses them.  A NETCONF message is cut into pieces: `size`  *)
(* pieces of body, then the delimiter ]]>]]> in two pieces.  A client      *)
(* packs pieces into TLS records; one mbedtls_ssl_read returns the next    *)
(* pieces of ONE record, at most BufSize of them.  MBEDTLS_ERR_SSL_WANT_*  *)
(* repeats the call, which is a stuttering step.                           *)
(***************************************************************************)
EXTENDS NetconfRequest

CONSTANTS
  Client,         \* the connections clients make, each used for one session
  NoClient,       \* no connection
  BufSize,        \* pieces that fit the read buffer
  MaxMessages,    \* bound: messages a client sends on a connection
  WholeMessages,  \* TRUE: clients put exactly one whole message in a record
  Faults          \* the library calls that may fail with no peer at fault

ASSUME ServerAssumption ==
  /\ NoClient \notin Client
  /\ BufSize \in Nat \ {0}
  /\ MaxMessages \in Nat
  /\ WholeMessages \in BOOLEAN
  /\ Faults \subseteq {"startup", "accept", "handshake", "read", "write"}

VARIABLES
  pc,            \* the statement the server executes next
  booted,        \* how many of the start-up calls have succeeded
  backlog,       \* connections the kernel completed and nobody accepted yet
  conn,          \* the connection in client_fd
  peer,          \* whose handshake the ssl context holds; NoClient when reset
  buf,           \* the pieces of text in buf
  device,        \* device.IP_ADDRESS
  msg_num,       \* the counter of the session's messages, a char
  client_reply,  \* the reply being written
  cst,           \* each connection as its client sees it
  todo,          \* pieces a client has yet to put in a record
  wire,          \* records on their way to the server
  written,       \* replies the server has written on each connection
  sent,          \* history: the messages sent on each connection
  journal        \* history: the messages executed in this session

server == <<pc, booted, backlog, conn, peer, buf, device, msg_num,
            client_reply, journal>>
clients == <<cst, todo, wire, sent>>
vars == <<server, clients, written>>

-----------------------------------------------------------------------------
(* Messages on the wire.                                                   *)

Piece == [msg : Nat, doc : Doc, part : Nat]

\* A message in the journal: its position among those sent, and its document.
Entry == [msg : Nat, doc : Doc]

\* The text of the i-th message of a connection.
Pieces(i, d) == [p \in 1..(d.size + 2) |-> [msg |-> i, doc |-> d, part |-> p]]

\* Where strstr(buf, "]]>]]>") finds the delimiter: its first piece followed
\* by its second.
Delimiters(text) ==
  {j \in 1..(Len(text) - 1) : /\ text[j].part = text[j].doc.size + 1
                              /\ text[j + 1].part = text[j + 1].doc.size + 2}

Request_KeepsDelimiter(text) == text

\* What parse_xml hands to xmlReadMemory.
Request(text) ==
  IF Delimiters(text) = {} THEN text
  ELSE SubSeq(text, 1, FirstOf(Delimiters(text)) - 1)

\* xmlReadMemory returns a document exactly when the text is one body, from
\* its first piece to its last, and nothing else.
WellFormed(text) ==
  /\ text # <<>>
  /\ Len(text) = text[1].doc.size
  /\ \A j \in 1..Len(text) : text[j].msg = text[1].msg /\ text[j].part = j

-----------------------------------------------------------------------------
(* The labels of mbed_ssl_server.                                          *)

StartupCalls == 8   \* seed, CA cert, cert, key, bind, defaults, own_cert, setup
BindCall == 5       \* the listening socket exists once this call is done

InSession == {"read", "handle", "write", "close"}
Ended == {"exited", "terminated"}
Label == {"startup", "reset", "accept", "handshake", "exit", "returned"}
           \cup InSession \cup Ended

ConnState == {"new", "queued", "up", "closed", "dead", "dropped"}

Listening == booted >= BindCall

Init ==
  /\ pc = "startup"
  /\ booted = 0
  /\ backlog = <<>>
  /\ conn = NoClient
  /\ peer = NoClient
  /\ buf = <<>>
  /\ device = DefaultIP
  /\ msg_num = 0
  /\ client_reply = NoReply
  /\ cst = [c \in Client |-> "new"]
  /\ todo = [c \in Client |-> <<>>]
  /\ wire = [c \in Client |-> <<>>]
  /\ written = [c \in Client |-> <<>>]
  /\ sent = [c \in Client |-> <<>>]
  /\ journal = <<>>

\* The connections in S are gone: nothing more arrives on them.  A client
\* that still waited is left in the state `how`: "dead" when it gave up
\* itself, "dropped" when the server did.
Disconnect(S, how) ==
  /\ cst' = [c \in Client |-> IF c \notin S THEN cst[c]
                            ELSE IF cst[c] \in {"queued", "up"} THEN how
                            ELSE "dead"]
  /\ todo' = [c \in Client |-> IF c \in S THEN <<>> ELSE todo[c]]
  /\ wire' = [c \in Client |-> IF c \in S THEN <<>> ELSE wire[c]]
  /\ UNCHANGED sent

-----------------------------------------------------------------------------
(* Start-up, accept and handshake.                                         *)

StartupCall ==
  /\ pc = "startup"
  /\ booted' = booted + 1
  /\ pc' = IF booted' = StartupCalls THEN "reset" ELSE "startup"
  /\ UNCHANGED <<backlog, conn, peer, buf, device, msg_num, client_reply,
                 journal, clients, written>>

StartupFails ==
  /\ pc = "startup"
  /\ "startup" \in Faults
  /\ pc' = "exit"
  /\ UNCHANGED <<booted, backlog, conn, peer, buf, device, msg_num,
                 client_reply, journal, clients, written>>

Reset_KeepsSession ==
  /\ pc = "reset"
  /\ Disconnect({conn}, "dropped")
  /\ conn' = NoClient
  /\ pc' = "accept"
  /\ UNCHANGED <<booted, backlog, peer, buf, device, msg_num, client_reply,
                 journal, written>>

Reset_KeepsSocket ==
  /\ pc = "reset"
  /\ conn' = NoClient
  /\ peer' = NoClient
  /\ pc' = "accept"
  /\ UNCHANGED <<booted, backlog, buf, device, msg_num, client_reply,
                 journal, clients, written>>

\* The label `reset`: close the client's socket, make the context new.
Reset ==
  /\ pc = "reset"
  /\ Disconnect({conn}, "dropped")
  /\ conn' = NoClient
  /\ peer' = NoClient
  /\ pc' = "accept"
  /\ UNCHANGED <<booted, backlog, buf, device, msg_num, client_reply,
                 journal, written>>

Accept ==
  /\ pc = "accept"
  /\ backlog # <<>>
  /\ conn' = Head(backlog)
  /\ backlog' = Tail(backlog)
  /\ pc' = "handshake"
  /\ UNCHANGED <<booted, peer, buf, device, msg_num, client_reply, journal,
                 clients, written>>

AcceptFails ==
  /\ pc = "accept"
  /\ "accept" \in Faults
  /\ pc' = "exit"
  /\ UNCHANGED <<booted, backlog, conn, peer, buf, device, msg_num,
                 client_reply, journal, clients, written>>

Handshake_KeepsDevice ==
  /\ pc = "handshake"
  /\ peer = NoClient => cst[conn] = "queued"
  /\ peer' = IF peer = NoClient THEN conn ELSE peer
  /\ cst' = [cst EXCEPT ![conn] = IF @ = "queued" THEN "up" ELSE @]
  /\ msg_num' = 0
  /\ journal' = <<>>
  /\ pc' = "read"
  /\ UNCHANGED <<booted, backlog, conn, buf, device, client_reply, todo, wire,
                 sent, written>>

\* mbedtls_ssl_handshake returns 0: the client took part, or the context
\* still holds a finished handshake and there is nothing to do.  msg_num and
\* device are initialised before the first read.
Handshake ==
  /\ pc = "handshake"
  /\ peer = NoClient => cst[conn] = "queued"
  /\ peer' = IF peer = NoClient THEN conn ELSE peer
  /\ cst' = [cst EXCEPT ![conn] = IF @ = "queued" THEN "up" ELSE @]
  /\ msg_num' = 0
  /\ device' = DefaultIP
  /\ journal' = <<>>
  /\ pc' = "read"
  /\ UNCHANGED <<booted, backlog, conn, buf, client_reply, todo, wire, sent,
                 written>>

HandshakeFails ==
  /\ pc = "handshake"
  /\ cst[conn] # "queued" \/ "handshake" \in Faults
  /\ pc' = "reset"
  /\ UNCHANGED <<booted, backlog, conn, peer, buf, device, msg_num,
                 client_reply, journal, clients, written>>

-----------------------------------------------------------------------------
(* The read loop.                                                          *)

ReadRecord_Appends ==
  /\ pc = "read"
  /\ wire[conn] # <<>>
  /\ buf' = buf \o Head(wire[conn])
  /\ wire' = [wire EXCEPT ![conn] = Tail(@)]
  /\ pc' = "handle"
  /\ UNCHANGED <<booted, backlog, conn, peer, device, msg_num, client_reply,
                 journal, cst, todo, sent, written>>

\* mbedtls_ssl_read returns data: the next pieces of the oldest record.  buf
\* was cleared, so it holds those pieces and nothing else.
ReadRecord ==
  /\ pc = "read"
  /\ wire[conn] # <<>>
  /\ LET record == Head(wire[conn])
         fits == Len(record) <= BufSize
     IN /\ buf' = IF fits THEN record ELSE SubSeq(record, 1, BufSize)
        /\ wire' = [wire EXCEPT ![conn] =
                      (IF fits THEN <<>>
                       ELSE <<SubSeq(record, BufSize + 1, Len(record))>>)
                      \o Tail(@)]
  /\ pc' = "handle"
  /\ UNCHANGED <<booted, backlog, conn, peer, device, msg_num, client_reply,
                 journal, cst, todo, sent, written>>

\* mbedtls_ssl_read returns 0 or an error: the peer closed or reset the
\* connection, or the library failed.  Every case leaves the loop, with the
\* buffer cleared.
ReadEnd ==
  /\ pc = "read"
  /\ \/ wire[conn] = <<>> /\ cst[conn] \in {"closed", "dead"}
     \/ "read" \in Faults
  /\ buf' = <<>>
  /\ pc' = "close"
  /\ UNCHANGED <<booted, backlog, conn, peer, device, msg_num, client_reply,
                 journal, clients, written>>

HandleRequest_SilentHello ==
  /\ pc = "handle"
  /\ WellFormed(Request(buf))
  /\ LET message == Request(buf)[1]
         array == ProcessXml(message.doc)
     IN /\ client_reply' = CreateXmlReply(array, device, msg_num)
        /\ device' = NewAddress(array, device)
        /\ journal' = Append(journal, [msg |-> message.msg,
                                       doc |-> message.doc])
        /\ pc' = IF message.doc.root = "hello" THEN "read" ELSE "write"
  /\ UNCHANGED <<booted, backlog, conn, peer, buf, msg_num, clients, written>>

\* parse_xml succeeds; process_xml fills the array and create_xml_reply
\* chooses the reply and sets the device's address.
HandleRequest ==
  /\ pc = "handle"
  /\ WellFormed(Request(buf))
  /\ LET message == Request(buf)[1]
         array == ProcessXml(message.doc)
     IN /\ client_reply' = CreateXmlReply(array, device, msg_num)
        /\ device' = NewAddress(array, device)
        /\ journal' = Append(journal, [msg |-> message.msg,
                                       doc |-> message.doc])
  /\ pc' = "write"
  /\ UNCHANGED <<booted, backlog, conn, peer, buf, msg_num, clients, written>>

\* parse_xml returns -1 and mbed_ssl_server returns -1, past the label exit.
ParseFailure ==
  /\ pc = "handle"
  /\ ~ WellFormed(Request(buf))
  /\ pc' = "returned"
  /\ UNCHANGED <<booted, backlog, conn, peer, buf, device, msg_num,
                 client_reply, journal, clients, written>>

-----------------------------------------------------------------------------
(* write_to_client, and what the loop does with its result.  The counter   *)
(* advances whatever the result is.                                        *)

\* The whole reply is written; on to the next read.
WriteReply ==
  /\ pc = "write"
  /\ client_reply # EmptyReply
  /\ written' = [written EXCEPT ![conn] = Append(@, Sprintf(client_reply))]
  /\ msg_num' = NextId(msg_num)
  /\ pc' = "read"
  /\ client_reply' = NoReply
  /\ UNCHANGED <<booted, backlog, conn, peer, buf, device, journal, clients>>

WriteReset_Continues ==
  /\ pc = "write"
  /\ cst[conn] \in {"closed", "dead"}
  /\ msg_num' = NextId(msg_num)
  /\ pc' = "read"
  /\ client_reply' = NoReply
  /\ UNCHANGED <<booted, backlog, conn, peer, buf, device, journal, clients,
                 written>>

\* MBEDTLS_ERR_NET_CONN_RESET: RESET.
WriteReset ==
  /\ pc = "write"
  /\ cst[conn] \in {"closed", "dead"}
  /\ msg_num' = NextId(msg_num)
  /\ pc' = "reset"
  /\ client_reply' = NoReply
  /\ UNCHANGED <<booted, backlog, conn, peer, buf, device, journal, clients,
                 written>>

\* EXIT, for any other error.  Writing the empty reply makes
\* mbedtls_ssl_write return 0, which the loop takes for an error.
WriteFails ==
  /\ pc = "write"
  /\ client_reply = EmptyReply \/ "write" \in Faults
  /\ msg_num' = NextId(msg_num)
  /\ pc' = "exit"
  /\ client_reply' = NoReply
  /\ UNCHANGED <<booted, backlog, conn, peer, buf, device, journal, clients,
                 written>>

CloseNotify_ReadsAgain ==
  /\ pc = "close"
  /\ pc' = "read"
  /\ UNCHANGED <<booted, backlog, conn, peer, buf, device, msg_num,
                 client_reply, journal, clients, written>>

\* mbedtls_ssl_close_notify: the loop goes back to reset whether it succeeds
\* or fails.
CloseNotify ==
  /\ pc = "close"
  /\ pc' = "reset"
  /\ UNCHANGED <<booted, backlog, conn, peer, buf, device, msg_num,
                 client_reply, journal, clients, written>>

-----------------------------------------------------------------------------
(* The end of the process.                                                 *)

\* The kernel resets the connections of a process that is gone.
ProcessGone ==
  /\ Disconnect({conn} \cup {c \in Client : cst[c] = "queued"}, "dropped")
  /\ backlog' = <<>>
  /\ conn' = NoClient
  /\ peer' = NoClient
  /\ booted' = 0
  /\ UNCHANGED <<buf, device, msg_num, client_reply, journal, written>>

\* The label `exit`: free everything, mbedtls_exit(ret).
Exit ==
  /\ pc = "exit"
  /\ pc' = "exited"
  /\ ProcessGone

\* main ignores the -1 of mbed_ssl_server and returns 0; what the server
\* held is left to the operating system.
ReturnFromMain ==
  /\ pc = "returned"
  /\ pc' = "terminated"
  /\ ProcessGone

-----------------------------------------------------------------------------
(* The clients.                                                            *)

Connect(c) ==
  /\ Listening
  /\ cst[c] = "new"
  /\ cst' = [cst EXCEPT ![c] = "queued"]
  /\ backlog' = Append(backlog, c)
  /\ UNCHANGED <<pc, booted, conn, peer, buf, device, msg_num, client_reply,
                 journal, todo, wire, sent, written>>

\* The client writes a message; it need not wait for earlier replies.
SendMessage(c, d) ==
  /\ cst[c] = "up"
  /\ Len(sent[c]) < MaxMessages
  /\ WholeMessages => todo[c] = <<>>
  /\ sent' = [sent EXCEPT ![c] = Append(@, d)]
  /\ todo' = [todo EXCEPT ![c] = @ \o Pieces(Len(sent'[c]), d)]
  /\ UNCHANGED <<server, cst, wire, written>>

\* The client's TLS layer sends the first n pieces it was given as a record.
Flush(c, n) ==
  /\ cst[c] = "up"
  /\ WholeMessages => n = Len(todo[c])
  /\ wire' = [wire EXCEPT ![c] = Append(@, SubSeq(todo[c], 1, n))]
  /\ todo' = [todo EXCEPT ![c] = SubSeq(@, n + 1, Len(@))]
  /\ UNCHANGED <<server, cst, sent, written>>

FlushSome(c) == \E n \in 1..Len(todo[c]) : Flush(c, n)

\* The client has sent all it wants to and closes its side; it need not have
\* read the replies.
Close(c) ==
  /\ cst[c] = "up"
  /\ todo[c] = <<>>
  /\ cst' = [cst EXCEPT ![c] = "closed"]
  /\ UNCHANGED <<server, todo, wire, sent, written>>

\* It closes having been answered.
CloseAnswered(c) == Len(written[c]) = Len(sent[c]) /\ Close(c)

\* The client resets the connection or vanishes; what the server has not
\* read is lost.
Die(c) ==
  /\ cst[c] \in {"queued", "up", "closed"}
  /\ Disconnect({c}, "dead")
  /\ UNCHANGED <<server, written>>

\* The steps whose calls return whatever the clients do, given what is on its
\* way to the server.
ServerAlone ==
  \/ StartupCall \/ StartupFails
  \/ Reset \/ Accept \/ AcceptFails
  \/ HandshakeFails
  \/ ReadRecord \/ ReadEnd
  \/ HandleRequest \/ ParseFailure
  \/ WriteReset \/ WriteFails
  \/ CloseNotify
  \/ Exit \/ ReturnFromMain

\* A handshake returns 0 only with the client's part in it, and a blocking
\* write only once the client has taken enough of what was written before.
ServerStep == ServerAlone \/ Handshake \/ WriteReply

ClientStep(c) ==
  \/ Connect(c)
  \/ \E d \in Doc : SendMessage(c, d)
  \/ FlushSome(c)
  \/ Close(c)
  \/ Die(c)

Next == ServerStep \/ \E c \in Client : ClientStep(c)

Spec == Init /\ [][Next]_vars

\* What clients are assumed to do.  Nothing in network.c times out: a client
\* that connects and then stays silent holds the server forever in
\* mbedtls_ssl_handshake (network.c:196), one that does not read holds it in
\* mbedtls_ssl_write (network.c:274), and one that neither sends nor hangs up
\* holds it in mbedtls_ssl_read (network.c:216).  So a client whose connection
\* was accepted takes part in the handshake or goes away, takes the replies
\* or goes away, sends the rest of a message it started, and hangs up once it
\* is answered.  A client that is not answered may wait forever.
ClientFairness ==
  /\ WF_vars(Handshake)
  /\ WF_vars(WriteReply)
  /\ \A c \in Client : WF_vars(FlushSome(c)) /\ WF_vars(CloseAnswered(c))

\* The server runs whenever a call of it can return.
Fairness == WF_vars(ServerAlone) /\ ClientFairness

FairSpec == Spec /\ Fairness

-----------------------------------------------------------------------------
(* Properties.                                                             *)

\* The documents of the journal.
Executed == [k \in 1..Len(journal) |-> journal[k].doc]

\* Every variable has its type; in particular msg_num stays a char although
\* it is incremented without a bound (network.c:273).
TypeOK ==
  /\ pc \in Label
  /\ booted \in 0..StartupCalls
  /\ backlog \in Seq(Client)
  /\ conn \in Client \cup {NoClient}
  /\ peer \in Client \cup {NoClient}
  /\ buf \in Seq(Piece)
  /\ device \in Value
  /\ msg_num \in (-CharMax - 1)..CharMax
  /\ client_reply \in Reply \cup {NoReply}
  /\ cst \in [Client -> ConnState]
  /\ todo \in [Client -> Seq(Piece)]
  /\ wire \in [Client -> Seq(Seq(Piece))]
  /\ written \in [Client -> Seq(Reply)]
  /\ sent \in [Client -> Seq(Doc)]
  /\ journal \in Seq(Entry)

\* Requests are read and replies written only under a handshake made with
\* the client whose socket is open: the context reused for every connection
\* never carries one client's handshake into the session of another
\* (network.c:174-206).
ContextServesConnection ==
  pc \in InSession => conn \in Client /\ peer = conn

\* A connection that was accepted and is still open is the one in client_fd:
\* whichever way a session ended, its socket was closed before the next
\* accept overwrites client_fd (network.c:174, 309).
NoOrphanConnection ==
  \A c \in Client :
    cst[c] \in {"queued", "up", "closed"}
      => c = conn \/ \E i \in 1..Len(backlog) : backlog[i] = c

Service ==
  INSTANCE NetconfService WITH
    running <- pc \notin Ended,
    session <- IF pc \in InSession THEN conn ELSE NoClient,
    journal <- IF pc \in InSession THEN Executed ELSE <<>>,
    pending <- IF pc = "write" THEN client_reply ELSE NoReply

\* During a session the device holds the address of the session's last
\* effective edit and the counter is the number of replies written, in a
\* char: nothing survives from an earlier session (network.c:207-209).
SessionState ==
  pc \in InSession =>
    /\ device = Service!AddressAfter(Executed)
    /\ msg_num = CharOf(Len(written[conn]))

\* Each request executed got one reply before the next was read, and that
\* reply is the one due after the requests executed up to it.  At most the
\* last reply is missing, while it is being written (network.c:261-281).
RepliesMatchRequests ==
  pc \in InSession =>
    /\ Len(journal) = Len(written[conn]) + IF pc = "write" THEN 1 ELSE 0
    /\ \A k \in 1..Len(written[conn]) :
         written[conn][k] = Sprintf(Service!ReplyDue(SubSeq(Executed, 1, k)))

\* However the client's records cut its messages up, what is executed are
\* messages it sent, whole, in the order it sent them and none of them twice
\* (parse.c:12-17, network.c:214-250).
ExecutedInOrder ==
  pc \in InSession =>
    /\ \A k \in 1..Len(journal) :
         /\ journal[k].msg \in 1..Len(sent[conn])
         /\ journal[k].doc = sent[conn][journal[k].msg]
    /\ \A k \in 1..Len(journal) - 1 : journal[k].msg < journal[k + 1].msg

\* Clients put one whole message in each record, and it fits the buffer.
Framed == WholeMessages /\ \A d \in Doc : d.size + 2 <= BufSize

\* When every record holds one whole message that fits the buffer, no
\* message is skipped and none stops the server, however many are on their
\* way at once (network.c:214-253).
FramedRequestsServed ==
  Framed => /\ pc # "returned"
            /\ pc \in InSession =>
                 \A k \in 1..Len(journal) : journal[k].msg = k

\* The server implements the abstract service: a request takes effect when
\* its reply is chosen, the reply is delivered when it is written, and a
\* session ends for the service when the server leaves its read loop.
ImplementsService == Service!Spec

\* With clients as in ClientFairness, a connection in the backlog is eventually
\* accepted, unless the server ends: no way through a session leads away from
\* accept (network.c:165-190, 292-309).
EveryConnectionAccepted ==
  \A c \in Client :
    (\E i \in 1..Len(backlog) : backlog[i] = c)
      ~> (conn = c \/ pc \in Ended)

\* With clients as in ClientFairness, a message that was sent is eventually
\* answered, unless its client leaves or the server ends; the server does not
\* drop a client that waits (network.c:210-281).
EveryMessageAnswered ==
  \A c \in Client : \A i \in 1..MaxMessages :
    (Len(sent[c]) >= i)
      ~> (\/ Len(written[c]) >= i
          \/ cst[c] \in {"closed", "dead"}
          \/ pc \in Ended)

\* "Continuously read from the client" (network.c:206): with no fault of the
\* library, the loop is left only when the client leaves.
ReadsContinuously == pc \notin {"exit", "returned"}

\* The hello of the server advertises writable-running (network.h:39): the
\* running datastore a client edited is the one the next client sees.
EditsOutliveSession ==
  [][pc = "handshake" /\ pc' = "read" => device' = device]_vars
=============================================================================
