--------------------------- MODULE NetconfService ---------------------------
(***************************************************************************)
(* What the server promises its clients, without sockets, buffers, TLS or  *)
(* message framing.  Clients are served one at a time.  The requests of a  *)
(* session are executed one by one, each gets one reply before the next is *)
(* executed, and a reply is a function of the requests executed so far in  *)
(* the SAME session: nothing a client does is visible to another one.      *)
(* A session may end, and the service may stop, at any moment; a reply     *)
(* that is pending then is lost.                                           *)
(***************************************************************************)
EXTENDS NetconfRequest

CONSTANTS
  Client,    \* the connections clients make, each used for one session
  NoClient   \* no session is open

VARIABLES
  running,   \* FALSE once the service has stopped
  session,   \* the client being served
  journal,   \* the documents executed in this session, in order
  pending,   \* the reply to the last one while it is not written
  written    \* the replies written on each connection

vars == <<running, session, journal, pending, written>>

-----------------------------------------------------------------------------
(* The state of a session is its journal; everything else follows.         *)

\* The requests of a journal that set the device's address.
Edits(docs) == {k \in 1..Len(docs) : SetsAddress(ProcessXml(docs[k]))}

\* The largest member of a nonempty set of positions.
LastOf(S) == CHOOSE k \in S : \A i \in S : i <= k

\* The device's address after the requests of a journal: that of the last
\* edit, or the initial one.
AddressAfter(docs) ==
  IF Edits(docs) = {} THEN DefaultIP
  ELSE ValueOf(ProcessXml(docs[LastOf(Edits(docs))]), "IP_ADDRESS")

\* The reply due to the last request of a journal.  Its message-id counts
\* the requests of the session, within the range of a char.
ReplyDue(docs) ==
  CreateXmlReply(ProcessXml(docs[Len(docs)]), AddressAfter(docs),
                 CharOf(Len(docs) - 1))

-----------------------------------------------------------------------------
Init ==
  /\ running = TRUE
  /\ session = NoClient
  /\ journal = <<>>
  /\ pending = NoReply
  /\ written = [c \in Client |-> <<>>]

\* Nothing of the session is left behind.
Forget ==
  /\ session' = NoClient
  /\ journal' = <<>>
  /\ pending' = NoReply
  /\ UNCHANGED written

Begin(c) ==
  /\ running
  /\ session = NoClient
  /\ written[c] = <<>>
  /\ session' = c
  /\ UNCHANGED <<running, journal, pending, written>>

Execute(d) ==
  /\ session # NoClient
  /\ pending = NoReply
  /\ journal' = Append(journal, d)
  /\ pending' = ReplyDue(journal')
  /\ UNCHANGED <<running, session, written>>

Deliver ==
  /\ pending \notin {NoReply, EmptyReply}
  /\ written' = [written EXCEPT ![session] = Append(@, Sprintf(pending))]
  /\ pending' = NoReply
  /\ UNCHANGED <<running, session, journal>>

End ==
  /\ session # NoClient
  /\ Forget
  /\ UNCHANGED running

Stop ==
  /\ running
  /\ running' = FALSE
  /\ Forget

Next ==
  \/ \E c \in Client : Begin(c)
  \/ \E d \in Doc : Execute(d)
  \/ Deliver
  \/ End
  \/ Stop

Spec == Init /\ [][Next]_vars
=============================================================================
