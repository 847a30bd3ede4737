-------------------------- MODULE MCNetconfServer --------------------------
(* Values for the constants of NetconfServer, small enough for TLC.        *)
EXTENDS NetconfServer, TLC

Elem(key) == [key |-> key, value |-> ""]
Address(ip) == [key |-> "IP_ADDRESS", value |-> ip]
Rpc(elems, size) == [root |-> "rpc", elems |-> elems, size |-> size]

\* 1: an address copied as it is; %: an address with a zone index.
MCValue == {"", "192.168.1.150", "10.0.0.1", "fe80::1%e"}
MCPlain == MCValue \ {"fe80::1%e"}
MCGarbled == "?"

Hello == [root |-> "hello", elems |-> <<Elem("capability")>>, size |-> 1]
Get == Rpc(<<Elem("get")>>, 1)
Edit(ip) == Rpc(<<Elem("edit-config"), Elem("running"), Address(ip)>>, 2)
\* The address comes after the last pair the array has room for.
LateEdit == Rpc(<<Elem("edit-config"), Elem("running"), Elem("abcc"),
                  Address("10.0.0.1")>>, 2)
CandidateEdit == Rpc(<<Elem("edit-config"), Elem("candidate"),
                       Address("10.0.0.1")>>, 2)
Lock == Rpc(<<Elem("lock")>>, 1)

SessionDocs == {Hello, Get, Edit("10.0.0.1"), Edit("fe80::1%e"), LateEdit,
                CandidateEdit, Lock}
EditDocs == {Get, Edit("10.0.0.1")}
LivenessDocs == {Hello, Edit("10.0.0.1"), Lock}
FramingDocs == {Get, Edit("10.0.0.1")}

Symmetry == Permutations(Client)
=============================================================================
