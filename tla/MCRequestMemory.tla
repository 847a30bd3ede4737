-------------------------- MODULE MCRequestMemory --------------------------
(* Values for the constants of RequestMemory: requests of every shape that *)
(* takes memory, within the array's capacity and beyond it, nested in      *)
(* every way, with texts and comments between their elements.              *)
EXTENDS RequestMemory, SequencesExt

MCValue == {"", " ", "192.168.1.150", "10.0.0.1"}

NodeOf(depth, type, name, content) ==
  [depth |-> depth, type |-> type, name |-> name, content |-> content]
Element(depth, name) == NodeOf(depth, "element", name, "")
Text(depth, content) == NodeOf(depth, "text", "text", content)
Comment(depth) == NodeOf(depth, "other", "comment", "")

\* The names of the elements below the root, an IP_ADDRESS with its text.
Named(depth, name) ==
  IF name = "IP_ADDRESS" THEN <<Element(depth, name), Text(depth + 1, "10.0.0.1")>>
  ELSE <<Element(depth, name)>>

\* The ways n elements can be nested: the depth of each.
Shapes(n) ==
  {d \in [1..n -> 2..(n + 1)] :
     \A i \in 1..n : d[i] <= IF i = 1 THEN 2 ELSE d[i - 1] + 1}

TreesOf(root, names) ==
  {<<Element(1, root)>>
     \o FlattenSeq([i \in 1..Len(names) |-> Named(d[i], names[i])]) :
   d \in Shapes(Len(names))}

\* Pretty-printed, with a comment before one address and around the other.
Decorated ==
  {<<Element(1, "rpc"), Text(2, " "), Element(2, "edit-config"), Text(3, " "),
     Element(3, "running"), Text(3, " "), Element(3, "IP_ADDRESS"),
     Comment(4), Text(4, "10.0.0.1"), Text(3, " ")>>,
   <<Element(1, "rpc"), Element(2, "edit-config"), Element(3, "running"),
     Comment(2), Element(2, "IP_ADDRESS"), Text(3, "10.0.0.1"), Comment(3)>>,
   <<Element(1, "rpc"), Comment(2), Text(2, " ")>>}

MCTree ==
  Decorated
    \cup TreesOf("hello", <<"capability">>)
    \cup TreesOf("rpc", <<>>)
    \cup TreesOf("rpc", <<"get">>)
    \cup TreesOf("rpc", <<"get", "modules-state">>)
    \cup TreesOf("rpc", <<"edit-config", "running">>)
    \cup TreesOf("rpc", <<"edit-config", "running", "IP_ADDRESS">>)
    \cup TreesOf("rpc", <<"edit-config", "running", "abcc", "IP_ADDRESS">>)
    \cup TreesOf("rpc", <<"edit-config", "candidate", "abcc", "IP_ADDRESS">>)

MCDoc == {DocumentOf(t, "") : t \in MCTree}
=============================================================================
