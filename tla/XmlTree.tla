------------------------------ MODULE XmlTree ------------------------------
(***************************************************************************)
(* The libxml2 tree as parsing/parse.c walks it, and the request document  *)
(* NetconfRequest computes with.  A tree is the sequence of its nodes in   *)
(* document order, each with its depth, its type ("element", "text", or    *)
(* "other": a comment, CDATA, an entity reference), its name and its       *)
(* content.  A node is its position; 0 is the NULL pointer.                *)
(***************************************************************************)
EXTENDS Integers, Sequences, FiniteSets

NullNode == 0

Node(Text) == [depth : Nat \ {0}, type : {"element", "text", "other"},
               name : STRING, content : Text]

\* The trees the library builds: the root comes first, every other node is
\* below it, and none is more than one level below the node before it.
IsTree(tree, Text) ==
  /\ tree \in Seq(Node(Text))
  /\ tree # <<>>
  /\ tree[1].depth = 1
  /\ \A n \in 2..Len(tree) : tree[n].depth \in 2..(tree[n - 1].depth + 1)

\* node->children: the next node in document order, if it is deeper.
Children(tree, node) ==
  IF node < Len(tree) /\ tree[node + 1].depth = tree[node].depth + 1
  THEN node + 1 ELSE NullNode

\* node->next: the first later node that is no deeper, if it has this depth.
NextSibling(tree, node) ==
  LET later == {n \in (node + 1)..Len(tree) : tree[n].depth <= tree[node].depth}
      first == CHOOSE n \in later : \A k \in later : n <= k
  IN IF later # {} /\ tree[first].depth = tree[node].depth
     THEN first ELSE NullNode

\* The value extract_xml finds for an element: the content of its first child
\* if that is a text, even a blank one, and nothing if the text comes after a
\* comment or an element.
ElementText(tree, node, missing) ==
  LET child == Children(tree, node) IN
  IF child # NullNode /\ tree[child].type = "text"
  THEN tree[child].content ELSE missing

\* The elements below the root, up to a node.
ElementsUpTo(tree, last) == {n \in 2..last : tree[n].type = "element"}

\* The elements below the root, in document order: before the i-th, and with
\* it, there are i.
Elements(tree) ==
  LET all == ElementsUpTo(tree, Len(tree))
  IN [i \in 1..Cardinality(all) |->
        CHOOSE n \in all : Cardinality(ElementsUpTo(tree, n)) = i]

\* The request the server is given.
DocumentOf(tree, missing) ==
  [root |-> tree[1].name,
   elems |-> [i \in DOMAIN Elements(tree) |->
                [key |-> tree[Elements(tree)[i]].name,
                 value |-> ElementText(tree, Elements(tree)[i], missing)]],
   size |-> 1]
=============================================================================
