------------------------ MODULE NetconfFramingProofs ------------------------
(***************************************************************************)
(* Proofs about the way from a client's messages, through the records they *)
(* are cut into and the read buffer, to the requests the server executes.  *)
(***************************************************************************)
EXTENDS NetconfServerProofs

-----------------------------------------------------------------------------
(* Texts and their order.                                                  *)

\* The pieces of a text, and those of the records w and the text t not yet
\* in a record.
PiecesOf(text) == {text[i] : i \in 1..Len(text)}
UnderWay(w, t) == PiecesOf(t) \cup UNION {PiecesOf(w[r]) : r \in 1..Len(w)}

\* The order in which a client hands its pieces over.
Earlier(p, q) == p.msg < q.msg \/ (p.msg = q.msg /\ p.part < q.part)
Precede(P, Q) == \A p \in P, q \in Q : Earlier(p, q)
Ordered(text) ==
  \A i, j \in 1..Len(text) : i < j => Earlier(text[i], text[j])
InOrder(w, t) ==
  /\ Ordered(t)
  /\ \A r \in 1..Len(w) : /\ Ordered(w[r])
                          /\ Precede(PiecesOf(w[r]), PiecesOf(t))
  /\ \A r, s \in 1..Len(w) : r < s => Precede(PiecesOf(w[r]), PiecesOf(w[s]))

\* The pieces, or the entries of the journal, are of messages that were sent.
Genuine(docs, P) ==
  \A p \in P : p.msg \in 1..Len(docs) /\ p.doc = docs[p.msg]

\* The text of a message is in order, and all of that message.
LEMMA PiecesOrdered ==
  ASSUME NEW i \in Nat, NEW d \in Doc
  PROVE  /\ Ordered(Pieces(i, d))
         /\ Len(Pieces(i, d)) = d.size + 2
         /\ \A p \in PiecesOf(Pieces(i, d)) : p.msg = i /\ p.doc = d
<1>1. d.size + 2 \in Nat
  BY RequestAssumption
<1>2. Len(Pieces(i, d)) = d.size + 2
  BY <1>1 DEF Pieces
<1>3. \A k \in 1..(d.size + 2) :
        Pieces(i, d)[k] = [msg |-> i, doc |-> d, part |-> k]
  BY DEF Pieces
<1> DEFINE s == Pieces(i, d)
<1>4. ASSUME NEW k \in 1..Len(s)
      PROVE  s[k].msg = i /\ s[k].doc = d /\ s[k].part = k
  <2>1. s[k] = [msg |-> i, doc |-> d, part |-> k]
    BY <1>2, <1>3
  <2> HIDE DEF s
  <2> QED BY <2>1
<1> HIDE DEF s
<1>5. Ordered(s)
  BY <1>4 DEF Ordered, Earlier
<1>6. \A p \in PiecesOf(s) : p.msg = i /\ p.doc = d
  BY <1>4 DEF PiecesOf
<1> QED BY <1>2, <1>5, <1>6 DEF s

\* Cutting a text in two keeps its order, and the first part comes first.
LEMMA CutOrdered ==
  ASSUME NEW t \in Seq(Piece), NEW n \in Nat, n <= Len(t), Ordered(t)
  PROVE  LET a == SubSeq(t, 1, n)
             b == SubSeq(t, n + 1, Len(t))
         IN /\ a \in Seq(Piece) /\ b \in Seq(Piece)
            /\ Len(a) = n /\ Len(b) = Len(t) - n
            /\ Ordered(a) /\ Ordered(b)
            /\ PiecesOf(a) \subseteq PiecesOf(t)
            /\ PiecesOf(b) \subseteq PiecesOf(t)
            /\ Precede(PiecesOf(a), PiecesOf(b))
<1> DEFINE a == SubSeq(t, 1, n)
           b == SubSeq(t, n + 1, Len(t))
<1>1. Len(t) \in Nat /\ 1 \in Nat \ {0} /\ n + 1 \in Nat \ {0}
      /\ Len(t) <= Len(t)
  BY LenProperties
<1>2. /\ a \in Seq(Piece)
      /\ Len(a) = IF 1 <= n THEN n - 1 + 1 ELSE 0
      /\ \A i \in 1..(n - 1 + 1) : a[i] = t[1 + i - 1]
  BY <1>1, SubSeqType
<1>3. /\ b \in Seq(Piece)
      /\ Len(b) = IF n + 1 <= Len(t) THEN Len(t) - (n + 1) + 1 ELSE 0
      /\ \A i \in 1..(Len(t) - (n + 1) + 1) : b[i] = t[(n + 1) + i - 1]
  BY <1>1, SubSeqType
<1> HIDE DEF a, b
<1>4. Len(a) = n /\ \A i \in 1..n : a[i] = t[i]
  <2>1. ASSUME NEW i \in 1..n PROVE a[i] = t[i]
    <3>1. i \in 1..(n - 1 + 1) /\ 1 + i - 1 = i
      OBVIOUS
    <3> QED BY <1>2, <3>1
  <2> QED BY <1>2, <2>1
<1>5. Len(b) = Len(t) - n /\ \A i \in 1..(Len(t) - n) : b[i] = t[n + i]
  <2>1. ASSUME NEW i \in 1..(Len(t) - n) PROVE b[i] = t[n + i]
    <3>1. i \in 1..(Len(t) - (n + 1) + 1) /\ (n + 1) + i - 1 = n + i
      BY <1>1
    <3>2. b[i] = t[(n + 1) + i - 1]
      BY <1>3, <3>1
    <3> QED BY <3>1, <3>2
  <2> QED BY <1>1, <1>3, <2>1
<1>6. /\ \A i \in 1..n : i \in 1..Len(t)
      /\ \A i \in 1..(Len(t) - n) : n + i \in 1..Len(t)
  BY <1>1
<1>7. Ordered(a)
  BY <1>4, <1>6 DEF Ordered
<1>8. Ordered(b)
  <2>1. ASSUME NEW i \in 1..(Len(t) - n), NEW j \in 1..(Len(t) - n), i < j
        PROVE  Earlier(b[i], b[j])
    <3>1. n + i < n + j
      BY <2>1
    <3>2. Earlier(t[n + i], t[n + j])
      BY <1>6, <3>1 DEF Ordered
    <3> QED BY <1>5, <3>2
  <2> QED BY <1>5, <2>1 DEF Ordered
<1>9. PiecesOf(a) \subseteq PiecesOf(t) /\ PiecesOf(b) \subseteq PiecesOf(t)
  BY <1>4, <1>5, <1>6 DEF PiecesOf
<1>10. Precede(PiecesOf(a), PiecesOf(b))
  <2>1. ASSUME NEW i \in 1..n, NEW j \in 1..(Len(t) - n)
        PROVE  Earlier(a[i], b[j])
    <3>1. i < n + j
      BY <1>1
    <3>2. Earlier(t[i], t[n + j])
      BY <1>6, <3>1 DEF Ordered
    <3> QED BY <1>4, <1>5, <3>2
  <2> QED BY <1>4, <1>5, <2>1 DEF Precede, PiecesOf
<1> QED BY <1>2, <1>3, <1>4, <1>5, <1>7, <1>8, <1>9, <1>10 DEF a, b

\* What is written behind a text that it follows leaves an ordered text.
LEMMA JoinOrdered ==
  ASSUME NEW a \in Seq(Piece), NEW b \in Seq(Piece), Ordered(a), Ordered(b),
         Precede(PiecesOf(a), PiecesOf(b))
  PROVE  /\ Ordered(a \o b)
         /\ PiecesOf(a \o b) = PiecesOf(a) \cup PiecesOf(b)
<1> DEFINE s == a \o b
<1>1. /\ s \in Seq(Piece)
      /\ Len(s) = Len(a) + Len(b)
      /\ \A i \in 1..(Len(a) + Len(b)) :
           s[i] = IF i <= Len(a) THEN a[i] ELSE b[i - Len(a)]
      /\ Len(a) \in Nat /\ Len(b) \in Nat
  BY ConcatProperties, LenProperties
<1> HIDE DEF s
<1>2. \A i \in 1..Len(a) : i \in 1..Len(s) /\ s[i] = a[i]
  BY <1>1
<1>3. ASSUME NEW j \in 1..Len(b)
      PROVE  Len(a) + j \in 1..Len(s) /\ s[Len(a) + j] = b[j]
  <2>1. /\ Len(a) + j \in 1..(Len(a) + Len(b))
        /\ ~ (Len(a) + j <= Len(a))
        /\ (Len(a) + j) - Len(a) = j
    BY <1>1
  <2> QED BY <1>1, <2>1
<1>4. \A i \in 1..Len(s) : \/ i \in 1..Len(a) /\ s[i] = a[i]
                           \/ /\ i > Len(a)
                              /\ i - Len(a) \in 1..Len(b)
                              /\ s[i] = b[i - Len(a)]
  BY <1>1
<1>5. PiecesOf(s) = PiecesOf(a) \cup PiecesOf(b)
  <2>1. ASSUME NEW p \in PiecesOf(s) PROVE p \in PiecesOf(a) \cup PiecesOf(b)
    BY <1>4 DEF PiecesOf
  <2>2. ASSUME NEW p \in PiecesOf(a) PROVE p \in PiecesOf(s)
    BY <1>2 DEF PiecesOf
  <2>3. ASSUME NEW p \in PiecesOf(b) PROVE p \in PiecesOf(s)
    BY <1>3 DEF PiecesOf
  <2> QED BY <2>1, <2>2, <2>3
<1>6. ASSUME NEW i \in 1..Len(s), NEW j \in 1..Len(s), i < j
      PROVE  Earlier(s[i], s[j])
  <2>1. CASE i \in 1..Len(a) /\ j \in 1..Len(a)
    BY <1>2, <1>6, <2>1 DEF Ordered
  <2>2. CASE i \in 1..Len(a) /\ j > Len(a)
    <3>1. s[i] \in PiecesOf(a) /\ s[j] \in PiecesOf(b)
      BY <1>1, <1>4, <2>2 DEF PiecesOf
    <3> QED BY <3>1 DEF Precede
  <2>3. CASE i > Len(a) /\ j > Len(a)
    <3>1. /\ i - Len(a) \in 1..Len(b) /\ j - Len(a) \in 1..Len(b)
          /\ i - Len(a) < j - Len(a)
          /\ s[i] = b[i - Len(a)] /\ s[j] = b[j - Len(a)]
      BY <1>1, <1>4, <1>6, <2>3
    <3> QED BY <3>1 DEF Ordered
  <2> QED BY <1>1, <1>4, <1>6, <2>1, <2>2, <2>3
<1> QED BY <1>5, <1>6 DEF Ordered, s

\* A message written behind everything under way keeps the order.
LEMMA SendOrdered ==
  ASSUME NEW w \in Seq(Seq(Piece)), NEW t \in Seq(Piece), InOrder(w, t),
         NEW b \in Seq(Piece), Ordered(b),
         Precede(UnderWay(w, t), PiecesOf(b))
  PROVE  /\ InOrder(w, t \o b)
         /\ UnderWay(w, t \o b) = UnderWay(w, t) \cup PiecesOf(b)
<1>1. Precede(PiecesOf(t), PiecesOf(b))
  BY DEF UnderWay, Precede
<1>2. /\ Ordered(t \o b)
      /\ PiecesOf(t \o b) = PiecesOf(t) \cup PiecesOf(b)
  BY <1>1, JoinOrdered DEF InOrder
<1>3. ASSUME NEW r \in 1..Len(w)
      PROVE  Precede(PiecesOf(w[r]), PiecesOf(t \o b))
  <2>1. Precede(PiecesOf(w[r]), PiecesOf(b))
    BY DEF UnderWay, Precede
  <2>2. Precede(PiecesOf(w[r]), PiecesOf(t))
    BY DEF InOrder
  <2> QED BY <1>2, <2>1, <2>2 DEF Precede
<1>4. InOrder(w, t \o b)
  BY <1>2, <1>3 DEF InOrder
<1>5. UnderWay(w, t \o b) = UnderWay(w, t) \cup PiecesOf(b)
  BY <1>2 DEF UnderWay
<1> QED BY <1>4, <1>5

\* So does a record that takes the first pieces of the text.
LEMMA FlushOrdered ==
  ASSUME NEW w \in Seq(Seq(Piece)), NEW t \in Seq(Piece), InOrder(w, t),
         NEW n \in 1..Len(t)
  PROVE  LET w2 == Append(w, SubSeq(t, 1, n))
             t2 == SubSeq(t, n + 1, Len(t))
         IN InOrder(w2, t2) /\ UnderWay(w2, t2) \subseteq UnderWay(w, t)
<1> DEFINE a == SubSeq(t, 1, n)
           b == SubSeq(t, n + 1, Len(t))
           w2 == Append(w, a)
<1>1. Len(t) \in Nat /\ n \in Nat /\ n <= Len(t) /\ Ordered(t)
  BY LenProperties DEF InOrder
<1>2. /\ a \in Seq(Piece)
      /\ Ordered(a) /\ Ordered(b)
      /\ PiecesOf(a) \subseteq PiecesOf(t)
      /\ PiecesOf(b) \subseteq PiecesOf(t)
      /\ Precede(PiecesOf(a), PiecesOf(b))
  BY <1>1, CutOrdered
<1> HIDE DEF a, b
<1>3. /\ Len(w2) = Len(w) + 1
      /\ \A r \in 1..Len(w) : w2[r] = w[r]
      /\ w2[Len(w) + 1] = a
      /\ Len(w) \in Nat
  BY <1>2, AppendProperties, LenProperties
<1> HIDE DEF w2
<1>4. \A r \in 1..Len(w2) : \/ r \in 1..Len(w) /\ w2[r] = w[r]
                            \/ r = Len(w) + 1 /\ w2[r] = a
  BY <1>3
<1>5. ASSUME NEW r \in 1..Len(w2)
      PROVE  /\ Ordered(w2[r])
             /\ Precede(PiecesOf(w2[r]), PiecesOf(b))
             /\ PiecesOf(w2[r]) \subseteq UnderWay(w, t)
  <2>1. CASE r \in 1..Len(w) /\ w2[r] = w[r]
    <3>1. Ordered(w[r]) /\ Precede(PiecesOf(w[r]), PiecesOf(t))
      BY <2>1 DEF InOrder
    <3>2. Precede(PiecesOf(w[r]), PiecesOf(b))
      BY <1>2, <3>1 DEF Precede
    <3> QED BY <2>1, <3>1, <3>2 DEF UnderWay
  <2>2. CASE w2[r] = a
    BY <1>2, <2>2 DEF UnderWay
  <2> QED BY <1>4, <2>1, <2>2
<1>6. ASSUME NEW r \in 1..Len(w2), NEW s \in 1..Len(w2), r < s
      PROVE  Precede(PiecesOf(w2[r]), PiecesOf(w2[s]))
  <2>1. r \in 1..Len(w) /\ w2[r] = w[r]
    BY <1>3, <1>4, <1>6
  <2>2. CASE s \in 1..Len(w) /\ w2[s] = w[s]
    BY <1>6, <2>1, <2>2 DEF InOrder
  <2>3. CASE w2[s] = a
    <3>1. Precede(PiecesOf(w[r]), PiecesOf(t))
      BY <2>1 DEF InOrder
    <3> QED BY <1>2, <2>1, <2>3, <3>1 DEF Precede
  <2> QED BY <1>4, <2>2, <2>3
<1>7. InOrder(w2, b)
  BY <1>2, <1>5, <1>6 DEF InOrder
<1>8. UnderWay(w2, b) \subseteq UnderWay(w, t)
  <2>1. PiecesOf(b) \subseteq UnderWay(w, t)
    BY <1>2 DEF UnderWay
  <2> QED BY <1>5, <2>1 DEF UnderWay
<1> QED BY <1>7, <1>8 DEF a, b, w2

\* A read takes the oldest record, or the first pieces of it when it does not
\* fit the buffer: what was read comes before all that is left.
LEMMA ReadOrdered ==
  ASSUME NEW w \in Seq(Seq(Piece)), NEW t \in Seq(Piece), InOrder(w, t),
         w # <<>>
  PROVE  LET record == Head(w)
             fits == Len(record) <= BufSize
             b == IF fits THEN record ELSE SubSeq(record, 1, BufSize)
             w2 == (IF fits THEN <<>>
                    ELSE <<SubSeq(record, BufSize + 1, Len(record))>>)
                   \o Tail(w)
         IN /\ InOrder(w2, t)
            /\ UnderWay(w2, t) \subseteq UnderWay(w, t)
            /\ PiecesOf(b) \subseteq UnderWay(w, t)
            /\ Precede(PiecesOf(b), UnderWay(w2, t))
<1> DEFINE record == Head(w)
           rest == SubSeq(record, BufSize + 1, Len(record))
           first == SubSeq(record, 1, BufSize)
           tail == Tail(w)
<1>1. /\ record \in Seq(Piece) /\ record = w[1]
      /\ tail \in Seq(Seq(Piece))
      /\ Len(tail) = Len(w) - 1
      /\ \A r \in 1..Len(tail) : tail[r] = w[r + 1]
      /\ Len(w) \in Nat /\ 1 \in 1..Len(w)
  BY HeadTailProperties, LenProperties, EmptySeq
<1>2. Len(record) \in Nat /\ BufSize \in Nat
  BY <1>1, LenProperties, ServerAssumption
<1>3. Ordered(record)
  BY <1>1 DEF InOrder
<1> HIDE DEF record, tail
<1>4. Len(record) > BufSize =>
        /\ rest \in Seq(Piece)
        /\ Ordered(rest)
        /\ PiecesOf(first) \subseteq PiecesOf(record)
        /\ PiecesOf(rest) \subseteq PiecesOf(record)
        /\ Precede(PiecesOf(first), PiecesOf(rest))
  BY <1>1, <1>2, <1>3, CutOrdered
<1> HIDE DEF rest, first
<1>5. \A r \in 1..Len(tail) :
        /\ r + 1 \in 1..Len(w)
        /\ tail[r] = w[r + 1]
        /\ 1 < r + 1
  BY <1>1
<1>6. /\ \A r \in 1..Len(tail) : /\ Ordered(tail[r])
                                 /\ Precede(PiecesOf(tail[r]), PiecesOf(t))
                                 /\ Precede(PiecesOf(record), PiecesOf(tail[r]))
                                 /\ PiecesOf(tail[r]) \subseteq UnderWay(w, t)
      /\ Precede(PiecesOf(record), PiecesOf(t))
      /\ PiecesOf(record) \subseteq UnderWay(w, t)
      /\ PiecesOf(t) \subseteq UnderWay(w, t)
  <2>1. ASSUME NEW r \in 1..Len(tail)
        PROVE  /\ Ordered(tail[r])
               /\ Precede(PiecesOf(tail[r]), PiecesOf(t))
               /\ Precede(PiecesOf(record), PiecesOf(tail[r]))
               /\ PiecesOf(tail[r]) \subseteq UnderWay(w, t)
    BY <1>1, <1>5 DEF InOrder, UnderWay
  <2> QED BY <1>1, <2>1 DEF InOrder, UnderWay
<1>7. ASSUME NEW r \in 1..Len(tail), NEW s \in 1..Len(tail), r < s
      PROVE  Precede(PiecesOf(tail[r]), PiecesOf(tail[s]))
  <2>1. r + 1 < s + 1
    BY <1>7
  <2> QED BY <1>5, <2>1 DEF InOrder
<1>8. CASE Len(record) <= BufSize
  <2>1. <<>> \o tail = tail
    BY <1>1, ConcatEmptySeq
  <2>2. InOrder(tail, t)
    BY <1>6, <1>7 DEF InOrder
  <2>3. UnderWay(tail, t) \subseteq UnderWay(w, t)
    BY <1>6 DEF UnderWay
  <2>4. Precede(PiecesOf(record), UnderWay(tail, t))
    BY <1>6 DEF UnderWay, Precede
  <2> QED BY <1>6, <1>8, <2>1, <2>2, <2>3, <2>4 DEF record, tail
<1>9. CASE Len(record) > BufSize
  <2> DEFINE w2 == <<rest>> \o tail
  <2>1. <<rest>> \in Seq(Seq(Piece)) /\ Len(<<rest>>) = 1 /\ <<rest>>[1] = rest
    BY <1>4, <1>9
  <2> DEFINE one == <<rest>>
  <2>2. /\ Len(w2) = 1 + Len(tail)
        /\ \A r \in 1..(1 + Len(tail)) :
             w2[r] = IF r <= 1 THEN rest ELSE tail[r - 1]
    <3>1. /\ one \in Seq(Seq(Piece)) /\ tail \in Seq(Seq(Piece))
          /\ Len(one) = 1 /\ one[1] = rest
      BY <1>1, <2>1
    <3> HIDE DEF one
    <3>2. /\ Len(one \o tail) = Len(one) + Len(tail)
          /\ \A r \in 1..(Len(one) + Len(tail)) :
               (one \o tail)[r] = IF r <= Len(one) THEN one[r]
                                  ELSE tail[r - Len(one)]
      BY <3>1, ConcatProperties
    <3>3. Len(tail) \in Nat
      BY <1>1, LenProperties
    <3>4. \A r \in 1..(1 + Len(tail)) :
            (one \o tail)[r] = IF r <= 1 THEN rest ELSE tail[r - 1]
      BY <3>1, <3>2, <3>3
    <3> QED BY <3>1, <3>2, <3>4 DEF one
  <2>3. \A r \in 1..Len(w2) :
          \/ r = 1 /\ w2[r] = rest
          \/ r > 1 /\ r - 1 \in 1..Len(tail) /\ w2[r] = tail[r - 1]
    BY <1>1, <2>2
  <2> HIDE DEF w2
  <2>4. Precede(PiecesOf(rest), PiecesOf(t))
    BY <1>4, <1>6, <1>9 DEF Precede
  <2>5. \A r \in 1..Len(tail) : Precede(PiecesOf(rest), PiecesOf(tail[r]))
    BY <1>4, <1>6, <1>9 DEF Precede
  <2>6. PiecesOf(rest) \subseteq UnderWay(w, t)
    BY <1>4, <1>6, <1>9
  <2>7. \A r \in 1..Len(w2) : /\ Ordered(w2[r])
                              /\ Precede(PiecesOf(w2[r]), PiecesOf(t))
                              /\ PiecesOf(w2[r]) \subseteq UnderWay(w, t)
                              /\ Precede(PiecesOf(first), PiecesOf(w2[r]))
    <3>1. \A r \in 1..Len(tail) : Precede(PiecesOf(first), PiecesOf(tail[r]))
      BY <1>4, <1>6, <1>9 DEF Precede
    <3> QED BY <1>4, <1>6, <1>9, <2>3, <2>4, <2>6, <3>1
  <2>8. ASSUME NEW r \in 1..Len(w2), NEW s \in 1..Len(w2), r < s
        PROVE  Precede(PiecesOf(w2[r]), PiecesOf(w2[s]))
    <3>1. s > 1 /\ s - 1 \in 1..Len(tail) /\ w2[s] = tail[s - 1]
      BY <2>3, <2>8
    <3>2. CASE r = 1 /\ w2[r] = rest
      BY <2>5, <3>1, <3>2
    <3>3. CASE r > 1 /\ r - 1 \in 1..Len(tail) /\ w2[r] = tail[r - 1]
      <4>1. r - 1 < s - 1
        BY <2>8
      <4> QED BY <1>7, <3>1, <3>3, <4>1
    <3> QED BY <2>3, <3>2, <3>3
  <2>9. InOrder(w2, t)
    BY <2>7, <2>8 DEF InOrder
  <2>10. UnderWay(w2, t) \subseteq UnderWay(w, t)
    BY <1>6, <2>7 DEF UnderWay
  <2>11. PiecesOf(first) \subseteq UnderWay(w, t)
    BY <1>4, <1>6, <1>9
  <2>12. Precede(PiecesOf(first), UnderWay(w2, t))
    <3>1. Precede(PiecesOf(first), PiecesOf(t))
      BY <1>4, <1>6, <1>9 DEF Precede
    <3> QED BY <2>7, <3>1 DEF UnderWay, Precede
  <2>13. ~ (Len(record) <= BufSize)
    BY <1>2, <1>9
  <2>14. (IF Len(record) <= BufSize THEN <<>> ELSE <<rest>>) \o tail = w2
    BY <2>13 DEF w2
  <2>15. (IF Len(record) <= BufSize THEN record ELSE first) = first
    BY <2>13
  <2> QED BY <2>9, <2>10, <2>11, <2>12, <2>14, <2>15
      DEF record, tail, rest, first
<1>10. Len(record) <= BufSize \/ Len(record) > BufSize
  BY <1>2
<1> QED BY <1>8, <1>9, <1>10

\* A request that parses starts with the first piece of its message.
LEMMA WellFormedStart ==
  ASSUME NEW text \in Seq(Piece), WellFormed(Request(text))
  PROVE  /\ Request(text)[1] \in PiecesOf(text)
         /\ Request(text)[1].part = 1
<1>1. Len(text) \in Nat
  BY LenProperties
<1>2. Request(text) \in Seq(Piece) /\ Request(text) # <<>>
  BY RequestType DEF WellFormed
<1>3. 1 \in 1..Len(Request(text))
  BY <1>2, EmptySeq
<1>4. Request(text)[1].part = 1
  BY <1>3 DEF WellFormed
<1>5. CASE Delimiters(text) = {}
  <2>1. Request(text) = text
    BY <1>5 DEF Request
  <2> QED BY <1>3, <1>4, <2>1 DEF PiecesOf
<1>6. CASE Delimiters(text) # {}
  <2> DEFINE j == FirstOf(Delimiters(text))
  <2>1. Delimiters(text) \subseteq 1..(Len(text) - 1)
    BY DEF Delimiters
  <2>2. j \in 1..(Len(text) - 1)
    <3>1. Delimiters(text) \subseteq Nat
      BY <1>1, <2>1
    <3> QED BY <1>6, <2>1, <3>1, FirstOfIsFirst
  <2>3. Request(text) = SubSeq(text, 1, j - 1)
    BY <1>6 DEF Request
  <2> HIDE DEF j
  <2>4. /\ Len(SubSeq(text, 1, j - 1)) =
             IF 1 <= j - 1 THEN (j - 1) - 1 + 1 ELSE 0
        /\ \A i \in 1..((j - 1) - 1 + 1) :
             SubSeq(text, 1, j - 1)[i] = text[1 + i - 1]
    BY <1>1, <2>2, SubSeqType
  <2>5. 1 \in 1..((j - 1) - 1 + 1) /\ 1 \in 1..Len(text) /\ 1 + 1 - 1 = 1
    BY <1>1, <1>3, <2>2, <2>3, <2>4
  <2>6. Request(text)[1] = text[1]
    <3> DEFINE s == SubSeq(text, 1, j - 1)
    <3>1. s[1] = text[1 + 1 - 1]
      BY <2>4, <2>5
    <3> HIDE DEF s
    <3>2. s[1] = text[1]
      BY <2>5, <3>1
    <3> QED BY <2>3, <3>2 DEF s
  <2> QED BY <1>4, <2>5, <2>6 DEF PiecesOf
<1> QED BY <1>4, <1>5, <1>6

-----------------------------------------------------------------------------
(* What is executed is in the order it was sent.                           *)

\* The pieces of a connection the server has yet to read, and those it has
\* read and not handled.
Ahead(c) == UnderWay(wire[c], todo[c])
Unhandled == IF pc = "handle" THEN PiecesOf(buf) ELSE {}

\* A piece that can no longer start the message of a journal entry: it is of
\* a later message, or from inside the same one.
Past(e, p) == e.msg < p.msg \/ (e.msg = p.msg /\ p.part > 1)

\* What is on its way is in order and was sent.
WireInOrder ==
  \A c \in Client : /\ InOrder(wire[c], todo[c])
                    /\ Genuine(sent[c], Ahead(c))

\* What is about to be handled comes before what is still on its way.
BufferInOrder ==
  pc = "handle" => /\ Genuine(sent[conn], PiecesOf(buf))
                   /\ Precede(PiecesOf(buf), Ahead(conn))

\* What was executed was sent, in order, and all that is left is past it.
JournalInOrder ==
  pc \in InSession =>
    /\ \A k \in 1..Len(journal) :
         /\ journal[k].msg \in 1..Len(sent[conn])
         /\ journal[k].doc = sent[conn][journal[k].msg]
         /\ \A p \in Unhandled \cup Ahead(conn) : Past(journal[k], p)
    /\ \A j, k \in 1..Len(journal) : j < k => journal[j].msg < journal[k].msg

OrderInv == WireInOrder /\ BufferInOrder /\ JournalInOrder

\* A connection with nothing on its way.
LEMMA NothingUnderWay ==
  InOrder(<<>>, <<>>) /\ UnderWay(<<>>, <<>>) = {}
<1>1. Len(<<>>) = 0
  BY EmptySeq
<1>2. PiecesOf(<<>>) = {}
  BY <1>1 DEF PiecesOf
<1>3. UnderWay(<<>>, <<>>) = {}
  BY <1>1, <1>2 DEF UnderWay
<1> QED BY <1>1, <1>3 DEF InOrder, Ordered

\* Before the first call nothing is on its way.
LEMMA OrderInit == Init => OrderInv
<1> SUFFICES ASSUME Init PROVE OrderInv
  OBVIOUS
<1>1. ASSUME NEW c \in Client
      PROVE  InOrder(wire[c], todo[c]) /\ Genuine(sent[c], Ahead(c))
  BY NothingUnderWay DEF Init, Ahead, Genuine
<1>2. pc \notin InSession /\ pc # "handle"
  BY DEF Init, InSession
<1> QED BY <1>1, <1>2 DEF OrderInv, WireInOrder, BufferInOrder, JournalInOrder

\* Cutting connections off leaves nothing on their way.
LEMMA DisconnectOrder ==
  ASSUME WireInOrder, NEW S, NEW how, Disconnect(S, how)
  PROVE  /\ WireInOrder'
         /\ sent' = sent
         /\ \A c \in Client : Ahead(c)' \subseteq Ahead(c)
<1>1. ASSUME NEW c \in Client
      PROVE  /\ InOrder(wire[c], todo[c])'
             /\ Ahead(c)' \subseteq Ahead(c)
  <2>1. CASE c \in S
    <3>1. wire'[c] = <<>> /\ todo'[c] = <<>>
      BY <2>1 DEF Disconnect
    <3> QED BY <3>1, NothingUnderWay DEF Ahead
  <2>2. CASE c \notin S
    <3>1. wire'[c] = wire[c] /\ todo'[c] = todo[c]
      BY <2>2 DEF Disconnect
    <3> QED BY <3>1 DEF WireInOrder, Ahead
  <2> QED BY <2>1, <2>2
<1>2. sent' = sent
  BY DEF Disconnect
<1> QED BY <1>1, <1>2 DEF WireInOrder, Genuine

\* The session's part survives a step of the clients that loses pieces or
\* adds pieces of a new message.
LEMMA ClientsKeepOrder ==
  ASSUME CoreInv, OrderInv, UNCHANGED <<pc, conn, buf, journal>>,
         \A c \in Client :
           /\ Len(sent'[c]) >= Len(sent[c])
           /\ \A i \in 1..Len(sent[c]) : sent'[c][i] = sent[c][i]
           /\ \A p \in Ahead(c)' : p \in Ahead(c) \/ p.msg > Len(sent[c]),
         \A c \in Client : Len(sent'[c]) \in Nat,
         WireInOrder'
  PROVE  BufferInOrder' /\ JournalInOrder'
<1>1. pc \in InSession => conn \in Client /\ Len(sent[conn]) \in Nat
  BY LenProperties DEF CoreInv, TypeOK, ContextAtLabel
<1>0. ASSUME NEW c \in Client, NEW p \in Ahead(c)' PROVE p.msg \in Nat
  <2>1. p.msg \in 1..Len(sent'[c])
    BY DEF WireInOrder, Genuine
  <2> QED BY <2>1
<1>2. Unhandled' = Unhandled
  BY DEF Unhandled
<1>3. ASSUME pc' = "handle"
      PROVE  /\ Genuine(sent[conn], PiecesOf(buf))'
             /\ Precede(PiecesOf(buf), Ahead(conn))'
  <2>1. pc = "handle" /\ pc \in InSession /\ conn' = conn /\ buf' = buf
    BY <1>3 DEF InSession
  <2>2. conn \in Client /\ Len(sent[conn]) \in Nat
    BY <1>1, <2>1
  <2>3. /\ Genuine(sent[conn], PiecesOf(buf))
        /\ Precede(PiecesOf(buf), Ahead(conn))
    BY <2>1 DEF OrderInv, BufferInOrder
  <2>4. Genuine(sent'[conn], PiecesOf(buf))
    BY <2>2, <2>3 DEF Genuine
  <2>5. Precede(PiecesOf(buf), Ahead(conn)')
    <3>1. ASSUME NEW p \in PiecesOf(buf), NEW q \in Ahead(conn)'
          PROVE  Earlier(p, q)
      <4>1. CASE q \in Ahead(conn)
        BY <2>3, <4>1 DEF Precede
      <4>2. CASE q.msg > Len(sent[conn])
        <5>1. p.msg \in 1..Len(sent[conn])
          BY <2>3 DEF Genuine
        <5> QED BY <1>0, <2>1, <2>2, <4>2, <5>1 DEF Earlier
      <4> QED BY <2>2, <4>1, <4>2
    <3> QED BY <3>1 DEF Precede
  <2> QED BY <2>1, <2>4, <2>5
<1>4. ASSUME pc' \in InSession
      PROVE  /\ \A k \in 1..Len(journal') :
                  /\ journal'[k].msg \in 1..Len(sent'[conn'])
                  /\ journal'[k].doc = sent'[conn'][journal'[k].msg]
                  /\ \A p \in Unhandled' \cup Ahead(conn)' : Past(journal'[k], p)
             /\ \A j, k \in 1..Len(journal') :
                  j < k => journal'[j].msg < journal'[k].msg
  <2>1. pc \in InSession /\ conn' = conn /\ journal' = journal
    BY <1>4
  <2>2. conn \in Client /\ Len(sent[conn]) \in Nat
    BY <1>1, <2>1
  <2>3. ASSUME NEW k \in 1..Len(journal), NEW p \in Unhandled \cup Ahead(conn)'
        PROVE  Past(journal[k], p)
    <3>1. CASE p \in Unhandled \cup Ahead(conn)
      BY <2>1, <3>1 DEF OrderInv, JournalInOrder
    <3>2. CASE p \in Ahead(conn)' /\ p.msg > Len(sent[conn])
      <4>1. journal[k].msg \in 1..Len(sent[conn])
        BY <2>1 DEF OrderInv, JournalInOrder
      <4>2. p.msg \in Nat
        BY <1>0, <2>1, <2>2, <3>2
      <4> QED BY <2>2, <3>2, <4>1, <4>2 DEF Past
    <3>3. p \in Ahead(conn)' => p \in Ahead(conn) \/ p.msg > Len(sent[conn])
      BY <2>1, <2>2
    <3> QED BY <3>1, <3>2, <3>3
  <2>4. ASSUME NEW k \in 1..Len(journal)
        PROVE  /\ journal[k].msg \in 1..Len(sent'[conn])
               /\ journal[k].doc = sent'[conn][journal[k].msg]
    <3>1. /\ journal[k].msg \in 1..Len(sent[conn])
          /\ journal[k].doc = sent[conn][journal[k].msg]
      BY <2>1 DEF OrderInv, JournalInOrder
    <3>2. Len(sent'[conn]) >= Len(sent[conn]) /\ Len(sent'[conn]) \in Nat
      BY <2>2
    <3>3. sent'[conn][journal[k].msg] = sent[conn][journal[k].msg]
      BY <2>2, <3>1
    <3> QED BY <2>2, <3>1, <3>2, <3>3
  <2>5. \A j, k \in 1..Len(journal) : j < k => journal[j].msg < journal[k].msg
    BY <2>1 DEF OrderInv, JournalInOrder
  <2>6. Ahead(conn)' = UnderWay(wire'[conn], todo'[conn])
    BY <2>1 DEF Ahead
  <2> QED BY <1>2, <2>1, <2>3, <2>4, <2>5, <2>6
<1> QED BY <1>3, <1>4 DEF BufferInOrder, JournalInOrder

\* Whatever the server and its clients do, the order stays.
LEMMA OrderStep ==
  ASSUME CoreInv, CoreInv', OrderInv, [Next]_vars
  PROVE  OrderInv'
<1>0. /\ cst \in [Client -> ConnState]
      /\ todo \in [Client -> Seq(Piece)]
      /\ wire \in [Client -> Seq(Seq(Piece))]
      /\ sent \in [Client -> Seq(Doc)]
      /\ sent' \in [Client -> Seq(Doc)]
      /\ buf \in Seq(Piece)
      /\ journal \in Seq(Entry)
      /\ \A c \in Client : Len(sent[c]) \in Nat /\ Len(sent'[c]) \in Nat
  BY LenProperties DEF CoreInv, TypeOK
<1>1. pc \in InSession => conn \in Client
  BY DEF CoreInv, ContextAtLabel
<1>2. ASSUME UNCHANGED <<todo, wire, sent>>
      PROVE  WireInOrder' /\ \A c \in Client : Ahead(c)' = Ahead(c)
  BY <1>2 DEF OrderInv, WireInOrder, Ahead
<1>3. ASSUME UNCHANGED <<todo, wire, sent>>, pc' \notin InSession
      PROVE  OrderInv'
  <2>1. pc' # "handle"
    BY <1>3 DEF InSession
  <2> QED BY <1>2, <1>3, <2>1
      DEF OrderInv, BufferInOrder, JournalInOrder
\* Steps within the session that neither read nor execute.
<1>4. ASSUME UNCHANGED <<todo, wire, sent, conn, journal>>,
             pc \in InSession, pc' # "handle"
      PROVE  OrderInv'
  <2>1. Unhandled' = {} /\ Ahead(conn)' = Ahead(conn)
    BY <1>4 DEF Unhandled, Ahead
  <2>2. JournalInOrder'
    BY <1>4, <2>1 DEF OrderInv, JournalInOrder
  <2> QED BY <1>2, <1>4, <2>2 DEF OrderInv, BufferInOrder
<1>5. ASSUME NEW S, NEW how, Disconnect(S, how), pc' \notin InSession
      PROVE  OrderInv'
  <2>1. WireInOrder'
    BY <1>5, DisconnectOrder DEF OrderInv
  <2>2. pc' # "handle"
    BY <1>5 DEF InSession
  <2> QED BY <1>5, <2>1, <2>2 DEF OrderInv, BufferInOrder, JournalInOrder
<1>6. CASE Handshake
  <2>1. /\ UNCHANGED <<todo, wire, sent>>
        /\ journal' = <<>> /\ pc' = "read"
    BY <1>6 DEF Handshake
  <2>2. Len(journal') = 0
    BY <2>1, EmptySeq
  <2>3. BufferInOrder' /\ JournalInOrder'
    BY <2>1, <2>2 DEF BufferInOrder, JournalInOrder
  <2> QED BY <1>2, <2>1, <2>3 DEF OrderInv
<1>7. CASE ReadRecord
  <2> DEFINE w == wire[conn]
             record == Head(w)
             fits == Len(record) <= BufSize
             w2 == (IF fits THEN <<>>
                    ELSE <<SubSeq(record, BufSize + 1, Len(record))>>)
                   \o Tail(w)
             b == IF fits THEN record ELSE SubSeq(record, 1, BufSize)
  <2>1. /\ pc = "read" /\ pc' = "handle"
        /\ w # <<>>
        /\ buf' = b
        /\ wire' = [wire EXCEPT ![conn] = w2]
        /\ UNCHANGED <<conn, journal, todo, sent>>
    BY <1>7 DEF ReadRecord
  <2>2. conn \in Client /\ InOrder(w, todo[conn]) /\ w \in Seq(Seq(Piece))
        /\ todo[conn] \in Seq(Piece)
    BY <1>0, <1>1, <2>1 DEF InSession, OrderInv, WireInOrder
  <2>3. /\ InOrder(w2, todo[conn])
        /\ UnderWay(w2, todo[conn]) \subseteq UnderWay(w, todo[conn])
        /\ PiecesOf(b) \subseteq UnderWay(w, todo[conn])
        /\ Precede(PiecesOf(b), UnderWay(w2, todo[conn]))
    BY <2>1, <2>2, ReadOrdered
  <2>4. wire'[conn] = w2 /\ \A c \in Client : c # conn => wire'[c] = wire[c]
    BY <1>0, <2>1, <2>2
  <2> HIDE DEF w2, b
  <2>5. /\ Ahead(conn)' = UnderWay(w2, todo[conn])
        /\ Ahead(conn) = UnderWay(w, todo[conn])
    BY <2>1, <2>4 DEF Ahead
  <2>6. WireInOrder'
    <3>1. ASSUME NEW c \in Client
          PROVE  InOrder(wire'[c], todo'[c])
                 /\ Genuine(sent'[c], UnderWay(wire'[c], todo'[c]))
      <4>1. CASE c = conn
        <5>1. Genuine(sent[conn], UnderWay(w, todo[conn]))
          BY <2>2, <2>5 DEF OrderInv, WireInOrder
        <5> HIDE DEF w
        <5> QED BY <2>1, <2>3, <2>4, <4>1, <5>1 DEF Genuine
      <4>2. CASE c # conn
        BY <2>1, <2>4, <4>2 DEF OrderInv, WireInOrder, Ahead
      <4> QED BY <4>1, <4>2
    <3> QED BY <3>1 DEF WireInOrder, Ahead
  <2>7. BufferInOrder'
    <3>1. Genuine(sent[conn], Ahead(conn))
      BY <2>2 DEF OrderInv, WireInOrder
    <3> HIDE DEF w
    <3>2. Genuine(sent[conn], PiecesOf(b)) /\ Precede(PiecesOf(b), Ahead(conn)')
      BY <2>3, <2>5, <3>1 DEF Genuine
    <3> QED BY <2>1, <3>2 DEF BufferInOrder
  <2>8. JournalInOrder'
    <3> HIDE DEF w
    <3>1. Unhandled' \cup Ahead(conn)' \subseteq Ahead(conn)
      BY <2>1, <2>3, <2>5 DEF Unhandled
    <3> QED BY <2>1, <3>1 DEF OrderInv, JournalInOrder, InSession
  <2> QED BY <2>6, <2>7, <2>8 DEF OrderInv
<1>8. CASE HandleRequest
  <2> DEFINE message == Request(buf)[1]
             entry == [msg |-> message.msg, doc |-> message.doc]
  <2>1. /\ pc = "handle" /\ pc' = "write"
        /\ WellFormed(Request(buf))
        /\ journal' = Append(journal, entry)
        /\ UNCHANGED <<conn, buf, todo, wire, sent>>
    BY <1>8 DEF HandleRequest, clients
  <2>2. message \in PiecesOf(buf) /\ message.part = 1
    BY <1>0, <2>1, WellFormedStart
  <2>3. conn \in Client /\ Len(sent[conn]) \in Nat
    BY <1>0, <1>1, <2>1 DEF InSession
  <2>4. message.msg \in Nat /\ message.doc \in Doc
    BY <1>0, <2>1, WellFormedType
  <2>5. /\ Genuine(sent[conn], PiecesOf(buf))
        /\ Precede(PiecesOf(buf), Ahead(conn))
        /\ Genuine(sent[conn], Ahead(conn))
    BY <2>1, <2>3 DEF OrderInv, BufferInOrder, WireInOrder
  <2>6. Unhandled = PiecesOf(buf)
    BY <2>1 DEF Unhandled
  <2> HIDE DEF message
  <2>7. entry.msg = message.msg /\ entry.doc = message.doc /\ entry \in Entry
    BY <2>4 DEF Entry
  <2> HIDE DEF entry
  <2>8. /\ entry.msg \in 1..Len(sent[conn])
        /\ entry.doc = sent[conn][entry.msg]
    BY <2>2, <2>5, <2>7 DEF Genuine
  <2>9. ASSUME NEW p \in Ahead(conn) PROVE Past(entry, p)
    <3>1. Earlier(message, p)
      BY <2>2, <2>5 DEF Precede
    <3> QED BY <2>2, <2>7, <3>1 DEF Earlier, Past
  <2>10. ASSUME NEW k \in 1..Len(journal) PROVE journal[k].msg < entry.msg
    <3>1. /\ Past(journal[k], message)
          /\ journal[k].msg \in 1..Len(sent[conn])
      BY <2>1, <2>2, <2>6 DEF OrderInv, JournalInOrder, InSession
    <3> QED BY <2>2, <2>4, <2>7, <3>1 DEF Past
  <2>11. /\ Len(journal) \in Nat
         /\ Len(journal') = Len(journal) + 1
         /\ \A k \in 1..Len(journal) : journal'[k] = journal[k]
         /\ journal'[Len(journal) + 1] = entry
    BY <1>0, <2>1, <2>7, AppendProperties, LenProperties
  <2>12. \A k \in 1..Len(journal') :
           \/ k \in 1..Len(journal) /\ journal'[k] = journal[k]
           \/ k = Len(journal) + 1 /\ journal'[k] = entry
    BY <2>11
  <2>13. Unhandled' = {} /\ Ahead(conn)' = Ahead(conn)
    BY <2>1 DEF Unhandled, Ahead
  <2>14. ASSUME NEW k \in 1..Len(journal')
         PROVE  /\ journal'[k].msg \in 1..Len(sent[conn])
                /\ journal'[k].doc = sent[conn][journal'[k].msg]
                /\ \A p \in Ahead(conn) : Past(journal'[k], p)
    <3>1. CASE k \in 1..Len(journal) /\ journal'[k] = journal[k]
      BY <2>1, <3>1 DEF OrderInv, JournalInOrder, InSession
    <3>2. CASE journal'[k] = entry
      BY <2>8, <2>9, <3>2
    <3> QED BY <2>12, <3>1, <3>2
  <2>15. ASSUME NEW j \in 1..Len(journal'), NEW k \in 1..Len(journal'), j < k
         PROVE  journal'[j].msg < journal'[k].msg
    <3>1. j \in 1..Len(journal) /\ journal'[j] = journal[j]
      BY <2>11, <2>12, <2>15
    <3>2. CASE k \in 1..Len(journal) /\ journal'[k] = journal[k]
      BY <2>1, <2>15, <3>1, <3>2 DEF OrderInv, JournalInOrder, InSession
    <3>3. CASE journal'[k] = entry
      BY <2>10, <3>1, <3>3
    <3> QED BY <2>12, <3>2, <3>3
  <2>16. JournalInOrder'
    BY <2>1, <2>13, <2>14, <2>15 DEF JournalInOrder
  <2>17. BufferInOrder'
    BY <2>1 DEF BufferInOrder
  <2> QED BY <1>2, <2>1, <2>16, <2>17 DEF OrderInv
<1>9. ASSUME NEW c \in Client, NEW d \in Doc, SendMessage(c, d)
      PROVE  OrderInv'
  <2> DEFINE n == Len(sent[c]) + 1
             text == Pieces(n, d)
  <2>1. /\ sent' = [sent EXCEPT ![c] = Append(@, d)]
        /\ todo' = [todo EXCEPT ![c] = @ \o Pieces(Len(sent'[c]), d)]
        /\ UNCHANGED <<pc, conn, buf, journal, wire>>
    BY <1>9 DEF SendMessage, server
  <2>2. /\ Len(Append(sent[c], d)) = n
        /\ \A i \in 1..Len(sent[c]) : Append(sent[c], d)[i] = sent[c][i]
        /\ Append(sent[c], d)[n] = d
        /\ Len(sent[c]) \in Nat
    BY <1>0, AppendProperties
  <2>3. /\ sent'[c] = Append(sent[c], d)
        /\ \A e \in Client : e # c => sent'[e] = sent[e] /\ todo'[e] = todo[e]
        /\ todo'[c] = todo[c] \o Pieces(Len(sent'[c]), d)
    BY <1>0, <2>1
  <2>4. todo'[c] = todo[c] \o text /\ n \in Nat
    BY <2>2, <2>3
  <2>5. /\ text \in Seq(Piece)
        /\ Ordered(text)
        /\ \A p \in PiecesOf(text) : p.msg = n /\ p.doc = d
    BY <2>4, PiecesType, PiecesOrdered
  <2> HIDE DEF text
  <2>6. /\ InOrder(wire[c], todo[c])
        /\ Genuine(sent[c], UnderWay(wire[c], todo[c]))
        /\ wire[c] \in Seq(Seq(Piece))
        /\ todo[c] \in Seq(Piece)
    BY <1>0 DEF OrderInv, WireInOrder, Ahead
  <2>7. Precede(UnderWay(wire[c], todo[c]), PiecesOf(text))
    <3>1. ASSUME NEW p \in UnderWay(wire[c], todo[c]), NEW q \in PiecesOf(text)
          PROVE  Earlier(p, q)
      <4>1. p.msg \in 1..Len(sent[c]) /\ q.msg = Len(sent[c]) + 1
        BY <2>5, <2>6 DEF Genuine
      <4> QED BY <2>2, <4>1 DEF Earlier
    <3> QED BY <3>1 DEF Precede
  <2>8. /\ InOrder(wire[c], todo[c] \o text)
        /\ UnderWay(wire[c], todo[c] \o text)
             = UnderWay(wire[c], todo[c]) \cup PiecesOf(text)
    BY <2>5, <2>6, <2>7, SendOrdered
  <2>9. ASSUME NEW e \in Client
        PROVE  /\ InOrder(wire'[e], todo'[e])
               /\ Genuine(sent'[e], UnderWay(wire'[e], todo'[e]))
               /\ Len(sent'[e]) >= Len(sent[e])
               /\ \A i \in 1..Len(sent[e]) : sent'[e][i] = sent[e][i]
               /\ \A p \in UnderWay(wire'[e], todo'[e]) :
                    p \in UnderWay(wire[e], todo[e]) \/ p.msg > Len(sent[e])
    <3>1. CASE e = c
      <4>1. wire'[c] = wire[c] /\ todo'[c] = todo[c] \o text
        BY <2>1, <2>4
      <4>2. ASSUME NEW p \in UnderWay(wire[c], todo[c]) \cup PiecesOf(text)
            PROVE  /\ p.msg \in 1..Len(sent'[c])
                   /\ p.doc = sent'[c][p.msg]
                   /\ p \in UnderWay(wire[c], todo[c]) \/ p.msg > Len(sent[c])
        <5>1. CASE p \in UnderWay(wire[c], todo[c])
          <6>1. p.msg \in 1..Len(sent[c]) /\ p.doc = sent[c][p.msg]
            BY <2>6, <5>1 DEF Genuine
          <6> QED BY <2>2, <2>3, <5>1, <6>1
        <5>2. CASE p \in PiecesOf(text)
          <6>1. p.msg = n /\ p.doc = d
            BY <2>5, <5>2
          <6> QED BY <2>2, <2>3, <6>1
        <5> QED BY <5>1, <5>2
      <4>3. /\ Len(sent'[c]) >= Len(sent[c])
            /\ \A i \in 1..Len(sent[c]) : sent'[c][i] = sent[c][i]
        BY <2>2, <2>3
      <4>4. Genuine(sent'[c], UnderWay(wire'[c], todo'[c]))
        BY <2>8, <4>1, <4>2 DEF Genuine
      <4>5. \A p \in UnderWay(wire'[c], todo'[c]) :
              p \in UnderWay(wire[c], todo[c]) \/ p.msg > Len(sent[c])
        BY <2>8, <4>1, <4>2
      <4> QED BY <2>8, <3>1, <4>1, <4>3, <4>4, <4>5
    <3>2. CASE e # c
      <4>1. wire'[e] = wire[e] /\ todo'[e] = todo[e] /\ sent'[e] = sent[e]
        BY <2>1, <2>3, <3>2
      <4>2. Len(sent[e]) \in Nat
        BY <1>0
      <4> QED BY <4>1, <4>2 DEF OrderInv, WireInOrder, Ahead
    <3> QED BY <3>1, <3>2
  <2>10. WireInOrder'
    BY <2>9 DEF WireInOrder, Ahead
  <2>11. \A e \in Client :
           /\ Len(sent'[e]) >= Len(sent[e])
           /\ \A i \in 1..Len(sent[e]) : sent'[e][i] = sent[e][i]
           /\ \A p \in Ahead(e)' : p \in Ahead(e) \/ p.msg > Len(sent[e])
    BY <2>9 DEF Ahead
  <2>12. BufferInOrder' /\ JournalInOrder'
    BY <1>0, <2>1, <2>10, <2>11, ClientsKeepOrder
  <2> QED BY <2>10, <2>12 DEF OrderInv
\* Steps of the clients that add no piece.
<1>10. ASSUME UNCHANGED <<pc, conn, buf, journal, sent>>, WireInOrder',
              \A c \in Client : Ahead(c)' \subseteq Ahead(c)
       PROVE  OrderInv'
  <2>1. \A e \in Client :
           /\ Len(sent'[e]) >= Len(sent[e])
           /\ \A i \in 1..Len(sent[e]) : sent'[e][i] = sent[e][i]
           /\ \A p \in Ahead(e)' : p \in Ahead(e) \/ p.msg > Len(sent[e])
    BY <1>0, <1>10
  <2>2. BufferInOrder' /\ JournalInOrder'
    BY <1>0, <1>10, <2>1, ClientsKeepOrder
  <2> QED BY <1>10, <2>2 DEF OrderInv
<1>11. ASSUME NEW c \in Client, FlushSome(c)
       PROVE  OrderInv'
  <2>1. PICK n \in 1..Len(todo[c]) : Flush(c, n)
    BY <1>11 DEF FlushSome
  <2> DEFINE w2 == Append(wire[c], SubSeq(todo[c], 1, n))
             t2 == SubSeq(todo[c], n + 1, Len(todo[c]))
  <2>2. /\ UNCHANGED <<pc, conn, buf, journal, sent>>
        /\ wire' = [wire EXCEPT ![c] = w2]
        /\ todo' = [todo EXCEPT ![c] = t2]
    BY <2>1 DEF Flush, server
  <2>3. /\ InOrder(wire[c], todo[c])
        /\ wire[c] \in Seq(Seq(Piece))
        /\ todo[c] \in Seq(Piece)
    BY <1>0 DEF OrderInv, WireInOrder
  <2>4. /\ InOrder(w2, t2)
        /\ UnderWay(w2, t2) \subseteq UnderWay(wire[c], todo[c])
    BY <2>3, FlushOrdered
  <2> HIDE DEF w2, t2
  <2>5. /\ wire'[c] = w2 /\ todo'[c] = t2
        /\ \A e \in Client : e # c => wire'[e] = wire[e] /\ todo'[e] = todo[e]
    BY <1>0, <2>2
  <2>6. ASSUME NEW e \in Client
        PROVE  /\ InOrder(wire'[e], todo'[e])
               /\ UnderWay(wire'[e], todo'[e]) \subseteq UnderWay(wire[e], todo[e])
    <3>1. CASE e = c
      BY <2>4, <2>5, <3>1
    <3>2. CASE e # c
      BY <2>5, <3>2 DEF OrderInv, WireInOrder
    <3> QED BY <3>1, <3>2
  <2>7. \A e \in Client : Ahead(e)' \subseteq Ahead(e)
    BY <2>6 DEF Ahead
  <2>8. WireInOrder'
    BY <2>2, <2>6, <2>7 DEF OrderInv, WireInOrder, Genuine
  <2> QED BY <1>10, <2>2, <2>7, <2>8
<1>12. ASSUME NEW c \in Client, Die(c)
       PROVE  OrderInv'
  <2>1. UNCHANGED <<pc, conn, buf, journal>> /\ Disconnect({c}, "dead")
    BY <1>12 DEF Die, server
  <2>2. /\ WireInOrder' /\ sent' = sent
        /\ \A e \in Client : Ahead(e)' \subseteq Ahead(e)
    BY <2>1, DisconnectOrder DEF OrderInv
  <2> QED BY <1>10, <2>1, <2>2
<1>13. ASSUME NEW c \in Client, Connect(c) \/ Close(c)
       PROVE  OrderInv'
  <2>1. UNCHANGED <<pc, conn, buf, journal, sent, todo, wire>>
    BY <1>13 DEF Connect, Close, server
  <2> QED BY <1>2, <1>10, <2>1
<1>14. CASE UNCHANGED vars
  <2>1. UNCHANGED <<pc, conn, buf, journal, sent, todo, wire>>
    BY <1>14 DEF vars, server, clients
  <2> QED BY <1>2, <1>10, <2>1
<1>15. CASE StartupCall \/ StartupFails \/ Accept \/ AcceptFails
            \/ HandshakeFails \/ ParseFailure \/ WriteReset \/ WriteFails
            \/ CloseNotify
  <2>1. UNCHANGED <<todo, wire, sent>> /\ pc' \notin InSession
    BY <1>15 DEF StartupCall, StartupFails, Accept, AcceptFails,
       HandshakeFails, ParseFailure, WriteReset, WriteFails, CloseNotify,
       clients, InSession
  <2> QED BY <1>3, <2>1
<1>16. CASE ReadEnd \/ WriteReply
  <2>1. /\ UNCHANGED <<todo, wire, sent, conn, journal>>
        /\ pc \in InSession /\ pc' # "handle"
    BY <1>16 DEF ReadEnd, WriteReply, clients, InSession
  <2> QED BY <1>4, <2>1
<1>17. CASE Reset \/ Exit \/ ReturnFromMain
  <2>1. pc' \notin InSession
    BY <1>17 DEF Reset, Exit, ReturnFromMain, InSession
  <2> QED BY <1>5, <1>17, <2>1 DEF Reset, Exit, ReturnFromMain, ProcessGone
<1> QED BY <1>6, <1>7, <1>8, <1>9, <1>11, <1>12, <1>13, <1>14, <1>15, <1>16,
        <1>17 DEF Next, ServerStep, ServerAlone, ClientStep

\* Whatever records a client's messages were cut into, the server executes
\* messages it sent, whole, in order and none twice (network.c:214-250).
THEOREM OrderCorrect == Spec => []ExecutedInOrder
<1>1. Init => OrderInv
  BY OrderInit
<1>2. CoreInv /\ CoreInv' /\ OrderInv /\ [Next]_vars => OrderInv'
  BY OrderStep
<1>3. CoreInv /\ OrderInv => ExecutedInOrder
  <2> SUFFICES ASSUME CoreInv, OrderInv, pc \in InSession
               PROVE  /\ \A k \in 1..Len(journal) :
                           /\ journal[k].msg \in 1..Len(sent[conn])
                           /\ journal[k].doc = sent[conn][journal[k].msg]
                      /\ \A k \in 1..(Len(journal) - 1) :
                           journal[k].msg < journal[k + 1].msg
    BY DEF ExecutedInOrder
  <2>1. Len(journal) \in Nat
    BY LenProperties DEF CoreInv, TypeOK
  <2>2. \A k \in 1..(Len(journal) - 1) :
          k \in 1..Len(journal) /\ k + 1 \in 1..Len(journal) /\ k < k + 1
    BY <2>1
  <2> QED BY <2>2 DEF OrderInv, JournalInOrder
<1> QED BY <1>1, <1>2, <1>3, CoreCorrect, PTL DEF Spec

-----------------------------------------------------------------------------
(* One whole message to a record.                                          *)

\* A message in one record that fits the buffer parses, and is the request
\* the server acts on.
LEMMA WholeMessageParses ==
  ASSUME NEW i \in Nat, NEW d \in Doc
  PROVE  /\ WellFormed(Request(Pieces(i, d)))
         /\ Request(Pieces(i, d))[1].msg = i
<1> DEFINE s == Pieces(i, d)
           n == d.size
<1>1. n \in Nat /\ n > 0
  <2>1. n \in Nat \ {0}
    BY RequestAssumption
  <2> QED BY <2>1
<1>2. Len(s) = n + 2 /\ s \in Seq(Piece)
  BY PiecesType, PiecesOrdered
<1>3. ASSUME NEW k \in 1..(n + 2)
      PROVE  s[k].msg = i /\ s[k].doc = d /\ s[k].part = k
  <2>1. s[k] = [msg |-> i, doc |-> d, part |-> k]
    BY DEF Pieces
  <2> HIDE DEF s, n
  <2> QED BY <2>1
<1>4. \A k \in 1..(n + 2) : s[k].doc.size = n
  BY <1>3
<1> HIDE DEF s, n
<1>5. Delimiters(s) = {n + 1}
  <2>1. n + 1 \in 1..(Len(s) - 1) /\ n + 1 \in 1..(n + 2)
        /\ (n + 1) + 1 \in 1..(n + 2) /\ (n + 1) + 1 = n + 2
    BY <1>1, <1>2
  <2>2. /\ s[n + 1].part = s[n + 1].doc.size + 1
        /\ s[(n + 1) + 1].part = s[(n + 1) + 1].doc.size + 2
    BY <1>3, <1>4, <2>1
  <2>3. n + 1 \in Delimiters(s)
    BY <2>1, <2>2 DEF Delimiters
  <2>4. ASSUME NEW j \in Delimiters(s) PROVE j = n + 1
    <3>1. j \in 1..(Len(s) - 1) /\ s[j].part = s[j].doc.size + 1
      BY DEF Delimiters
    <3>2. j \in 1..(n + 2)
      BY <1>1, <1>2, <3>1
    <3> QED BY <1>3, <1>4, <3>1, <3>2
  <2> QED BY <2>3, <2>4
<1>6. FirstOf(Delimiters(s)) = n + 1
  <2>1. Delimiters(s) \subseteq Nat /\ Delimiters(s) # {}
    BY <1>1, <1>5
  <2>2. FirstOf(Delimiters(s)) \in Delimiters(s)
    BY <2>1, FirstOfIsFirst
  <2> QED BY <1>5, <2>2
<1> DEFINE body == SubSeq(s, 1, n)
<1>7. Request(s) = body
  <2>1. Delimiters(s) # {}
    BY <1>5
  <2>2. (n + 1) - 1 = n
    BY <1>1
  <2> QED BY <1>6, <2>1, <2>2 DEF Request
<1>8. /\ body \in Seq(Piece)
      /\ Len(body) = n
      /\ \A k \in 1..n : body[k] = s[k]
  <2>1. 1 \in Nat \ {0} /\ n \in Nat /\ n <= Len(s)
    BY <1>1, <1>2
  <2>2. /\ body \in Seq(Piece)
        /\ Len(body) = IF 1 <= n THEN n - 1 + 1 ELSE 0
        /\ \A k \in 1..(n - 1 + 1) : body[k] = s[1 + k - 1]
    BY <1>2, <2>1, SubSeqType
  <2> HIDE DEF body
  <2>3. ASSUME NEW k \in 1..n PROVE body[k] = s[k]
    <3>1. k \in 1..(n - 1 + 1) /\ 1 + k - 1 = k
      BY <1>1
    <3> QED BY <2>2, <3>1
  <2> QED BY <1>1, <2>2, <2>3
<1> HIDE DEF body
<1>9. \A k \in 1..n : body[k].msg = i /\ body[k].part = k /\ body[k].doc.size = n
  BY <1>1, <1>3, <1>4, <1>8
<1>10. 1 \in 1..n /\ body # <<>>
  BY <1>1, <1>8, EmptySeq
<1>11. WellFormed(body) /\ body[1].msg = i
  BY <1>8, <1>9, <1>10 DEF WellFormed
<1> QED BY <1>7, <1>11 DEF s

-----------------------------------------------------------------------------

\* A connection on which the client may still write and the server read.
Open(c) == cst[c] \in {"up", "closed"}

\* The messages of c that the server has yet to read, when each is a record.
Unread(c) == Len(wire[c]) + IF todo[c] = <<>> THEN 0 ELSE 1

\* The m-th message of c, as a text.
Message(c, m) == Pieces(m, sent[c][m])

\* What is on its way of c are its last messages, one to a record.
FramedOnWire(c) ==
  /\ cst[c] \in {"new", "queued"} => sent[c] = <<>>
  /\ ~ Open(c) => wire[c] = <<>> /\ todo[c] = <<>>
  /\ Unread(c) <= Len(sent[c])
  /\ todo[c] # <<>> => todo[c] = Message(c, Len(sent[c]))
  /\ \A r \in 1..Len(wire[c]) :
       wire[c][r] = Message(c, Len(sent[c]) - Unread(c) + r)

\* A session executed the messages that are no longer on their way, all of
\* them; the next is in the buffer while it is handled.
FramedSession ==
  /\ pc # "returned"
  /\ pc \in InSession =>
       /\ \A k \in 1..Len(journal) : journal[k].msg = k
       /\ Open(conn) => Len(sent[conn]) = Len(journal) + Unread(conn)
                                          + IF pc = "handle" THEN 1 ELSE 0
       /\ pc = "handle" => \E d \in Doc : buf = Pieces(Len(journal) + 1, d)

FramedInv == (\A c \in Client : FramedOnWire(c)) /\ FramedSession

\* No connection has a message yet.
LEMMA FramedInit == Init => FramedInv
<1> SUFFICES ASSUME Init PROVE FramedInv
  OBVIOUS
<1>1. ASSUME NEW c \in Client PROVE FramedOnWire(c)
  <2>1. wire[c] = <<>> /\ todo[c] = <<>> /\ sent[c] = <<>> /\ Len(sent[c]) \in Nat
    BY EmptySeq DEF Init
  <2> QED BY <2>1, EmptySeq DEF FramedOnWire, Unread
<1>2. FramedSession
  BY DEF Init, FramedSession, InSession
<1> QED BY <1>1, <1>2 DEF FramedInv

\* Every step of the server consumes whole messages, and every step of a
\* client puts whole messages on their way.
LEMMA FramedStep ==
  ASSUME CoreInv, CoreInv', Framed, FramedInv, [Next]_vars
  PROVE  FramedInv'
<1>0. /\ cst \in [Client -> ConnState]
      /\ todo \in [Client -> Seq(Piece)]
      /\ wire \in [Client -> Seq(Seq(Piece))]
      /\ sent \in [Client -> Seq(Doc)]
      /\ journal \in Seq(Entry)
      /\ Len(journal) \in Nat
      /\ \A c \in Client : Len(sent[c]) \in Nat /\ Len(wire[c]) \in Nat
  BY LenProperties DEF CoreInv, TypeOK
<1>1. pc \in InSession => conn \in Client
  BY DEF CoreInv, ContextAtLabel
<1>2. \A c \in Client : Unread(c) \in Nat /\ Unread(c) <= Len(sent[c])
  BY <1>0 DEF FramedInv, FramedOnWire, Unread
<1>3. ASSUME NEW c \in Client, sent'[c] = sent[c], wire'[c] = wire[c],
             todo'[c] = todo[c],
             Open(c)' = Open(c),
             cst'[c] \in {"new", "queued"} => cst[c] \in {"new", "queued"}
      PROVE  FramedOnWire(c)' /\ Unread(c)' = Unread(c)
  <2>1. Unread(c)' = Unread(c)
    BY <1>3 DEF Unread
  <2>2. FramedOnWire(c)
    BY DEF FramedInv
  <2> QED BY <1>3, <2>1, <2>2 DEF FramedOnWire, Message
\* A connection that is gone.
<1>4. ASSUME NEW c \in Client, sent'[c] = sent[c], wire'[c] = <<>>,
             todo'[c] = <<>>, cst'[c] \notin {"new", "queued"}
      PROVE  FramedOnWire(c)'
  <2>1. Len(<<>>) = 0
    BY EmptySeq
  <2>2. Unread(c)' = 0
    BY <1>4, <2>1 DEF Unread
  <2>3. Len(sent'[c]) \in Nat
    BY <1>0, <1>4
  <2> QED BY <1>4, <2>1, <2>2, <2>3 DEF FramedOnWire
<1>5. ASSUME NEW S, NEW how \in {"dropped", "dead"}, Disconnect(S, how),
             NEW c \in Client
      PROVE  FramedOnWire(c)'
  <2>1. CASE c \in S
    <3>1. /\ sent'[c] = sent[c] /\ wire'[c] = <<>> /\ todo'[c] = <<>>
          /\ cst'[c] \notin {"new", "queued"}
      BY <1>5, <2>1 DEF Disconnect
    <3> QED BY <1>4, <3>1
  <2>2. CASE c \notin S
    <3>1. /\ sent'[c] = sent[c] /\ wire'[c] = wire[c] /\ todo'[c] = todo[c]
          /\ cst'[c] = cst[c]
      BY <1>5, <2>2 DEF Disconnect
    <3> QED BY <1>3, <3>1 DEF Open
  <2> QED BY <2>1, <2>2
\* Steps that leave the connections alone.
<1>6. ASSUME UNCHANGED <<cst, todo, wire, sent>>
      PROVE  /\ \A c \in Client : FramedOnWire(c)'
             /\ \A c \in Client : Unread(c)' = Unread(c)
  BY <1>3, <1>6 DEF Open
<1>7. ASSUME UNCHANGED <<cst, todo, wire, sent>>, pc' \notin InSession,
             pc' # "returned"
      PROVE  FramedInv'
  BY <1>6, <1>7 DEF FramedInv, FramedSession
<1>8. ASSUME NEW S, NEW how \in {"dropped", "dead"}, Disconnect(S, how),
             pc' \notin InSession, pc' # "returned"
      PROVE  FramedInv'
  BY <1>5, <1>8 DEF FramedInv, FramedSession
<1>9. CASE StartupCall \/ StartupFails \/ Accept \/ AcceptFails
           \/ HandshakeFails \/ WriteReset \/ WriteFails \/ CloseNotify
  <2>1. /\ UNCHANGED <<cst, todo, wire, sent>>
        /\ pc' \notin InSession /\ pc' # "returned"
    BY <1>9 DEF StartupCall, StartupFails, Accept, AcceptFails,
       HandshakeFails, WriteReset, WriteFails, CloseNotify, clients,
       InSession
  <2> QED BY <1>7, <2>1
<1>10. CASE Reset \/ Exit \/ ReturnFromMain
  <2>1. pc' \notin InSession /\ pc' # "returned"
    BY <1>10 DEF Reset, Exit, ReturnFromMain, InSession
  <2>2. \E S : Disconnect(S, "dropped")
    BY <1>10 DEF Reset, Exit, ReturnFromMain, ProcessGone
  <2> QED BY <1>8, <2>1, <2>2
<1>11. CASE ParseFailure
  <2>1. pc = "handle" /\ ~ WellFormed(Request(buf))
    BY <1>11 DEF ParseFailure
  <2>2. PICK d \in Doc : buf = Pieces(Len(journal) + 1, d)
    BY <2>1 DEF FramedInv, FramedSession, InSession
  <2>3. Len(journal) + 1 \in Nat
    BY <1>0
  <2> QED BY <2>1, <2>2, <2>3, WholeMessageParses
<1>12. CASE Handshake
  <2>1. /\ pc = "handshake" /\ pc' = "read" /\ journal' = <<>>
        /\ UNCHANGED <<conn, todo, wire, sent>>
        /\ conn \in Client /\ peer = NoClient /\ cst[conn] = "queued"
        /\ cst' = [cst EXCEPT ![conn] = "up"]
    BY <1>12 DEF Handshake, CoreInv, ContextAtLabel
  <2>2. /\ sent[conn] = <<>> /\ wire[conn] = <<>> /\ todo[conn] = <<>>
    BY <2>1 DEF FramedInv, FramedOnWire, Open
  <2>3. Len(<<>>) = 0
    BY EmptySeq
  <2>4. Unread(conn)' = 0
    BY <2>1, <2>2, <2>3 DEF Unread
  <2>5. cst'[conn] = "up" /\ \A c \in Client : c # conn => cst'[c] = cst[c]
    BY <1>0, <2>1
  <2>6. ASSUME NEW c \in Client PROVE FramedOnWire(c)'
    <3>1. CASE c = conn
      BY <1>4, <2>1, <2>2, <2>5, <3>1
    <3>2. CASE c # conn
      BY <1>3, <2>1, <2>5, <3>2 DEF Open
    <3> QED BY <3>1, <3>2
  <2>7. FramedSession'
    BY <2>1, <2>2, <2>3, <2>4 DEF FramedSession
  <2> QED BY <2>6, <2>7 DEF FramedInv
<1>13. CASE ReadRecord
  <2> DEFINE w == wire[conn]
             m == Len(sent[conn]) - Unread(conn) + 1
             rest == Tail(w)
  <2>1. /\ pc = "read" /\ pc' = "handle" /\ w # <<>>
        /\ UNCHANGED <<conn, journal, cst, todo, sent>>
    BY <1>13 DEF ReadRecord
  <2>2. conn \in Client /\ FramedOnWire(conn) /\ w \in Seq(Seq(Piece))
    BY <1>0, <1>1, <2>1 DEF InSession, FramedInv
  <2>3. /\ Head(w) = w[1] /\ 1 \in 1..Len(w) /\ Len(w) \in Nat
        /\ rest \in Seq(Seq(Piece))
        /\ Len(rest) = Len(w) - 1
        /\ \A r \in 1..Len(rest) : rest[r] = w[r + 1]
    BY <2>1, <2>2, HeadTailProperties, EmptySeq, LenProperties
  <2>4. Head(w) = Message(conn, m)
    BY <2>2, <2>3 DEF FramedOnWire
  <2>5. /\ Unread(conn) >= 1 /\ m \in 1..Len(sent[conn]) /\ m \in Nat
        /\ Len(sent[conn]) \in Nat
    <3>1. Unread(conn) >= Len(w)
      <4> DEFINE more == IF todo[conn] = <<>> THEN 0 ELSE 1
      <4>1. more \in Nat /\ Unread(conn) = Len(w) + more
        BY DEF Unread
      <4> HIDE DEF more, w
      <4> QED BY <2>3, <4>1
    <3> HIDE DEF w
    <3> QED BY <1>0, <1>2, <2>2, <2>3, <3>1
  <2>6. sent[conn][m] \in Doc
    BY <1>0, <2>2, <2>5, ElementOfSeq
  <2>7. Len(Head(w)) <= BufSize
    <3>1. Len(Head(w)) = sent[conn][m].size + 2
      BY <2>4, <2>5, <2>6, PiecesOrdered DEF Message
    <3> QED BY <2>6, <3>1 DEF Framed
  <2>8. buf' = Head(w) /\ wire' = [wire EXCEPT ![conn] = rest]
    <3>1. buf' = Head(w) /\ wire' = [wire EXCEPT ![conn] = <<>> \o Tail(@)]
      BY <1>13, <2>7 DEF ReadRecord
    <3>2. <<>> \o rest = rest
      BY <2>3, ConcatEmptySeq
    <3> QED BY <1>0, <2>2, <3>1, <3>2
  <2>9. wire'[conn] = rest /\ \A c \in Client : c # conn => wire'[c] = wire[c]
    BY <1>0, <2>2, <2>8
  <2>10. Unread(conn)' = Unread(conn) - 1
    <3>1. Len(wire'[conn]) = Len(wire[conn]) - 1
      BY <2>3, <2>9
    <3> QED BY <1>0, <2>1, <2>2, <3>1 DEF Unread
  <2>11. FramedOnWire(conn)'
    <3>1. ASSUME NEW r \in 1..Len(rest)
          PROVE  rest[r] = Message(conn, Len(sent[conn]) - Unread(conn)' + r)
      <4>1. r + 1 \in 1..Len(w)
        BY <2>3
      <4>2. w[r + 1] = Message(conn, Len(sent[conn]) - Unread(conn) + (r + 1))
        BY <2>2, <4>1 DEF FramedOnWire
      <4>3. Len(sent[conn]) - Unread(conn) + (r + 1)
              = Len(sent[conn]) - Unread(conn)' + r
        <5>1. r \in Nat /\ Unread(conn) \in Nat /\ Len(sent[conn]) \in Nat
          BY <1>2, <2>2, <2>3, <2>5
        <5> HIDE DEF rest
        <5> QED BY <2>10, <5>1
      <4>4. rest[r] = w[r + 1]
        BY <2>3
      <4> HIDE DEF rest, w
      <4> QED BY <4>2, <4>3, <4>4
    <3>2. Open(conn)
      BY <2>1, <2>2 DEF FramedOnWire
    <3>3. cst[conn] \notin {"new", "queued"}
      BY <3>2 DEF Open
    <3>4. Unread(conn)' <= Len(sent[conn])
      BY <1>2, <2>2, <2>5, <2>10
    <3> HIDE DEF rest
    <3> QED BY <2>1, <2>2, <2>9, <3>1, <3>2, <3>3, <3>4
        DEF FramedOnWire, Message, Open
  <2>12. ASSUME NEW c \in Client PROVE FramedOnWire(c)'
    <3>1. CASE c # conn
      BY <1>3, <2>1, <2>9, <3>1 DEF Open
    <3> QED BY <2>1, <2>11, <3>1
  <2>13. Open(conn)
    BY <2>1, <2>2 DEF FramedOnWire
  <2>14. Len(sent[conn]) = Len(journal) + Unread(conn)
    BY <1>0, <1>2, <2>1, <2>2, <2>13 DEF FramedInv, FramedSession, InSession
  <2>15. m = Len(journal) + 1
    BY <1>0, <1>2, <2>2, <2>14
  <2>16. buf' = Pieces(Len(journal') + 1, sent[conn][m])
    BY <2>1, <2>4, <2>8, <2>15 DEF Message
  <2>17. Len(sent'[conn']) = Len(journal') + Unread(conn)' + 1
    BY <1>0, <1>2, <2>1, <2>2, <2>10, <2>14
  <2>18. \A k \in 1..Len(journal') : journal'[k].msg = k
    BY <2>1 DEF FramedInv, FramedSession, InSession
  <2>19. FramedSession'
    <3> HIDE DEF m
    <3> QED BY <2>1, <2>6, <2>16, <2>17, <2>18 DEF FramedSession
  <2> QED BY <2>12, <2>19 DEF FramedInv
<1>14. CASE HandleRequest
  <2> DEFINE message == Request(buf)[1]
             entry == [msg |-> message.msg, doc |-> message.doc]
  <2>1. /\ pc = "handle" /\ pc' = "write"
        /\ journal' = Append(journal, entry)
        /\ UNCHANGED <<conn, cst, todo, wire, sent>>
    BY <1>14 DEF HandleRequest, clients
  <2>2. PICK d \in Doc : buf = Pieces(Len(journal) + 1, d)
    BY <2>1 DEF FramedInv, FramedSession, InSession
  <2>3. Len(journal) + 1 \in Nat
    BY <1>0
  <2>4. message.msg = Len(journal) + 1
    BY <2>2, <2>3, WholeMessageParses
  <2> HIDE DEF message
  <2>5. entry.msg = Len(journal) + 1
    BY <2>4
  <2> HIDE DEF entry
  <2>6. journal' \in Seq(Entry)
    BY DEF CoreInv, TypeOK
  <2>7. /\ Len(journal') = Len(journal) + 1
        /\ \A k \in 1..Len(journal) : journal'[k] = journal[k]
        /\ journal'[Len(journal) + 1] = entry
    BY <1>0, <2>1
  <2>8. conn \in Client
    BY <1>1, <2>1 DEF InSession
  <2>9. /\ \A k \in 1..Len(journal) : journal[k].msg = k
        /\ Open(conn) => Len(sent[conn]) = Len(journal) + Unread(conn) + 1
    BY <2>1 DEF FramedInv, FramedSession, InSession
  <2>10. ASSUME NEW k \in 1..Len(journal') PROVE journal'[k].msg = k
    <3>1. k \in 1..Len(journal) \/ k = Len(journal) + 1
      BY <1>0, <2>7
    <3> QED BY <2>5, <2>7, <2>9, <3>1
  <2>11. Open(conn)' => Len(sent'[conn']) = Len(journal') + Unread(conn)' + 0
    BY <1>0, <1>2, <1>6, <2>1, <2>7, <2>8, <2>9 DEF Open
  <2>12. FramedSession'
    BY <2>1, <2>10, <2>11 DEF FramedSession
  <2> QED BY <1>6, <2>1, <2>12 DEF FramedInv
\* Steps within the session that neither read nor execute.
<1>15. CASE ReadEnd \/ WriteReply
  <2>1. /\ UNCHANGED <<conn, cst, todo, wire, sent, journal>>
        /\ pc \in InSession /\ pc # "handle" /\ pc' # "handle"
        /\ pc' # "returned"
    BY <1>15 DEF ReadEnd, WriteReply, clients, InSession
  <2>2. /\ \A k \in 1..Len(journal) : journal[k].msg = k
        /\ Open(conn) => Len(sent[conn]) = Len(journal) + Unread(conn) + 0
    BY <2>1 DEF FramedInv, FramedSession
  <2>3. Open(conn)' = Open(conn) /\ Unread(conn)' = Unread(conn)
    BY <1>1, <1>6, <2>1 DEF Open
  <2>4. FramedSession'
    BY <2>1, <2>2, <2>3 DEF FramedSession
  <2> QED BY <1>6, <2>1, <2>4 DEF FramedInv
\* Steps of the clients: what the session says of its connection.
<1>16. ASSUME UNCHANGED <<pc, conn, journal, buf>>,
              \A c \in Client :
                Open(c)' => Open(c) /\ Len(sent'[c]) = Len(sent[c])
                                                       + Unread(c)' - Unread(c)
       PROVE  FramedSession'
  <2>1. pc # "returned"
    BY DEF FramedInv, FramedSession
  <2>2. ASSUME pc \in InSession
        PROVE  /\ \A k \in 1..Len(journal) : journal[k].msg = k
               /\ pc = "handle" => \E d \in Doc : buf = Pieces(Len(journal) + 1, d)
    BY <2>2 DEF FramedInv, FramedSession
  <2>3. ASSUME pc \in InSession, Open(conn)', Unread(conn)' \in Int
        PROVE  Len(sent'[conn]) = Len(journal) + Unread(conn)'
                                  + IF pc = "handle" THEN 1 ELSE 0
    <3>1. /\ conn \in Client /\ conn' = conn
          /\ Open(conn)
          /\ Len(sent'[conn]) = Len(sent[conn]) + Unread(conn)' - Unread(conn)
      BY <1>1, <1>16, <2>3
    <3>2. Len(sent[conn]) = Len(journal) + Unread(conn)
                            + IF pc = "handle" THEN 1 ELSE 0
      BY <2>3, <3>1 DEF FramedInv, FramedSession
    <3> QED BY <1>0, <1>2, <2>3, <3>1, <3>2
  <2>4. pc \in InSession => Unread(conn)' \in Int
    <3>1. \A c \in Client : Unread(c)' \in Nat
      <4>1. \A c \in Client : wire'[c] \in Seq(Seq(Piece))
        BY DEF CoreInv, TypeOK
      <4>2. \A c \in Client : Len(wire'[c]) \in Nat
        BY <4>1, LenProperties
      <4>3. ASSUME NEW c \in Client PROVE Unread(c)' \in Nat
        <5> DEFINE more == IF todo'[c] = <<>> THEN 0 ELSE 1
        <5>1. more \in Nat /\ Unread(c)' = Len(wire'[c]) + more
          BY DEF Unread
        <5> HIDE DEF more
        <5> QED BY <4>2, <5>1
      <4> QED BY <4>3
    <3> QED BY <1>1, <1>16, <3>1
  <2> QED BY <1>16, <2>1, <2>2, <2>3, <2>4 DEF FramedSession
<1>17. ASSUME NEW c \in Client, NEW d \in Doc, SendMessage(c, d)
       PROVE  FramedInv'
  <2> DEFINE n == Len(sent[c]) + 1
  <2>1. /\ cst[c] = "up" /\ todo[c] = <<>>
        /\ sent' = [sent EXCEPT ![c] = Append(@, d)]
        /\ todo' = [todo EXCEPT ![c] = @ \o Pieces(Len(sent'[c]), d)]
        /\ UNCHANGED <<pc, conn, buf, journal, cst, wire>>
    BY <1>17 DEF SendMessage, Framed, server
  <2>2. /\ sent'[c] = Append(sent[c], d)
        /\ todo'[c] = todo[c] \o Pieces(Len(sent'[c]), d)
        /\ \A e \in Client : e # c => sent'[e] = sent[e] /\ todo'[e] = todo[e]
    BY <1>0, <2>1
  <2>3. /\ Len(sent'[c]) = n /\ n \in Nat
        /\ \A i \in 1..Len(sent[c]) : sent'[c][i] = sent[c][i]
        /\ sent'[c][n] = d
    BY <1>0, <2>2, AppendProperties
  <2>4. todo'[c] = Pieces(n, d) /\ todo'[c] # <<>>
    <3>1. Pieces(n, d) \in Seq(Piece)
      BY <2>3, PiecesType
    <3>2. <<>> \o Pieces(n, d) = Pieces(n, d)
      BY <3>1, ConcatEmptySeq
    <3>3. Pieces(n, d) # <<>>
      <4>1. Len(Pieces(n, d)) = d.size + 2 /\ d.size \in Nat
        BY <2>3, PiecesOrdered, RequestAssumption
      <4> QED BY <4>1, EmptySeq
    <3> QED BY <2>1, <2>2, <2>3, <3>2, <3>3
  <2>5. Unread(c) = Len(wire[c]) /\ Unread(c)' = Len(wire[c]) + 1
    BY <1>0, <2>1, <2>4 DEF Unread
  <2>6. FramedOnWire(c)'
    <3>1. ASSUME NEW r \in 1..Len(wire[c])
          PROVE  wire[c][r] = Message(c, Len(sent[c]) - Unread(c) + r)'
      <4> DEFINE m == Len(sent[c]) - Unread(c) + r
      <4>1. wire[c][r] = Message(c, m)
        BY DEF FramedInv, FramedOnWire
      <4>2. m \in 1..Len(sent[c])
        BY <1>0, <1>2, <2>5
      <4>3. Len(sent'[c]) - Unread(c)' + r = m
        BY <1>0, <2>3, <2>5
      <4> HIDE DEF m
      <4> QED BY <2>3, <4>1, <4>2, <4>3 DEF Message
    <3>2. Unread(c)' <= Len(sent'[c])
      BY <1>0, <1>2, <2>3, <2>5
    <3>3. todo'[c] = Message(c, Len(sent[c]))'
      BY <2>3, <2>4 DEF Message
    <3>4. Open(c)' /\ cst'[c] \notin {"new", "queued"}
      BY <2>1 DEF Open
    <3> QED BY <2>1, <3>1, <3>2, <3>3, <3>4 DEF FramedOnWire
  <2>7. ASSUME NEW e \in Client, e # c
        PROVE  FramedOnWire(e)' /\ Unread(e)' = Unread(e) /\ sent'[e] = sent[e]
    BY <1>3, <2>1, <2>2, <2>7 DEF Open
  <2>8. \A e \in Client :
          Open(e)' => Open(e) /\ Len(sent'[e]) = Len(sent[e])
                                                 + Unread(e)' - Unread(e)
    <3>1. Len(sent'[c]) = Len(sent[c]) + Unread(c)' - Unread(c)
      BY <1>0, <2>3, <2>5
    <3>2. \A e \in Client : e # c =>
            Len(sent'[e]) = Len(sent[e]) + Unread(e)' - Unread(e)
      BY <1>0, <1>2, <2>7
    <3> QED BY <2>1, <3>1, <3>2 DEF Open
  <2>9. FramedSession'
    BY <1>16, <2>1, <2>8
  <2> QED BY <2>6, <2>7, <2>9 DEF FramedInv
<1>18. ASSUME NEW c \in Client, FramedOnWire(c)', FramedSession',
              \A e \in Client : e # c => FramedOnWire(e)'
       PROVE  FramedInv'
  BY <1>18 DEF FramedInv
<1>19. ASSUME NEW c \in Client, FlushSome(c)
       PROVE  FramedInv'
  <2>1. PICK n \in 1..Len(todo[c]) : Flush(c, n)
    BY <1>19 DEF FlushSome
  <2>2. todo[c] \in Seq(Piece) /\ Len(todo[c]) \in Nat /\ todo[c] # <<>>
    BY <1>0, <2>1, LenProperties, EmptySeq
  <2>3. /\ n = Len(todo[c]) /\ cst[c] = "up"
        /\ wire' = [wire EXCEPT ![c] = Append(@, SubSeq(todo[c], 1, n))]
        /\ todo' = [todo EXCEPT ![c] = SubSeq(@, n + 1, Len(@))]
        /\ UNCHANGED <<pc, conn, buf, journal, cst, sent>>
    BY <2>1 DEF Flush, Framed, server
  <2>4. /\ SubSeq(todo[c], 1, n) = todo[c]
        /\ SubSeq(todo[c], n + 1, Len(todo[c])) = <<>>
    <3>1. n \in Int /\ n + 1 \in Int /\ Len(todo[c]) < n + 1
      BY <2>2, <2>3
    <3> QED BY <2>2, <2>3, <3>1, SubSeqFull, SubSeqEmpty
  <2>5. /\ wire'[c] = Append(wire[c], todo[c]) /\ todo'[c] = <<>>
        /\ \A e \in Client : e # c => wire'[e] = wire[e] /\ todo'[e] = todo[e]
    BY <1>0, <2>3, <2>4
  <2>6. /\ Len(wire'[c]) = Len(wire[c]) + 1
        /\ \A r \in 1..Len(wire[c]) : wire'[c][r] = wire[c][r]
        /\ wire'[c][Len(wire[c]) + 1] = todo[c]
    BY <1>0, <2>2, <2>5, AppendProperties
  <2>7. Unread(c) = Len(wire[c]) + 1 /\ Unread(c)' = Unread(c)
    BY <1>0, <2>2, <2>5, <2>6 DEF Unread
  <2>8. FramedOnWire(c)'
    <3>1. ASSUME NEW r \in 1..Len(wire'[c])
          PROVE  wire'[c][r] = Message(c, Len(sent[c]) - Unread(c) + r)
      <4>1. CASE r \in 1..Len(wire[c])
        BY <2>6, <4>1 DEF FramedInv, FramedOnWire
      <4>2. CASE r = Len(wire[c]) + 1
        <5>1. Len(sent[c]) - Unread(c) + r = Len(sent[c])
          BY <1>0, <2>7, <4>2
        <5>2. todo[c] = Message(c, Len(sent[c]))
          BY <2>2 DEF FramedInv, FramedOnWire
        <5> QED BY <2>6, <4>2, <5>1, <5>2
      <4> QED BY <1>0, <2>6, <4>1, <4>2
    <3>2. Open(c)' /\ cst'[c] \notin {"new", "queued"} /\ sent' = sent
      BY <2>3 DEF Open
    <3>3. Unread(c)' <= Len(sent[c])
      BY <1>2, <2>7
    <3> QED BY <2>5, <2>7, <3>1, <3>2, <3>3 DEF FramedOnWire, Message
  <2>9. ASSUME NEW e \in Client, e # c
        PROVE  FramedOnWire(e)' /\ Unread(e)' = Unread(e)
    BY <1>3, <2>3, <2>5, <2>9 DEF Open
  <2>10. \A e \in Client : Unread(e)' = Unread(e)
    BY <2>7, <2>9
  <2>11. \A e \in Client :
           Open(e)' => Open(e) /\ Len(sent'[e]) = Len(sent[e])
                                                  + Unread(e)' - Unread(e)
    BY <1>0, <1>2, <2>3, <2>10 DEF Open
  <2>12. FramedSession'
    BY <1>16, <2>3, <2>11
  <2> QED BY <1>18, <2>8, <2>9, <2>12
<1>20. ASSUME NEW c \in Client, Die(c)
       PROVE  FramedInv'
  <2>1. UNCHANGED <<pc, conn, buf, journal>> /\ Disconnect({c}, "dead")
    BY <1>20 DEF Die, server
  <2>2. \A e \in Client : FramedOnWire(e)'
    BY <1>5, <2>1
  <2>3. ASSUME NEW e \in Client, Open(e)'
        PROVE  Open(e) /\ Len(sent'[e]) = Len(sent[e]) + Unread(e)' - Unread(e)
    <3>1. e # c
      BY <2>1, <2>3 DEF Disconnect, Open
    <3>2. UNCHANGED <<wire[e], todo[e], sent[e], cst[e]>>
      BY <2>1, <3>1 DEF Disconnect
    <3>3. Unread(e)' = Unread(e)
      BY <3>2 DEF Unread
    <3> QED BY <1>0, <1>2, <2>3, <3>2, <3>3 DEF Open
  <2>4. FramedSession'
    BY <1>16, <2>1, <2>3
  <2> QED BY <2>2, <2>4 DEF FramedInv
<1>21. ASSUME NEW c \in Client, Connect(c) \/ Close(c)
       PROVE  FramedInv'
  <2>1. /\ UNCHANGED <<pc, conn, buf, journal, sent, todo, wire>>
        /\ \/ cst[c] = "new" /\ cst' = [cst EXCEPT ![c] = "queued"]
           \/ cst[c] = "up" /\ cst' = [cst EXCEPT ![c] = "closed"]
    BY <1>21 DEF Connect, Close, server
  <2>2. ASSUME NEW e \in Client
        PROVE  /\ Open(e)' = Open(e)
               /\ cst'[e] \in {"new", "queued"} => cst[e] \in {"new", "queued"}
    <3>1. CASE e = c
      BY <1>0, <2>1, <3>1 DEF Open
    <3>2. CASE e # c
      BY <1>0, <2>1, <3>2 DEF Open
    <3> QED BY <3>1, <3>2
  <2>3. \A e \in Client : FramedOnWire(e)' /\ Unread(e)' = Unread(e)
    BY <1>3, <2>1, <2>2
  <2>4. \A e \in Client :
          Open(e)' => Open(e) /\ Len(sent'[e]) = Len(sent[e])
                                                 + Unread(e)' - Unread(e)
    BY <1>0, <1>2, <2>1, <2>2, <2>3
  <2>5. FramedSession'
    BY <1>16, <2>1, <2>4
  <2> QED BY <2>3, <2>5 DEF FramedInv
<1>22. CASE UNCHANGED vars
  <2>1. UNCHANGED <<pc, conn, buf, journal, cst, sent, todo, wire>>
    BY <1>22 DEF vars, server, clients
  <2>2. \A e \in Client :
          Open(e)' => Open(e) /\ Len(sent'[e]) = Len(sent[e])
                                                 + Unread(e)' - Unread(e)
    BY <1>0, <1>2, <1>6, <2>1 DEF Open
  <2>3. FramedSession'
    BY <1>16, <2>1, <2>2
  <2> QED BY <1>6, <2>1, <2>3 DEF FramedInv
<1> QED BY <1>9, <1>10, <1>11, <1>12, <1>13, <1>14, <1>15, <1>17, <1>19,
        <1>20, <1>21, <1>22 DEF Next, ServerStep, ServerAlone, ClientStep

\* A client that puts each message in one record, no larger than the buffer,
\* has every one of them executed, however many it sends at once, and none
\* ends the server (network.c:214-253).
THEOREM FramedCorrect == Spec => []FramedRequestsServed
<1>1. Init => (Framed => FramedInv)
  BY FramedInit
<1>2. CoreInv /\ CoreInv' /\ (Framed => FramedInv) /\ [Next]_vars
        => (Framed => FramedInv)'
  BY FramedStep DEF Framed
<1>3. (Framed => FramedInv) => FramedRequestsServed
  BY DEF FramedInv, FramedSession, FramedRequestsServed
<1> QED BY <1>1, <1>2, <1>3, CoreCorrect, PTL DEF Spec
=============================================================================
