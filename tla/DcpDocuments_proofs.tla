------------------------- MODULE DcpDocuments_proofs -------------------------
(***************************************************************************)
(* Lemmas about the documents of DcpDocuments: what the XML reader makes   *)
(* of any document, that it refuses exactly what is not well-formed, when  *)
(* the three parsers accept a document, and what they return.              *)
(***************************************************************************)
EXTENDS DcpDocuments, FiniteSetTheorems, WellFoundedInduction, TLAPS

-----------------------------------------------------------------------------
(* Induction. A set of indices takes the place of the property.             *)

LEMMA LeastOf ==
  ASSUME NEW S \in SUBSET Nat, S # {}
  PROVE  \E i \in S : \A j \in S : i <= j
  <1>1. PICK i \in S : \A j \in S : <<j, i>> \notin OpToRel(<, Nat)
    BY NatLessThanWellFounded, WFMin, Zenon
  <1>2. ASSUME NEW j \in S PROVE i <= j
    <2>1. i \in Nat /\ j \in Nat
      OBVIOUS
    <2>2. j < i => <<j, i>> \in OpToRel(<, Nat)
      BY <2>1 DEF OpToRel
    <2>3. ~(j < i)
      BY <1>1, <2>2, Zenon
    <2> QED BY <2>1, <2>3
  <1> QED BY <1>2

LEMMA Induction ==
  ASSUME NEW n \in Nat, NEW P, 0 \in P, \A i \in 1 .. n : i - 1 \in P => i \in P
  PROVE  \A i \in 0 .. n : i \in P
  <1> DEFINE bad == {i \in 0 .. n : i \notin P}
  <1> SUFFICES ASSUME bad # {} PROVE FALSE
    OBVIOUS
  <1>1. PICK i \in bad : \A j \in bad : i <= j
    <2> bad \in SUBSET Nat
      OBVIOUS
    <2> HIDE DEF bad
    <2> QED BY LeastOf
  <1>2. i \in 1 .. n /\ i - 1 \in 0 .. n /\ i - 1 \notin bad
    BY <1>1
  <1> QED BY <1>1, <1>2

Follows(f, n, base, step) == f[0] = base /\ \A i \in 1 .. n : f[i] = step[<<f[i - 1], i>>]

\* A recursive function over a range exists if its step stays in a set.
LEMMA Recursion ==
  ASSUME NEW n \in Nat, NEW V, NEW base \in V, NEW step \in [V \X (1 .. n) -> V]
  PROVE  \E f \in [0 .. n -> V] : Follows(f, n, base, step)
  <1> DEFINE Upto(m, f) == f[0] = base /\ \A i \in 1 .. m : f[i] = step[<<f[i - 1], i>>]
             P == {m \in 0 .. n : \E f \in [0 .. m -> V] : Upto(m, f)}
  <1>1. 0 \in P
    <2>1. [i \in 0 .. 0 |-> base] \in [0 .. 0 -> V] /\ Upto(0, [i \in 0 .. 0 |-> base])
      OBVIOUS
    <2> HIDE DEF Upto
    <2> QED BY <2>1
  <1>2. ASSUME NEW i \in 1 .. n, i - 1 \in P PROVE i \in P
    <2>1. PICK f \in [0 .. i - 1 -> V] : Upto(i - 1, f)
      BY <1>2
    <2> DEFINE g == [j \in 0 .. i |-> IF j = i THEN step[<<f[i - 1], i>>] ELSE f[j]]
    <2>2. f[i - 1] \in V /\ <<f[i - 1], i>> \in V \X (1 .. n)
      OBVIOUS
    <2>3. g \in [0 .. i -> V]
      BY <2>2
    <2>4. g[0] = base
      BY <2>1
    <2>5. ASSUME NEW j \in 1 .. i PROVE g[j] = step[<<g[j - 1], j>>]
      <3>1. g[i] = step[<<f[i - 1], i>>] /\ (j # i => g[j] = f[j]) /\ g[j - 1] = f[j - 1]
        OBVIOUS
      <3>2. j # i => f[j] = step[<<f[j - 1], j>>]
        BY <2>1
      <3> HIDE DEF g
      <3> QED BY <3>1, <3>2
    <2>6. Upto(i, g)
      BY <2>4, <2>5
    <2> HIDE DEF Upto, g
    <2> QED BY <2>3, <2>6
  <1>3. n \in P
    <2> HIDE DEF P
    <2> QED BY <1>1, <1>2, Induction
  <1> QED BY <1>3 DEF Follows

-----------------------------------------------------------------------------
(* Words                                                                    *)

LEMMA SequenceOf ==
  ASSUME NEW S, NEW s \in Seq(S)
  PROVE  IsSeq(s) /\ Elements(s) \subseteq S
  <1>1. Elements(s) \subseteq S
    BY DEF Elements
  <1>2. s \in [1 .. Len(s) -> Elements(s)] /\ Len(s) \in Nat
    BY DEF Elements
  <1>3. s \in Seq(Elements(s))
    BY <1>2
  <1> QED BY <1>1, <1>3 DEF IsSeq

LEMMA SequenceFacts ==
  ASSUME NEW s, IsSeq(s)
  PROVE  /\ Len(s) \in Nat /\ DOMAIN s = 1 .. Len(s)
         /\ \A i \in DOMAIN s : s[i] \in Elements(s)
         /\ Elements(s) = {s[i] : i \in 1 .. Len(s)}
  BY DEF IsSeq, Elements

\* A list of lists of one set.
LEMMA Flattened ==
  ASSUME NEW S, NEW n \in Nat, NEW seqs \in [1 .. n -> Seq(S)]
  PROVE  Xml!FlattenSeq(seqs) \in Seq(S)
  <1>1. Len(seqs) = n /\ seqs \in Seq(Seq(S))
    OBVIOUS
  <1>2. CASE n = 0
    <2>1. seqs \in Seq(S)
      BY <1>2
    <2> QED BY <1>1, <1>2, <2>1 DEF Xml!FlattenSeq
  <1>3. CASE n # 0
    <2> DEFINE Body(f) == [i \in 1 .. Len(seqs) |-> IF i = 1 THEN seqs[i] ELSE f[i - 1] \o seqs[i]]
               flatten == CHOOSE f : f = Body(f)
               step == [p \in Seq(S) \X (1 .. n) |-> p[1] \o seqs[p[2]]]
    <2> DEFINE V == Seq(S)
    <2> DEFINE base == <<>>
    <2>1. step \in [V \X (1 .. n) -> V] /\ base \in V
      OBVIOUS
    <2>2. PICK g \in [0 .. n -> V] : Follows(g, n, base, step)
      <3> HIDE DEF step, V, Body, flatten, base
      <3> QED BY <2>1, Recursion
    <2>3. ASSUME NEW i \in 1 .. n PROVE g[i - 1] \in Seq(S) /\ g[i] = g[i - 1] \o seqs[i] /\ seqs[i] \in Seq(S)
      <3>1. i - 1 \in 0 .. n /\ <<g[i - 1], i>> \in Seq(S) \X (1 .. n)
        OBVIOUS
      <3> QED BY <2>2, <3>1 DEF Follows
    <2> DEFINE h == [i \in 1 .. n |-> g[i]]
    <2>4. h = Body(h)
      <3>1. ASSUME NEW i \in 1 .. n PROVE h[i] = Body(h)[i]
        <4>1. CASE i = 1
          <5>1. g[1] = <<>> \o seqs[1]
            <6>1. 1 \in 1 .. n /\ g[1 - 1] = <<>>
              <7> HIDE DEF Body, flatten, step
              <7> QED BY <2>2, <4>1 DEF Follows
            <6>2. g[1] = g[1 - 1] \o seqs[1]
              BY <2>3, <6>1
            <6> QED BY <6>1, <6>2
          <5>2. g[1] = seqs[1]
            BY <2>3, <4>1, <5>1
          <5> QED BY <1>1, <4>1, <5>2
        <4>2. CASE i # 1
          <5>1. i - 1 \in 1 .. n /\ h[i - 1] = g[i - 1] /\ h[i] = g[i]
            BY <4>2
          <5>2. Body(h)[i] = h[i - 1] \o seqs[i]
            <6> HIDE DEF h
            <6> QED BY <1>1, <4>2
          <5> QED BY <2>3, <5>1, <5>2
        <4> QED BY <4>1, <4>2
      <3> QED BY <1>1, <3>1
    <2>5. flatten = Body(flatten)
      <3> HIDE DEF Body, h
      <3> QED BY <2>4
    <2> DEFINE P == {i \in 0 .. n : i = 0 \/ flatten[i] \in V}
    <2>6. ASSUME NEW i \in 1 .. n, i - 1 \in P PROVE i \in P
      <3>1. flatten[i] = IF i = 1 THEN seqs[i] ELSE flatten[i - 1] \o seqs[i]
        <4> HIDE DEF flatten
        <4> QED BY <1>1, <2>5
      <3>2. i # 1 => flatten[i - 1] \in Seq(S)
        <4> HIDE DEF flatten
        <4> QED BY <2>6
      <3>3. seqs[i] \in Seq(S)
        OBVIOUS
      <3> HIDE DEF flatten, step, h, Body
      <3>4. flatten[i] \in V
        <4>1. CASE i = 1
          BY <3>1, <3>3, <4>1
        <4>2. CASE i # 1
          BY <3>1, <3>2, <3>3, <4>2
        <4> QED BY <4>1, <4>2
      <3> QED BY <3>4
    <2>7. n \in P
      <3> 0 \in P
        OBVIOUS
      <3> HIDE DEF P, flatten, step, h, Body, V
      <3>1. \A i \in 0 .. n : i \in P
        BY <2>6, Induction, Zenon
      <3> QED BY <3>1
    <2> QED BY <1>1, <1>3, <2>7 DEF Xml!FlattenSeq
  <1> QED BY <1>2, <1>3

\* What a text of the tree is.
IsText(words) == IsSeq(words) /\ \A word \in Elements(words) : IsWord(word)

LEMMA DecodedText ==
  ASSUME NEW words, IsWritten(words)
  PROVE  IsText(Xml!Decoded(words))
  <1> DEFINE W == {word \in UNION {Elements(Xml!DecodedWord(w)) : w \in Elements(words)} : IsWord(word)}
             n == Len(words)
             each == [i \in DOMAIN words |-> Xml!DecodedWord(words[i])]
  <1>1. n \in Nat /\ DOMAIN words = 1 .. n /\ \A i \in 1 .. n : words[i] \in Elements(words)
    BY SequenceFacts DEF IsWritten
  <1>2. ASSUME NEW w \in Elements(words) PROVE Xml!DecodedWord(w) \in Seq(W)
    <2> DEFINE one == Xml!DecodedWord(w)
    <2>1. \/ one = <<>>
          \/ \E v : IsWord(v) /\ one = <<v>>
      <3>1. CASE "encoded" \in DOMAIN w
        BY <3>1 DEF IsWritten, Xml!DecodedWord
      <3>2. CASE "encoded" \notin DOMAIN w /\ "entity" \in DOMAIN w
        <4>1. \A code : IsWord([character |-> code])
          BY DEF IsWord
        <4> QED BY <3>2, <4>1 DEF Xml!DecodedWord, Xml!DecodedCharacter
      <3>3. CASE "encoded" \notin DOMAIN w /\ "entity" \notin DOMAIN w
        BY <3>3 DEF IsWritten, Xml!DecodedWord
      <3> QED BY <3>1, <3>2, <3>3
    <2>2. CASE one = <<>>
      BY <2>2
    <2>3. ASSUME NEW v, IsWord(v), one = <<v>> PROVE one \in Seq(W)
      <3>1. v \in Elements(one)
        BY <2>3 DEF Elements
      <3>2. v \in W
        BY <2>3, <3>1
      <3> QED BY <2>3, <3>2
    <2> QED BY <2>1, <2>2, <2>3
  <1>3. each \in [1 .. n -> Seq(W)]
    <2> HIDE DEF W
    <2> QED BY <1>1, <1>2
  <1>4. Xml!Decoded(words) \in Seq(W)
    <2>1. Xml!Decoded(words) = Xml!FlattenSeq(each)
      BY DEF Xml!Decoded
    <2> HIDE DEF W, n, each
    <2> QED BY <1>1, <1>3, <2>1, Flattened
  <1>5. IsSeq(Xml!Decoded(words)) /\ Elements(Xml!Decoded(words)) \subseteq W
    <2> HIDE DEF W
    <2> QED BY <1>4, SequenceOf
  <1> QED BY <1>5 DEF IsText

-----------------------------------------------------------------------------
(* The tree of a document                                                   *)

\* N holds the children of each of its nodes; the texts are those of documents.
IsNode(N, node) ==
  /\ node = Xml!Node(node.name, node.attributes, node.words, node.children)
  /\ IsText(node.words)
  /\ node.children \in Seq(N)
  /\ IsSeq(node.attributes)
  /\ \A i \in DOMAIN node.attributes : IsText(node.attributes[i].words)

IsTree(N) == \A node \in N : IsNode(N, node)

\* The reader, while it reads a document.
IsReading(N, read) ==
  /\ read = [open |-> read.open, root |-> read.root, failed |-> read.failed, error |-> read.error]
  /\ read.open \in Seq(N)
  /\ read.root = Xml!NoNode \/ read.root \in N

IsToken(token) ==
  /\ IsWritten(token.words)
  /\ IsSeq(token.attributes) /\ \A attribute \in Elements(token.attributes) : IsAttribute(attribute)

LEMMA LargerTree ==
  ASSUME NEW N, IsTree(N), NEW node, IsNode(N, node)
  PROVE  IsTree(N \cup {node})
  <1>1. \A s \in Seq(N) : s \in Seq(N \cup {node})
    OBVIOUS
  <1>2. \A n : IsNode(N, n) => IsNode(N \cup {node}, n)
    BY <1>1 DEF IsNode
  <1> QED BY <1>2 DEF IsTree

\* The reader may be in some tree.
Readable(read) == \E N : IsTree(N) /\ IsReading(N, read)

\* The parts of the reader.
Parts(read, open, root, failed, error) ==
  /\ read = [open |-> open, root |-> root, failed |-> failed, error |-> error]
  /\ read.open = open /\ read.root = root /\ read.failed = failed /\ read.error = error

LEMMA MadeParts ==
  ASSUME NEW o, NEW r, NEW f, NEW e
  PROVE  Parts([open |-> o, root |-> r, failed |-> f, error |-> e], o, r, f, e)
  BY DEF Parts

LEMMA UpdatedParts ==
  ASSUME NEW read, NEW o, NEW r, NEW f, NEW e, Parts(read, o, r, f, e), NEW x, NEW y
  PROVE  /\ Parts([read EXCEPT !.open = x], x, r, f, e)
         /\ Parts([read EXCEPT !.open = x, !.root = y], x, y, f, e)
         /\ Parts(Xml!Fail(read, x), o, r, TRUE, x)
  <1> DEFINE new == [open |-> o, root |-> r, failed |-> f, error |-> e]
  <1>1. read = new
    BY DEF Parts
  <1>2. [new EXCEPT !.open = x] = [open |-> x, root |-> r, failed |-> f, error |-> e]
    OBVIOUS
  <1>3. [new EXCEPT !.open = x, !.root = y] = [open |-> x, root |-> y, failed |-> f, error |-> e]
    <2>1. [[open |-> x, root |-> r, failed |-> f, error |-> e] EXCEPT !.root = y]
             = [open |-> x, root |-> y, failed |-> f, error |-> e]
      OBVIOUS
    <2>2. [new EXCEPT !.open = x, !.root = y] = [[new EXCEPT !.open = x] EXCEPT !.root = y]
      OBVIOUS
    <2> HIDE DEF new
    <2> QED BY <1>2, <2>1, <2>2
  <1>4. [new EXCEPT !.failed = TRUE, !.error = x] = [open |-> o, root |-> r, failed |-> TRUE, error |-> x]
    <2> DEFINE yes == TRUE
    <2>1. [new EXCEPT !.failed = yes] = [open |-> o, root |-> r, failed |-> yes, error |-> e]
      <3> HIDE DEF yes
      <3> QED OBVIOUS
    <2>2. [[open |-> o, root |-> r, failed |-> yes, error |-> e] EXCEPT !.error = x]
             = [open |-> o, root |-> r, failed |-> yes, error |-> x]
      <3> HIDE DEF yes
      <3> QED OBVIOUS
    <2>3. [new EXCEPT !.failed = yes, !.error = x] = [[new EXCEPT !.failed = yes] EXCEPT !.error = x]
      <3> HIDE DEF yes, new
      <3> QED OBVIOUS
    <2>4. [new EXCEPT !.failed = yes, !.error = x] = [open |-> o, root |-> r, failed |-> yes, error |-> x]
      <3> HIDE DEF yes, new
      <3> QED BY <2>1, <2>2, <2>3
    <2> QED BY <2>4
  <1>5. Xml!Fail(read, x) = [read EXCEPT !.failed = TRUE, !.error = x]
    BY DEF Xml!Fail
  <1> HIDE DEF new
  <1> DEFINE opened == [read EXCEPT !.open = x]
             closed == [read EXCEPT !.open = x, !.root = y]
             failed == Xml!Fail(read, x)
  <1>6. opened = [open |-> x, root |-> r, failed |-> f, error |-> e]
    BY <1>1, <1>2
  <1>7. closed = [open |-> x, root |-> y, failed |-> f, error |-> e]
    BY <1>1, <1>3
  <1>8. failed = [open |-> o, root |-> r, failed |-> TRUE, error |-> x]
    BY <1>1, <1>4, <1>5
  <1>9. Parts(opened, x, r, f, e) /\ Parts(closed, x, y, f, e) /\ Parts(failed, o, r, TRUE, x)
    <2> HIDE DEF opened, closed, failed
    <2> QED BY <1>6, <1>7, <1>8, MadeParts, Zenon
  <1> QED BY <1>9

LEMMA UnreadParts == Parts(Xml!Unread, <<>>, Xml!NoNode, FALSE, <<>>)
  BY MadeParts, Zenon DEF Xml!Unread

LEMMA ReadingParts ==
  ASSUME NEW N, NEW read, IsReading(N, read)
  PROVE  Parts(read, read.open, read.root, read.failed, read.error)
  BY Zenon DEF IsReading, Parts

LEMMA ReadingOfParts ==
  ASSUME NEW N, NEW read, NEW o, NEW r, NEW f, NEW e, Parts(read, o, r, f, e),
         o \in Seq(N), r = Xml!NoNode \/ r \in N
  PROVE  IsReading(N, read)
  BY Zenon DEF IsReading, Parts

LEMMA ClosedNode ==
  ASSUME NEW N, IsTree(N), NEW read, IsReading(N, read), NEW node \in N, NEW open \in Seq(N)
  PROVE  Readable(Xml!Close(read, node, open))
  <1>1. CASE open = <<>>
    <2>1. Xml!Close(read, node, open) = [read EXCEPT !.open = <<>>, !.root = node]
      BY <1>1 DEF Xml!Close
    <2>2. Parts(Xml!Close(read, node, open), <<>>, node, read.failed, read.error)
      <3> DEFINE none == <<>>
      <3>1. Xml!Close(read, node, open) = [read EXCEPT !.open = none, !.root = node]
        BY <2>1
      <3> HIDE DEF none
      <3>2. Parts(Xml!Close(read, node, open), none, node, read.failed, read.error)
        <4> DEFINE after == [read EXCEPT !.open = none, !.root = node]
        <4>1. Parts(after, none, node, read.failed, read.error)
          BY ReadingParts, UpdatedParts, Zenon
        <4>2. Xml!Close(read, node, open) = after
          BY <3>1
        <4> HIDE DEF after
        <4> QED BY <4>1, <4>2
      <3> QED BY <3>2 DEF none
    <2>3. <<>> \in Seq(N)
      OBVIOUS
    <2>4. IsReading(N, Xml!Close(read, node, open))
      BY <2>2, <2>3, ReadingOfParts, Zenon
    <2> QED BY <2>4 DEF Readable
  <1>2. CASE open # <<>>
    <2> DEFINE last == open[Len(open)]
               grown == [last EXCEPT !.children = Append(@, node)]
               M == N \cup {grown}
               after == [read EXCEPT !.open = [open EXCEPT ![Len(open)] = grown]]
    <2>1. Len(open) \in DOMAIN open /\ last \in N
      BY <1>2
    <2>2. IsNode(N, grown)
      <3>1. IsNode(N, last)
        BY <2>1 DEF IsTree
      <3>2. Append(last.children, node) \in Seq(N)
        BY <3>1 DEF IsNode
      <3>3. grown = Xml!Node(last.name, last.attributes, last.words, Append(last.children, node))
        <4> DEFINE children == Append(last.children, node)
        <4>1. last = Xml!Node(last.name, last.attributes, last.words, last.children)
          BY <3>1 DEF IsNode
        <4>2. grown = [last EXCEPT !.children = children]
          OBVIOUS
        <4> HIDE DEF last, children, grown
        <4>3. grown = Xml!Node(last.name, last.attributes, last.words, children)
          BY <4>1, <4>2 DEF Xml!Node
        <4> QED BY <4>3 DEF children
      <3>4. grown.children = Append(last.children, node) /\ grown.words = last.words
            /\ grown.attributes = last.attributes /\ grown.name = last.name
        <4> HIDE DEF grown
        <4> QED BY <3>3 DEF Xml!Node
      <3> HIDE DEF grown, last
      <3> QED BY <3>1, <3>2, <3>3, <3>4 DEF IsNode
    <2>3. IsTree(M)
      <3> HIDE DEF grown
      <3> QED BY <2>2, LargerTree
    <2>4. Xml!Close(read, node, open) = after
      BY <1>2 DEF Xml!Close
    <2>5. IsReading(M, after)
      <3>1. [open EXCEPT ![Len(open)] = grown] \in Seq(M)
        <4> HIDE DEF grown
        <4> QED BY <2>1
      <3>2. Parts(after, [open EXCEPT ![Len(open)] = grown], read.root, read.failed, read.error)
        <4> HIDE DEF grown
        <4> QED BY ReadingParts, UpdatedParts, Zenon
      <3>3. read.root = Xml!NoNode \/ read.root \in M
        BY DEF IsReading
      <3> HIDE DEF after, grown, M
      <3> QED BY <3>1, <3>2, <3>3, ReadingOfParts, Zenon
    <2> HIDE DEF M, after
    <2> QED BY <2>3, <2>4, <2>5 DEF Readable
  <1> QED BY <1>1, <1>2

LEMMA OpenedNode ==
  ASSUME NEW N, NEW token, IsToken(token)
  PROVE  IsNode(N, Xml!OpenNode(token))
  <1> DEFINE attributes == [i \in DOMAIN token.attributes |->
                              [token.attributes[i] EXCEPT !.words = Xml!Decoded(@)]]
             node == Xml!OpenNode(token)
  <1>1. node = Xml!Node(token.name, attributes, <<>>, <<>>)
    BY DEF Xml!OpenNode
  <1>2. /\ node = Xml!Node(node.name, node.attributes, node.words, node.children)
        /\ node.words = <<>> /\ node.children = <<>> /\ node.attributes = attributes
    <2> HIDE DEF attributes
    <2> QED BY <1>1 DEF Xml!Node
  <1>3. IsText(<<>>)
    BY DEF IsText, IsSeq, Elements
  <1>4. Len(token.attributes) \in Nat /\ DOMAIN token.attributes = 1 .. Len(token.attributes)
    BY SequenceFacts DEF IsToken
  <1>5. IsSeq(attributes)
    <2>1. attributes \in [1 .. Len(token.attributes) -> Elements(attributes)]
      BY <1>4 DEF Elements
    <2> HIDE DEF attributes
    <2> QED BY <1>4, <2>1 DEF IsSeq
  <1>6. ASSUME NEW i \in DOMAIN attributes PROVE IsText(attributes[i].words)
    <2> DEFINE a == token.attributes[i]
    <2>1. a \in Elements(token.attributes)
      BY DEF Elements
    <2>2. IsAttribute(a)
      BY <2>1 DEF IsToken
    <2>3. attributes[i].words = Xml!Decoded(a.words)
      BY <2>2 DEF IsAttribute
    <2> QED BY <2>2, <2>3, DecodedText DEF IsAttribute
  <1>7. IsNode(N, node)
    <2> HIDE DEF attributes, node
    <2> QED BY <1>2, <1>3, <1>5, <1>6 DEF IsNode
  <1> QED BY <1>7

LEMMA ReadTokenReads ==
  ASSUME NEW read, Readable(read), NEW token, IsToken(token)
  PROVE  Readable(Xml!ReadToken(read, token))
  <1>1. PICK N : IsTree(N) /\ IsReading(N, read)
    BY DEF Readable
  <1>2. \A path : Readable(Xml!Fail(read, path))
    <2>1. read.open \in Seq(N) /\ (read.root = Xml!NoNode \/ read.root \in N)
      BY <1>1 DEF IsReading
    <2>2. ASSUME NEW path PROVE IsReading(N, Xml!Fail(read, path))
      <3>1. Parts(Xml!Fail(read, path), read.open, read.root, TRUE, path)
        BY <1>1, ReadingParts, UpdatedParts, Zenon
      <3> QED BY <2>1, <3>1, ReadingOfParts, Zenon
    <2> QED BY <1>1, <2>2 DEF Readable
  <1>3. Readable(Xml!ReadTag(read, token))
    <2> DEFINE node == Xml!OpenNode(token)
               M == N \cup {node}
    <2>1. IsTree(M)
      BY <1>1, OpenedNode, LargerTree
    <2>2. \A s \in Seq(N) : s \in Seq(M)
      OBVIOUS
    <2>3. IsReading(M, read) /\ read.open \in Seq(M) /\ node \in M
      BY <1>1, <2>2 DEF IsReading
    <2>4. Readable(Xml!Enter(read, token.kind, node))
      <3>1. CASE token.kind = "empty"
        <4>1. Xml!Enter(read, token.kind, node) = Xml!Close(read, node, read.open)
          BY <3>1 DEF Xml!Enter
        <4> HIDE DEF M, node
        <4> QED BY <2>1, <2>3, <4>1, ClosedNode
      <3>2. CASE token.kind # "empty"
        <4>1. Xml!Enter(read, token.kind, node) = [read EXCEPT !.open = Append(@, node)]
          BY <3>2 DEF Xml!Enter
        <4>2. Append(read.open, node) \in Seq(M)
          BY <2>3
        <4>3. IsReading(M, [read EXCEPT !.open = Append(@, node)])
          <5>1. Parts([read EXCEPT !.open = Append(@, node)], Append(read.open, node), read.root, read.failed, read.error)
            BY <2>3, ReadingParts, UpdatedParts, Zenon
          <5>2. read.root = Xml!NoNode \/ read.root \in M
            BY <2>3 DEF IsReading
          <5> HIDE DEF M, node
          <5> QED BY <4>2, <5>1, <5>2, ReadingOfParts, Zenon
        <4> QED BY <2>1, <4>1, <4>3 DEF Readable
      <3> QED BY <3>1, <3>2
    <2> QED BY <1>2, <2>4, Zenon DEF Xml!ReadTag
  <1>4. CASE read.open # <<>>
    <2> DEFINE last == read.open[Len(read.open)]
    <2>1. /\ Xml!Last(read.open) \in N /\ Xml!Front(read.open) \in Seq(N)
          /\ last \in N /\ Len(read.open) \in DOMAIN read.open
      BY <1>1, <1>4 DEF IsReading, Xml!Last, Xml!Front
    <2>2. Readable(Xml!ReadClose(read, token))
      <3>1. Readable(Xml!Close(read, Xml!Last(read.open), Xml!Front(read.open)))
        BY <1>1, <2>1, ClosedNode
      <3> QED BY <1>2, <3>1, Zenon DEF Xml!ReadClose
    <2>3. Readable([read EXCEPT !.open[Len(read.open)].words = @ \o Xml!Decoded(token.words)])
      <3> DEFINE words == last.words \o Xml!Decoded(token.words)
                 grown == [last EXCEPT !.words = words]
                 M == N \cup {grown}
                 after == [read EXCEPT !.open = [read.open EXCEPT ![Len(read.open)] = grown]]
      <3>1. IsNode(N, last)
        BY <1>1, <2>1 DEF IsTree
      <3>2. IsText(words)
        <4> DEFINE W == Elements(last.words) \cup Elements(Xml!Decoded(token.words))
        <4>1. IsText(last.words) /\ IsText(Xml!Decoded(token.words))
          BY <3>1, DecodedText DEF IsNode, IsToken
        <4>2. last.words \in Seq(W) /\ Xml!Decoded(token.words) \in Seq(W) /\ \A w \in W : IsWord(w)
          BY <4>1 DEF IsText, IsSeq
        <4>3. words \in Seq(W)
          <5> HIDE DEF W, last
          <5> QED BY <4>2
        <4> HIDE DEF W, words
        <4> QED BY <4>2, <4>3, SequenceOf DEF IsText
      <3>3. IsNode(N, grown)
        <4>1. grown = Xml!Node(last.name, last.attributes, words, last.children)
          <5> HIDE DEF last, words
          <5> QED BY <3>1 DEF IsNode, Xml!Node
        <4>2. grown.children = last.children /\ grown.words = words
              /\ grown.attributes = last.attributes /\ grown.name = last.name
          <5> HIDE DEF grown, words
          <5> QED BY <4>1 DEF Xml!Node
        <4> HIDE DEF grown, last, words
        <4> QED BY <3>1, <3>2, <4>1, <4>2 DEF IsNode
      <3>4. IsTree(M)
        <4> HIDE DEF grown
        <4> QED BY <1>1, <3>3, LargerTree
      <3>5. [read EXCEPT !.open[Len(read.open)].words = @ \o Xml!Decoded(token.words)] = after
        OBVIOUS
      <3>6. IsReading(M, after)
        <4>1. [read.open EXCEPT ![Len(read.open)] = grown] \in Seq(M)
          <5> HIDE DEF grown
          <5> QED BY <1>1, <2>1 DEF IsReading
        <4>2. Parts(after, [read.open EXCEPT ![Len(read.open)] = grown], read.root, read.failed, read.error)
          <5> HIDE DEF grown
          <5> QED BY <1>1, ReadingParts, UpdatedParts, Zenon
        <4>3. read.root = Xml!NoNode \/ read.root \in M
          BY <1>1 DEF IsReading
        <4> HIDE DEF after, grown, M
        <4> QED BY <4>1, <4>2, <4>3, ReadingOfParts, Zenon
      <3> HIDE DEF M, after
      <3> QED BY <3>4, <3>5, <3>6 DEF Readable
    <2> QED BY <1>2, <1>3, <2>2, <2>3, Zenon DEF Xml!ReadToken
  <1>5. CASE read.open = <<>>
    BY <1>2, <1>3, <1>5, Zenon DEF Xml!ReadToken
  <1> QED BY <1>4, <1>5

\* The recursive function of ParseDocument, up to a token.
IsReader(f, tokens, n) ==
  f = [i \in 0 .. n |-> IF i = 0 THEN Xml!Unread
                        ELSE Xml!ReadToken(f[i - 1], tokens[i])]

LEMMA ReaderExists ==
  ASSUME NEW tokens, NEW n \in Nat
  PROVE  \E f : IsReader(f, tokens, n)
  <1> DEFINE P == {m \in 0 .. n : \E f : IsReader(f, tokens, m)}
             start == Xml!Unread
  <1>1. 0 \in P
    <2>1. IsReader([i \in 0 .. 0 |-> start], tokens, 0)
      <3> HIDE DEF start
      <3> QED BY DEF IsReader, start
    <2> QED BY <2>1
  <1>2. ASSUME NEW i \in 1 .. n, i - 1 \in P PROVE i \in P
    <2>1. PICK f : IsReader(f, tokens, i - 1)
      BY <1>2
    <2> DEFINE g == [j \in 0 .. i |-> IF j = 0 THEN start ELSE Xml!ReadToken(f[j - 1], tokens[j])]
    <2>2. ASSUME NEW j \in 0 .. i - 1 PROVE g[j] = f[j]
      <3> HIDE DEF start
      <3> QED BY <2>1 DEF IsReader, start
    <2>3. ASSUME NEW j \in 0 .. i
          PROVE  g[j] = IF j = 0 THEN start ELSE Xml!ReadToken(g[j - 1], tokens[j])
      <3>1. j # 0 => g[j - 1] = f[j - 1]
        <4> HIDE DEF g
        <4> QED BY <2>2
      <3> HIDE DEF start
      <3> QED BY <3>1
    <2>4. IsReader(g, tokens, i)
      <3>1. g = [j \in 0 .. i |-> g[j]]
        OBVIOUS
      <3> HIDE DEF g
      <3> QED BY <2>3, <3>1 DEF IsReader
    <2> HIDE DEF g
    <2> QED BY <2>4
  <1>3. n \in P
    <2> HIDE DEF P
    <2> QED BY <1>1, <1>2, Induction
  <1> QED BY <1>3

\* What is read of a document is a node of a tree.
LEMMA DocumentTree ==
  ASSUME NEW tokens, IsDocument(tokens), NEW root, root = RootOf(tokens), root # Xml!NoNode
  PROVE  \E N : IsTree(N) /\ root \in N
  <1> DEFINE n == Len(tokens)
             after == CHOOSE f : IsReader(f, tokens, n)
  <1>1. n \in Nat /\ \A i \in 1 .. n : IsToken(tokens[i])
    BY SequenceFacts DEF IsDocument, IsToken
  <1>2. IsReader(after, tokens, n)
    <2> HIDE DEF n
    <2> QED BY <1>1, ReaderExists
  <1>3. RootOf(tokens) = Xml!Outcome(after[n]).root
    BY DEF RootOf, Xml!ParseDocument, IsReader
  <1> DEFINE P == {i \in 0 .. n : Readable(after[i])}
  <1> HIDE DEF after, n
  <1>4. 0 \in P
    <2>1. IsTree({}) /\ <<>> \in Seq({})
      BY DEF IsTree
    <2>3. IsReading({}, Xml!Unread)
      BY <2>1, UnreadParts, ReadingOfParts, Zenon
    <2>2. after[0] = Xml!Unread
      BY <1>1, <1>2 DEF IsReader
    <2> QED BY <1>1, <2>1, <2>2, <2>3 DEF Readable
  <1>5. ASSUME NEW i \in 1 .. n, i - 1 \in P PROVE i \in P
    <2>1. after[i] = Xml!ReadToken(after[i - 1], tokens[i])
      BY <1>1, <1>2 DEF IsReader
    <2> QED BY <1>1, <1>5, <2>1, ReadTokenReads
  <1>6. Readable(after[n])
    <2>1. \A i \in 0 .. n : i \in P
      <3> HIDE DEF P
      <3> QED BY <1>1, <1>4, <1>5, Induction
    <2> QED BY <1>1, <2>1
  <1>7. PICK N : IsTree(N) /\ IsReading(N, after[n])
    BY <1>6 DEF Readable
  <1>8. root = after[n].root
    <2>1. Xml!Outcome(after[n]).root = IF after[n].failed THEN Xml!NoNode ELSE after[n].root
      BY DEF Xml!Outcome
    <2> QED BY <1>3, <2>1
  <1> QED BY <1>7, <1>8 DEF IsReading

-----------------------------------------------------------------------------
(* What the reader takes for a character                                    *)

\* The recursive functions of CodePoint and of NumberOf.
IsCode(f, digits, base) ==
  f = [i \in 0 .. Len(digits) |-> IF i = 0 THEN 0 ELSE Xml!Shift(f[i - 1], digits[i], base)]

IsNumber(f, digits, base) ==
  f = [i \in 0 .. Len(digits) |-> IF i = 0 THEN 0 ELSE base * f[i - 1] + digits[i]]

LEMMA CodeExists ==
  ASSUME NEW digits \in Seq(Nat), NEW base \in {10, 16}
  PROVE  \E f : IsCode(f, digits, base)
  <1> DEFINE n == Len(digits)
             V == Int
             zero == 0
             step == [p \in V \X (1 .. n) |-> Xml!Shift(p[1], digits[p[2]], base)]
  <1>1. n \in Nat /\ zero \in V
    OBVIOUS
  <1>2. step \in [V \X (1 .. n) -> V]
    <2>1. ASSUME NEW c \in Int, NEW d \in Nat PROVE Xml!Shift(c, d, base) \in Int
      BY DEF Xml!Shift
    <2>2. \A i \in 1 .. n : digits[i] \in Nat
      OBVIOUS
    <2> QED BY <2>1, <2>2
  <1>3. PICK g \in [0 .. n -> V] : Follows(g, n, zero, step)
    <2> HIDE DEF step, V, zero, n
    <2> QED BY <1>1, <1>2, Recursion
  <1>4. ASSUME NEW i \in 0 .. n PROVE g[i] = IF i = 0 THEN 0 ELSE Xml!Shift(g[i - 1], digits[i], base)
    <2>1. g[0] = 0 /\ (i # 0 => g[i] = step[<<g[i - 1], i>>])
      <3> HIDE DEF step, V, n
      <3>1. i # 0 => i \in 1 .. n
        BY <1>1
      <3> QED BY <1>3, <3>1, Zenon DEF Follows
    <2>2. i # 0 => <<g[i - 1], i>> \in V \X (1 .. n)
      <3> HIDE DEF step, V, n
      <3> QED BY <1>1, <1>3
    <2> QED BY <2>1, <2>2
  <1>5. g = [i \in 0 .. n |-> IF i = 0 THEN 0 ELSE Xml!Shift(g[i - 1], digits[i], base)]
    <2> HIDE DEF step, V, zero, n
    <2> QED BY <1>4
  <1> QED BY <1>5 DEF IsCode

LEMMA NumberExists ==
  ASSUME NEW digits \in Seq(Nat), NEW base \in {10, 16}
  PROVE  \E f : IsNumber(f, digits, base)
  <1> DEFINE n == Len(digits)
             V == Nat
             zero == 0
             step == [p \in V \X (1 .. n) |-> base * p[1] + digits[p[2]]]
  <1>1. n \in Nat /\ zero \in V
    OBVIOUS
  <1>2. step \in [V \X (1 .. n) -> V]
    <2>1. \A i \in 1 .. n : digits[i] \in Nat
      OBVIOUS
    <2> QED BY <2>1
  <1>3. PICK g \in [0 .. n -> V] : Follows(g, n, zero, step)
    <2> HIDE DEF step, V, zero, n
    <2> QED BY <1>1, <1>2, Recursion
  <1>4. ASSUME NEW i \in 0 .. n PROVE g[i] = IF i = 0 THEN 0 ELSE base * g[i - 1] + digits[i]
    <2>1. g[0] = 0 /\ (i # 0 => g[i] = step[<<g[i - 1], i>>])
      <3> HIDE DEF step, V, n
      <3>1. i # 0 => i \in 1 .. n
        BY <1>1
      <3> QED BY <1>3, <3>1, Zenon DEF Follows
    <2>2. i # 0 => <<g[i - 1], i>> \in V \X (1 .. n)
      <3> HIDE DEF step, V, n
      <3> QED BY <1>1, <1>3
    <2> QED BY <2>1, <2>2
  <1>5. g = [i \in 0 .. n |-> IF i = 0 THEN 0 ELSE base * g[i - 1] + digits[i]]
    <2> HIDE DEF step, V, zero, n
    <2> QED BY <1>4
  <1> QED BY <1>5 DEF IsNumber

\* The code point of a numeric entity is the number of its digits, unless a digit
\* or the number is too large. A number that is too large stays so.
LEMMA CodePointIsNumber ==
  ASSUME NEW digits \in Seq(Nat) \ {<<>>}, NEW base \in {10, 16}
  PROVE  LET number == Legality!NumberOf(digits, base)
         IN /\ number \in Nat
            /\ Xml!CodePoint(digits, base)
                 = Xml!Character(IF (\A i \in DOMAIN digits : digits[i] < base) /\ number <= Xml!MaxCodePoint
                                 THEN number ELSE -1)
  <1> DEFINE n == Len(digits)
             code == CHOOSE f : IsCode(f, digits, base)
             number == CHOOSE f : IsNumber(f, digits, base)
  <1>1. n \in Nat /\ DOMAIN digits = 1 .. n /\ \A i \in 1 .. n : digits[i] \in Nat
    OBVIOUS
  <1>2. IsCode(code, digits, base) /\ IsNumber(number, digits, base)
    BY CodeExists, NumberExists
  <1>3. Xml!CodePoint(digits, base) = Xml!Character(code[n])
    BY DEF Xml!CodePoint, IsCode
  <1>4. Legality!NumberOf(digits, base) = number[n]
    BY DEF Legality!NumberOf, IsNumber
  <1> HIDE DEF n, code, number
  <1>5. /\ code[0] = 0 /\ number[0] = 0
        /\ \A i \in 1 .. n : /\ code[i] = Xml!Shift(code[i - 1], digits[i], base)
                             /\ number[i] = base * number[i - 1] + digits[i]
    <2>1. code = [i \in 0 .. n |-> IF i = 0 THEN 0 ELSE Xml!Shift(code[i - 1], digits[i], base)]
      BY <1>2, Zenon DEF IsCode, n
    <2>2. number = [i \in 0 .. n |-> IF i = 0 THEN 0 ELSE base * number[i - 1] + digits[i]]
      BY <1>2, Zenon DEF IsNumber, n
    <2>3. ASSUME NEW i \in 0 .. n PROVE code[i] = IF i = 0 THEN 0 ELSE Xml!Shift(code[i - 1], digits[i], base)
      BY <2>1, Zenon
    <2>4. ASSUME NEW i \in 0 .. n PROVE number[i] = IF i = 0 THEN 0 ELSE base * number[i - 1] + digits[i]
      BY <2>2, Zenon
    <2>5. 0 \in 0 .. n /\ \A i \in 1 .. n : i \in 0 .. n /\ i # 0
      BY <1>1
    <2> QED BY <2>3, <2>4, <2>5, Zenon
  <1> DEFINE Fits(i) == (\A k \in 1 .. i : digits[k] < base) /\ number[i] <= Xml!MaxCodePoint
             P == {i \in 0 .. n : number[i] \in Nat /\ code[i] = IF Fits(i) THEN number[i] ELSE -1}
  <1>6. 0 \in P
    BY <1>1, <1>5 DEF Xml!MaxCodePoint
  <1>7. ASSUME NEW i \in 1 .. n, i - 1 \in P PROVE i \in P
    <2> DEFINE c == code[i - 1]
               m == number[i - 1]
               d == digits[i]
    <2>1. d \in Nat /\ m \in Nat /\ code[i] = Xml!Shift(c, d, base) /\ number[i] = base * m + d
      BY <1>1, <1>5, <1>7
    <2>2. number[i] \in Nat /\ number[i] >= m
      <3> HIDE DEF m, d
      <3>1. CASE base = 10
        BY <2>1, <3>1
      <3>2. CASE base = 16
        BY <2>1, <3>2
      <3> QED BY <3>1, <3>2
    <2>3. (\A k \in 1 .. i : digits[k] < base) <=> (\A k \in 1 .. i - 1 : digits[k] < base) /\ d < base
      BY <1>1
    <2>4. c = IF Fits(i - 1) THEN m ELSE -1
      BY <1>7
    <2>5. CASE ~Fits(i - 1)
      <3>1. ~Fits(i)
        BY <2>1, <2>2, <2>3, <2>5 DEF Xml!MaxCodePoint
      <3>2. Xml!Shift(c, d, base) = -1
        BY <2>4, <2>5 DEF Xml!Shift
      <3> HIDE DEF c, m, d, Fits
      <3> QED BY <2>1, <2>2, <3>1, <3>2
    <2>6. CASE Fits(i - 1)
      <3>1. c = m
        BY <2>4, <2>6
      <3>2. Fits(i) <=> d < base /\ base * m + d <= Xml!MaxCodePoint
        BY <2>1, <2>3, <2>6
      <3> HIDE DEF c, m, d, Fits
      <3>3. Xml!Shift(m, d, base) = IF d < base /\ base * m + d <= Xml!MaxCodePoint THEN base * m + d ELSE -1
        <4>1. CASE base = 10
          BY <2>1, <4>1 DEF Xml!Shift, Xml!MaxCodePoint
        <4>2. CASE base = 16
          BY <2>1, <4>2 DEF Xml!Shift, Xml!MaxCodePoint
        <4> QED BY <4>1, <4>2
      <3> QED BY <2>1, <2>2, <3>1, <3>2, <3>3
    <2> QED BY <2>5, <2>6
  <1>8. n \in P
    <2>1. \A i \in 0 .. n : i \in P
      <3> HIDE DEF P
      <3> QED BY <1>1, <1>6, <1>7, Induction
    <2> HIDE DEF P
    <2> QED BY <1>1, <2>1
  <1> QED BY <1>1, <1>3, <1>4, <1>8

LEMMA CharacterLegal ==
  ASSUME NEW c \in Nat
  PROVE  /\ c <= Xml!MaxCodePoint => (Xml!Character(c) # -1 <=> Legality!LegalCharacter(c))
         /\ Legality!LegalCharacter(c) => c <= Xml!MaxCodePoint
  <1>1. Xml!Character(c) = -1 <=> (55296 <= c /\ c <= 57343) \/ (c <= 31 /\ c \notin {9, 10, 13})
    BY SMT DEF Xml!Character, Xml!Controls
  <1> QED BY <1>1, SMT DEF Xml!MaxCodePoint, Legality!LegalCharacter

LEMMA CodePointLegal ==
  ASSUME NEW digits \in Seq(Nat), NEW base \in {10, 16}
  PROVE  Xml!CodePoint(digits, base) # -1
           <=> /\ digits # <<>> /\ \A i \in DOMAIN digits : digits[i] < base
               /\ Legality!LegalCharacter(Legality!NumberOf(digits, base))
  <1>1. CASE digits = <<>>
    BY <1>1 DEF Xml!CodePoint
  <1>2. CASE digits # <<>>
    <2> DEFINE number == Legality!NumberOf(digits, base)
               Fits == (\A i \in DOMAIN digits : digits[i] < base) /\ number <= Xml!MaxCodePoint
    <2>1. number \in Nat /\ Xml!CodePoint(digits, base) = Xml!Character(IF Fits THEN number ELSE -1)
      BY <1>2, CodePointIsNumber
    <2> HIDE DEF number
    <2>2. /\ number <= Xml!MaxCodePoint => (Xml!Character(number) # -1 <=> Legality!LegalCharacter(number))
          /\ Legality!LegalCharacter(number) => number <= Xml!MaxCodePoint
      BY <2>1, CharacterLegal
    <2>3. Xml!Character(-1) = -1
      BY SMT DEF Xml!Character, Xml!Controls
    <2> QED BY <1>2, <2>1, <2>2, <2>3, SMT DEF number
  <1> QED BY <1>1, <1>2

LEMMA WordRefused ==
  ASSUME NEW word, IsWord(word)
  PROVE  Xml!Refused(word) <=> ~Legality!WellFormedWord(word)
  <1>1. CASE "entity" \in DOMAIN word
    <2>1. word.entity \in Seq(Nat) /\ word.base \in {10, 16}
      BY <1>1 DEF IsWord
    <2> QED BY <1>1, <2>1, CodePointLegal, Zenon DEF Xml!Refused, Legality!WellFormedWord
  <1>2. CASE "entity" \notin DOMAIN word
    BY <1>2, Zenon DEF Xml!Refused, Legality!WellFormedWord
  <1> QED BY <1>1, <1>2

LEMMA WordsDecode ==
  ASSUME NEW words, IsWritten(words)
  PROVE  Xml!DecodesAll(words) <=> Legality!WellFormedWords(words)
  <1>1. \A i \in DOMAIN words : IsWord(words[i])
    BY SequenceFacts DEF IsWritten
  <1> QED BY <1>1, WordRefused, Zenon DEF Xml!DecodesAll, Legality!WellFormedWords

LEMMA FaultyFacts ==
  ASSUME NEW attributes, IsSeq(attributes), \A attribute \in Elements(attributes) : IsAttribute(attribute)
  PROVE  Xml!Faulty(attributes) = 0
           <=> \A a \in DOMAIN attributes :
                 attributes[a].fault = "" /\ Legality!WellFormedWords(attributes[a].words)
  <1> DEFINE bad == {i \in 1 .. Len(attributes) :
                       attributes[i].fault # "" \/ ~Xml!DecodesAll(attributes[i].words)}
  <1>1. Len(attributes) \in Nat /\ DOMAIN attributes = 1 .. Len(attributes)
    BY SequenceFacts
  <1>2. ASSUME NEW a \in DOMAIN attributes
        PROVE  Xml!DecodesAll(attributes[a].words) <=> Legality!WellFormedWords(attributes[a].words)
    <2>1. IsAttribute(attributes[a])
      BY SequenceFacts
    <2> QED BY <2>1, WordsDecode DEF IsAttribute
  <1>3. Xml!Faulty(attributes) = IF bad # {} THEN CHOOSE i \in bad : \A j \in bad : i <= j ELSE 0
    BY DEF Xml!Faulty, Xml!SelectInSeq, Xml!Min
  <1>4. bad # {} => (CHOOSE i \in bad : \A j \in bad : i <= j) \in bad
    <2>1. bad \subseteq 1 .. Len(attributes)
      BY Zenon
    <2> HIDE DEF bad
    <2>2. bad \in SUBSET Nat
      BY <1>1, <2>1
    <2> QED BY <2>2, LeastOf
  <1>5. 0 \notin bad
    BY <1>1
  <1>6. bad = {} <=> \A a \in DOMAIN attributes :
                       attributes[a].fault = "" /\ Legality!WellFormedWords(attributes[a].words)
    BY <1>1, <1>2, Zenon
  <1> HIDE DEF bad
  <1> QED BY <1>3, <1>4, <1>5, <1>6, Zenon

-----------------------------------------------------------------------------
(* What the reader makes of a token                                         *)

\* Two stacks of elements with the same names, up to a length.
SameNames(s, t, m) == \A k \in 1 .. m : s[k].name = t[k].name

LEMMA NodeOf ==
  ASSUME NEW N, IsTree(N), NEW node \in N
  PROVE  /\ node = Xml!Node(node.name, node.attributes, node.words, node.children)
         /\ node # Xml!NoNode
         /\ \A x : [node EXCEPT !.children = x].name = node.name
         /\ \A x : [node EXCEPT !.words = x].name = node.name
  <1>1. node = Xml!Node(node.name, node.attributes, node.words, node.children)
    BY DEF IsTree, IsNode
  <1>2. node = [name |-> node.name, attributes |-> node.attributes, words |-> node.words, children |-> node.children]
    BY <1>1 DEF Xml!Node
  <1>3. "name" \in DOMAIN node /\ "children" \in DOMAIN node /\ "words" \in DOMAIN node
    <2> DEFINE a == node.name
               b == node.attributes
               c == node.words
               d == node.children
    <2> HIDE DEF a, b, c, d
    <2>1. DOMAIN [name |-> a, attributes |-> b, words |-> c, children |-> d] = {"name", "attributes", "words", "children"}
      OBVIOUS
    <2> QED BY <1>2, <2>1, Zenon DEF a, b, c, d
  <1>4. node # Xml!NoNode
    <2>1. DOMAIN Xml!NoNode = {"missing"}
      BY DEF Xml!NoNode
    <2> QED BY <1>3, <2>1
  <1>5. ASSUME NEW x PROVE [node EXCEPT !.children = x].name = node.name /\ [node EXCEPT !.words = x].name = node.name
    BY <1>3
  <1> QED BY <1>1, <1>4, <1>5

\* An element that has ended leaves its parent open, or is the root.
LEMMA ClosedParts ==
  ASSUME NEW N, IsTree(N), NEW read, IsReading(N, read), NEW node \in N, NEW open \in Seq(N)
  PROVE  LET after == Xml!Close(read, node, open)
         IN /\ after.failed = read.failed
            /\ Len(after.open) = Len(open) /\ SameNames(after.open, open, Len(open))
            /\ after.root = Xml!NoNode <=> open # <<>> /\ read.root = Xml!NoNode
  <1> DEFINE after == Xml!Close(read, node, open)
             e == read.error
             f == read.failed
             r == read.root
             o == read.open
  <1>1. Parts(read, o, r, f, e)
    BY ReadingParts
  <1>2. CASE open = <<>>
    <2> DEFINE none == <<>>
               closed == [read EXCEPT !.open = none, !.root = node]
    <2>1. after = closed
      BY <1>2 DEF Xml!Close
    <2>2. Parts(closed, none, node, f, e)
      <3> HIDE DEF none, o, r, f, e
      <3> QED BY <1>1, UpdatedParts, Zenon
    <2>3. after.open = <<>> /\ after.root = node /\ after.failed = read.failed
      <3> HIDE DEF after, closed, o, r, e
      <3> QED BY <2>1, <2>2 DEF Parts
    <2>4. node # Xml!NoNode
      BY NodeOf
    <2> HIDE DEF after
    <2> QED BY <1>2, <2>3, <2>4 DEF SameNames, after
  <1>3. CASE open # <<>>
    <2> DEFINE n == Len(open)
               grown == [open[n] EXCEPT !.children = Append(@, node)]
               stack == [open EXCEPT ![n] = grown]
               held == [read EXCEPT !.open = stack]
    <2>1. after = held
      BY <1>3 DEF Xml!Close
    <2>2. Parts(held, stack, r, f, e)
      <3> HIDE DEF stack, o, r, f, e
      <3> QED BY <1>1, UpdatedParts, Zenon
    <2>3. after.open = stack /\ after.root = read.root /\ after.failed = read.failed
      <3> HIDE DEF after, held, stack, o, e
      <3> QED BY <2>1, <2>2 DEF Parts
    <2>4. n \in Nat /\ n \in 1 .. n /\ open[n] \in N
      BY <1>3
    <2>5. grown.name = open[n].name
      BY <2>4, NodeOf, Zenon
    <2>6. Len(stack) = n /\ \A k \in 1 .. n : stack[k] = IF k = n THEN grown ELSE open[k]
      <3> HIDE DEF grown
      <3> QED BY <2>4
    <2>7. SameNames(stack, open, n)
      <3> HIDE DEF grown, stack
      <3> QED BY <2>5, <2>6 DEF SameNames
    <2> HIDE DEF after, stack
    <2> QED BY <1>3, <2>3, <2>6, <2>7 DEF after
  <1> QED BY <1>2, <1>3

Change(token) == IF token.kind = "open" THEN 1 ELSE IF token.kind = "close" THEN -1 ELSE 0

\* The reader goes on at a token that is not skipped.
Fits(read, token) ==
  /\ Legality!WellFormedToken(token)
  /\ token.kind \in {"open", "empty"} => read.root = Xml!NoNode
  /\ token.kind \in {"close", "text"} => read.open # <<>>
  /\ token.kind = "close" => read.open[Len(read.open)].name = token.name

\* What the token makes of the stack and of the root.
Goes(read, token, after) ==
  LET depth == Len(read.open)
  IN /\ Len(after.open) = depth + Change(token)
     /\ SameNames(after.open, read.open, IF token.kind = "close" THEN depth - 1 ELSE depth)
     /\ token.kind = "open" => after.open[depth + 1].name = token.name
     /\ after.root = Xml!NoNode <=>
          /\ read.root = Xml!NoNode
          /\ ~(token.kind = "empty" /\ depth = 0) /\ ~(token.kind = "close" /\ depth = 1)

LEMMA FailedParts ==
  ASSUME NEW N, NEW read, IsReading(N, read), NEW path
  PROVE  Xml!Fail(read, path).failed
  <1>1. Parts(Xml!Fail(read, path), read.open, read.root, TRUE, path)
    BY ReadingParts, UpdatedParts, Zenon
  <1> QED BY <1>1, Zenon DEF Parts

LEMMA TagRead ==
  ASSUME NEW N, IsTree(N), NEW read, IsReading(N, read), ~read.failed, read.root = Xml!NoNode,
         NEW token, IsToken(token), token.kind \in {"open", "empty"}
  PROVE  LET after == Xml!ReadTag(read, token)
         IN /\ after.failed <=> ~Legality!WellFormedToken(token)
            /\ ~after.failed => Goes(read, token, after)
  <1> DEFINE after == Xml!ReadTag(read, token)
             node == Xml!OpenNode(token)
             M == N \cup {node}
  <1>1. Xml!Faulty(token.attributes) = 0 <=> Legality!WellFormedToken(token)
    <2>1. Legality!WellFormedToken(token) <=>
            \A a \in DOMAIN token.attributes :
              token.attributes[a].fault = "" /\ Legality!WellFormedWords(token.attributes[a].words)
      BY Zenon DEF Legality!WellFormedToken
    <2> QED BY <2>1, FaultyFacts, Zenon DEF IsToken
  <1>2. CASE ~Legality!WellFormedToken(token)
    <2>1. \E path : after = Xml!Fail(read, path)
      BY <1>1, <1>2, Zenon DEF Xml!ReadTag
    <2>2. after.failed
      BY <2>1, FailedParts
    <2> QED BY <1>2, <2>2
  <1>3. CASE Legality!WellFormedToken(token)
    <2>1. after = Xml!Enter(read, token.kind, node)
      BY <1>1, <1>3, Zenon DEF Xml!ReadTag
    <2>2. IsTree(M) /\ node \in M /\ node.name = token.name
      BY OpenedNode, LargerTree DEF Xml!OpenNode, Xml!Node
    <2>3. read.open \in Seq(M) /\ Len(read.open) \in Nat
      <3>1. read.open \in Seq(N)
        BY DEF IsReading
      <3> HIDE DEF node
      <3> QED BY <3>1
    <2>4. IsReading(M, read)
      <3>1. Parts(read, read.open, read.root, read.failed, read.error)
        BY ReadingParts
      <3> HIDE DEF M
      <3> QED BY <2>3, <3>1, ReadingOfParts
    <2>5. CASE token.kind = "empty"
      <3>1. after = Xml!Close(read, node, read.open)
        BY <2>1, <2>5, Zenon DEF Xml!Enter
      <3>2. /\ after.failed = read.failed
            /\ Len(after.open) = Len(read.open) /\ SameNames(after.open, read.open, Len(read.open))
            /\ after.root = Xml!NoNode <=> read.open # <<>> /\ read.root = Xml!NoNode
        <4> HIDE DEF after, node, M
        <4> QED BY <2>2, <2>3, <2>4, <3>1, ClosedParts
      <3>3. read.open # <<>> <=> Len(read.open) # 0
        BY <2>3
      <3>4. Change(token) = 0 /\ token.kind # "close" /\ token.kind # "open"
        BY <2>5 DEF Change
      <3>5. ~after.failed
        BY <3>2, Zenon
      <3>6. Goes(read, token, after)
        <4> HIDE DEF after, node, M
        <4> QED BY <2>3, <2>5, <3>2, <3>3, <3>4 DEF Goes
      <3> QED BY <1>3, <3>5, <3>6, Zenon
    <2>6. CASE token.kind = "open"
      <3> DEFINE stack == Append(read.open, node)
                 entered == [read EXCEPT !.open = stack]
      <3>1. after = entered
        BY <2>1, <2>6 DEF Xml!Enter
      <3>2. Parts(entered, stack, read.root, read.failed, read.error)
        <4> HIDE DEF stack
        <4> QED BY ReadingParts, UpdatedParts, Zenon
      <3>3. after.open = stack /\ after.root = read.root /\ after.failed = read.failed
        <4> HIDE DEF after, entered, stack
        <4> QED BY <3>1, <3>2 DEF Parts
      <3>4. /\ Len(stack) = Len(read.open) + 1 /\ stack[Len(read.open) + 1] = node
            /\ \A k \in 1 .. Len(read.open) : stack[k] = read.open[k]
        <4> HIDE DEF node, M
        <4> QED BY <2>2, <2>3
      <3>5. Change(token) = 1 /\ token.kind # "close" /\ token.kind # "empty"
        BY <2>6 DEF Change
      <3>6. SameNames(after.open, read.open, Len(read.open))
        <4> HIDE DEF after, node, M, stack
        <4> QED BY <3>3, <3>4 DEF SameNames
      <3>7. Goes(read, token, after)
        <4> HIDE DEF after, node, M, stack
        <4> QED BY <2>2, <3>3, <3>4, <3>5, <3>6 DEF Goes
      <3>8. ~after.failed
        BY <3>3, Zenon
      <3> QED BY <1>3, <3>7, <3>8, Zenon
    <2> QED BY <2>5, <2>6
  <1> QED BY <1>2, <1>3

LEMMA CloseRead ==
  ASSUME NEW N, IsTree(N), NEW read, IsReading(N, read), ~read.failed, read.root = Xml!NoNode,
         read.open # <<>>, NEW token, token.kind = "close"
  PROVE  LET after == Xml!ReadClose(read, token)
         IN /\ after.failed <=> read.open[Len(read.open)].name # token.name
            /\ ~after.failed => Goes(read, token, after)
  <1> DEFINE after == Xml!ReadClose(read, token)
             n == Len(read.open)
             last == read.open[n]
             front == Xml!Front(read.open)
  <1>1. read.open \in Seq(N) /\ n \in Nat /\ n > 0 /\ last \in N
    BY DEF IsReading
  <1>2. /\ Xml!Last(read.open) = last /\ front \in Seq(N) /\ Len(front) = n - 1
        /\ \A k \in 1 .. n - 1 : front[k] = read.open[k]
    BY <1>1 DEF Xml!Last, Xml!Front
  <1>3. CASE last.name # token.name
    <2>1. after = Xml!Fail(read, Xml!OpenPath(read.open))
      BY <1>2, <1>3, Zenon DEF Xml!ReadClose
    <2>2. after.failed
      BY <2>1, FailedParts
    <2> QED BY <1>3, <2>2
  <1>4. CASE last.name = token.name
    <2>1. after = Xml!Close(read, last, front)
      BY <1>2, <1>4, Zenon DEF Xml!ReadClose
    <2>2. /\ after.failed = read.failed
          /\ Len(after.open) = Len(front) /\ SameNames(after.open, front, Len(front))
          /\ after.root = Xml!NoNode <=> front # <<>> /\ read.root = Xml!NoNode
      <3> HIDE DEF after, last, front
      <3> QED BY <1>1, <1>2, <2>1, ClosedParts
    <2>3. front # <<>> <=> n # 1
      <3> HIDE DEF front, n, last
      <3>1. front \in Seq(N)
        BY <1>2
      <3>2. front # <<>> <=> Len(front) # 0
        BY <3>1
      <3> QED BY <1>1, <1>2, <3>2
    <2>4. SameNames(after.open, read.open, n - 1)
      <3> HIDE DEF after, front
      <3> QED BY <1>1, <1>2, <2>2 DEF SameNames
    <2>5. Change(token) = -1 /\ token.kind # "open" /\ token.kind # "empty"
      BY DEF Change
    <2>6. Goes(read, token, after)
      <3> HIDE DEF after, front
      <3> QED BY <1>1, <1>2, <2>2, <2>3, <2>4, <2>5 DEF Goes
    <2>7. ~after.failed
      BY <2>2, Zenon
    <2> QED BY <1>4, <2>6, <2>7, Zenon
  <1> QED BY <1>3, <1>4

LEMMA TextRead ==
  ASSUME NEW N, IsTree(N), NEW read, IsReading(N, read), ~read.failed, read.open # <<>>,
         NEW token, token.kind = "text", NEW words
  PROVE  LET after == [read EXCEPT !.open[Len(read.open)].words = @ \o words]
         IN ~after.failed /\ Goes(read, token, after)
  <1> DEFINE after == [read EXCEPT !.open[Len(read.open)].words = @ \o words]
             n == Len(read.open)
             last == read.open[n]
             told == last.words \o words
             grown == [last EXCEPT !.words = told]
             stack == [read.open EXCEPT ![n] = grown]
             held == [read EXCEPT !.open = stack]
  <1>1. read.open \in Seq(N) /\ n \in Nat /\ n \in 1 .. n /\ last \in N
    BY DEF IsReading
  <1>2. after = held
    OBVIOUS
  <1>3. Parts(held, stack, read.root, read.failed, read.error)
    <2> HIDE DEF stack
    <2> QED BY ReadingParts, UpdatedParts, Zenon
  <1>4. after.open = stack /\ after.root = read.root /\ after.failed = read.failed
    <2> HIDE DEF after, held, stack
    <2> QED BY <1>2, <1>3 DEF Parts
  <1>5. grown.name = last.name
    BY <1>1, NodeOf, Zenon
  <1>6. Len(stack) = n /\ \A k \in 1 .. n : stack[k] = IF k = n THEN grown ELSE read.open[k]
    <2> HIDE DEF grown
    <2> QED BY <1>1
  <1>7. SameNames(stack, read.open, n)
    <2> HIDE DEF grown, stack
    <2> QED BY <1>5, <1>6 DEF SameNames
  <1>8. Goes(read, token, after)
    <2> HIDE DEF after, stack
    <2> QED BY <1>1, <1>4, <1>6, <1>7 DEF Goes, Change
  <1> HIDE DEF stack
  <1> QED BY <1>4, <1>8

LEMMA TokenRead ==
  ASSUME NEW N, IsTree(N), NEW read, IsReading(N, read), ~read.failed, read.open # <<>> => read.root = Xml!NoNode,
         NEW token, IsToken(token), ~Xml!Skipped(token)
  PROVE  LET after == Xml!ReadToken(read, token)
         IN /\ after.failed <=> ~Fits(read, token)
            /\ ~after.failed => Goes(read, token, after)
  <1> DEFINE after == Xml!ReadToken(read, token)
             tag == read.root = Xml!NoNode /\ token.kind \in {"open", "empty"}
             close == read.open # <<>> /\ token.kind = "close"
             text == read.open # <<>> /\ token.kind = "text" /\ Xml!DecodesAll(token.words)
  <1>1. Xml!DecodesAll(token.words) <=> Legality!WellFormedWords(token.words)
    BY WordsDecode DEF IsToken
  <1>2. CASE tag
    <2>1. after = Xml!ReadTag(read, token)
      BY <1>2, Zenon DEF Xml!ReadToken
    <2>2. Fits(read, token) <=> Legality!WellFormedToken(token)
      BY <1>2 DEF Fits
    <2> QED BY <1>2, <2>1, <2>2, TagRead
  <1>3. CASE close
    <2>1. after = Xml!ReadClose(read, token)
      BY <1>3, Zenon DEF Xml!ReadToken
    <2>2. Fits(read, token) <=> read.open[Len(read.open)].name = token.name
      BY <1>3 DEF Fits, Legality!WellFormedToken
    <2> QED BY <1>3, <2>1, <2>2, CloseRead
  <1>4. CASE text
    <2>1. after = [read EXCEPT !.open[Len(read.open)].words = @ \o Xml!Decoded(token.words)]
      BY <1>4, Zenon DEF Xml!ReadToken
    <2>2. Fits(read, token)
      BY <1>1, <1>4 DEF Fits, Legality!WellFormedToken
    <2>3. ~after.failed /\ Goes(read, token, after)
      <3> DEFINE words == Xml!Decoded(token.words)
      <3>1. after = [read EXCEPT !.open[Len(read.open)].words = @ \o words]
        BY <2>1
      <3> HIDE DEF words
      <3>2. LET written == [read EXCEPT !.open[Len(read.open)].words = @ \o words]
            IN ~written.failed /\ Goes(read, token, written)
        BY <1>4, TextRead
      <3> QED BY <3>1, <3>2, Zenon
    <2> QED BY <2>2, <2>3
  <1>5. CASE ~tag /\ ~close /\ ~text
    <2>1. after = Xml!Fail(read, Xml!OpenPath(read.open))
      BY <1>5, Zenon DEF Xml!ReadToken
    <2>2. after.failed
      BY <2>1, FailedParts
    <2>3. ~Fits(read, token)
      BY <1>1, <1>5, Zenon DEF Fits, Legality!WellFormedToken
    <2> QED BY <2>2, <2>3
  <1> QED BY <1>2, <1>3, <1>4, <1>5

-----------------------------------------------------------------------------
(* When the reader stops                                                    *)

\* The recursive function of Depth.
IsDepth(f, tokens) ==
  f = [k \in 0 .. Len(tokens) |-> IF k = 0 THEN 0 ELSE f[k - 1] + Change(tokens[k])]

LEMMA DepthExists ==
  ASSUME NEW tokens, Len(tokens) \in Nat
  PROVE  \E f \in [0 .. Len(tokens) -> Int] : IsDepth(f, tokens)
  <1> DEFINE n == Len(tokens)
             V == Int
             zero == 0
             step == [p \in V \X (1 .. n) |-> p[1] + Change(tokens[p[2]])]
  <1>1. n \in Nat /\ zero \in V
    OBVIOUS
  <1>2. step \in [V \X (1 .. n) -> V]
    <2>1. \A token : Change(token) \in Int
      BY DEF Change
    <2> QED BY <2>1
  <1>3. PICK g \in [0 .. n -> V] : Follows(g, n, zero, step)
    <2> HIDE DEF step, V, zero, n
    <2> QED BY <1>1, <1>2, Recursion
  <1>4. ASSUME NEW i \in 0 .. n PROVE g[i] = IF i = 0 THEN 0 ELSE g[i - 1] + Change(tokens[i])
    <2>1. g[0] = 0 /\ (i # 0 => g[i] = step[<<g[i - 1], i>>])
      <3> HIDE DEF step, V, n
      <3> QED BY <1>1, <1>3 DEF Follows
    <2>2. i # 0 => <<g[i - 1], i>> \in V \X (1 .. n)
      <3> HIDE DEF step, V, n
      <3> QED BY <1>1, <1>3
    <2> QED BY <2>1, <2>2
  <1>5. g = [i \in 0 .. n |-> IF i = 0 THEN 0 ELSE g[i - 1] + Change(tokens[i])]
    <2> HIDE DEF step, V, zero, n
    <2> QED BY <1>4
  <1>6. g \in [0 .. n -> Int] /\ IsDepth(g, tokens)
    BY <1>5 DEF IsDepth
  <1> QED BY <1>6

LEMMA DepthFacts ==
  ASSUME NEW tokens, Len(tokens) \in Nat
  PROVE  /\ Legality!Depth(tokens, 0) = 0
         /\ \A i \in 1 .. Len(tokens) :
              Legality!Depth(tokens, i) = Legality!Depth(tokens, i - 1) + Change(tokens[i])
         /\ \A i \in 0 .. Len(tokens) : Legality!Depth(tokens, i) \in Int
  <1> DEFINE n == Len(tokens)
             depth == CHOOSE f : IsDepth(f, tokens)
             D(i) == Legality!Depth(tokens, i)
  <1>1. IsDepth(depth, tokens)
    BY DepthExists
  <1>2. \A i : D(i) = depth[i]
    BY Zenon DEF Legality!Depth, IsDepth, Change
  <1> HIDE DEF depth
  <1>3. depth = [k \in 0 .. n |-> IF k = 0 THEN 0 ELSE depth[k - 1] + Change(tokens[k])]
    BY <1>1, Zenon DEF IsDepth
  <1>4. ASSUME NEW i \in 0 .. n PROVE D(i) = IF i = 0 THEN 0 ELSE D(i - 1) + Change(tokens[i])
    <2>1. depth[i] = IF i = 0 THEN 0 ELSE depth[i - 1] + Change(tokens[i])
      BY <1>3, Zenon
    <2> QED BY <1>2, <2>1, Zenon
  <1> HIDE DEF D
  <1>5. D(0) = 0 /\ \A i \in 1 .. n : D(i) = D(i - 1) + Change(tokens[i])
    BY <1>4
  <1> DEFINE P == {i \in 0 .. n : D(i) \in Int}
  <1>6. 0 \in P
    BY <1>5
  <1>7. ASSUME NEW i \in 1 .. n, i - 1 \in P PROVE i \in P
    <2>1. Change(tokens[i]) \in Int
      BY DEF Change
    <2> QED BY <1>5, <1>7, <2>1
  <1>8. \A i \in 0 .. n : i \in P
    <2> HIDE DEF P
    <2> QED BY <1>6, <1>7, Induction
  <1>9. \A i \in 0 .. n : D(i) \in Int
    BY <1>8
  <1> QED BY <1>5, <1>9 DEF D

Earlier(tokens, i) == {t \in Legality!Said(tokens) : t < i}

\* The conditions of WellFormed that a token has to meet, by those before it.
SoundToken(tokens, t) ==
  /\ Legality!WellFormedToken(tokens[t])
  /\ Earlier(tokens, t) = {} => tokens[t].kind \in {"open", "empty"}
  /\ Earlier(tokens, t) # {} => Legality!Depth(tokens, t - 1) > 0
  /\ tokens[t].kind = "close" => \E j \in 1 .. t - 1 : Legality!Closes(tokens, t, j)

\* The tag of element k of the stack after i tokens.
Opener(tokens, i, open, k, j) ==
  /\ tokens[j].kind = "open" /\ tokens[j].name = open[k].name
  /\ Legality!Depth(tokens, j) = k
  /\ \A m \in j .. i : Legality!Depth(tokens, m) >= k

\* The reader after i tokens.
ReaderAt(tokens, i, read) ==
  /\ read.failed <=> \E t \in Earlier(tokens, i + 1) : ~SoundToken(tokens, t)
  /\ ~read.failed =>
       /\ Len(read.open) = Legality!Depth(tokens, i)
       /\ \A k \in 1 .. Len(read.open) : \E j \in 1 .. i : Opener(tokens, i, read.open, k, j)
       /\ read.root = Xml!NoNode <=> Legality!Depth(tokens, i) # 0 \/ Earlier(tokens, i + 1) = {}

\* The element on top of the stack is the one that the next closing tag closes.
LEMMA OneOpener ==
  ASSUME NEW tokens, Len(tokens) \in Nat, NEW i \in 0 .. Len(tokens), NEW k \in Nat,
         NEW j1 \in 1 .. i, NEW j2 \in 1 .. i,
         tokens[j1].kind = "open", Legality!Depth(tokens, j1) = k,
         \A m \in j1 .. i : Legality!Depth(tokens, m) >= k,
         tokens[j2].kind = "open", Legality!Depth(tokens, j2) = k
  PROVE  ~(j1 < j2)
  <1> SUFFICES ASSUME j1 < j2 PROVE FALSE
    OBVIOUS
  <1>1. j2 - 1 \in j1 .. i /\ j2 - 1 \in 0 .. Len(tokens) /\ j2 \in 1 .. Len(tokens)
    OBVIOUS
  <1>2. Change(tokens[j2]) = 1
    BY DEF Change
  <1>3. Legality!Depth(tokens, j2) = Legality!Depth(tokens, j2 - 1) + 1 /\ Legality!Depth(tokens, j2 - 1) \in Int
    BY <1>1, <1>2, DepthFacts
  <1>4. Legality!Depth(tokens, j2 - 1) >= k
    BY <1>1
  <1> QED BY <1>3, <1>4

LEMMA FitsIsSound ==
  ASSUME NEW tokens, IsSeq(tokens), NEW t \in Legality!Said(tokens),
         NEW N, NEW read, IsReading(N, read), ReaderAt(tokens, t - 1, read), ~read.failed
  PROVE  Fits(read, tokens[t]) <=> SoundToken(tokens, t)
  <1> DEFINE D(i) == Legality!Depth(tokens, i)
             n == Len(tokens)
             token == tokens[t]
             depth == Len(read.open)
             earlier == Earlier(tokens, t)
  <1>1. n \in Nat /\ t \in 1 .. n /\ t - 1 \in 0 .. n
    BY SequenceFacts DEF Legality!Said
  <1>2. /\ depth \in Nat /\ (read.open # <<>> <=> depth > 0)
        /\ depth = D(t - 1)
    <2>1. read.open \in Seq(N)
      BY DEF IsReading
    <2>2. depth \in Nat /\ (read.open # <<>> <=> depth > 0)
      BY <2>1
    <2> QED BY <2>2, Zenon DEF ReaderAt
  <1>3. \A k \in 1 .. depth : \E j \in 1 .. t - 1 : Opener(tokens, t - 1, read.open, k, j)
    BY Zenon DEF ReaderAt
  <1>4. read.root = Xml!NoNode <=> depth # 0 \/ earlier = {}
    <2>1. (t - 1) + 1 = t
      BY <1>1
    <2> QED BY <1>2, <2>1, Zenon DEF ReaderAt
  <1>5. depth > 0 => earlier # {}
    <2> SUFFICES ASSUME depth > 0 PROVE earlier # {}
      OBVIOUS
    <2>1. PICK j \in 1 .. t - 1 : Opener(tokens, t - 1, read.open, 1, j)
      BY <1>2, <1>3
    <2>2. j \in DOMAIN tokens /\ j < t /\ tokens[j].kind = "open"
      BY <1>1, <2>1, SequenceFacts DEF Opener
    <2>3. j \in earlier
      BY <2>2 DEF Earlier, Legality!Said
    <2> QED BY <2>3
  <1>6. Legality!WellFormedToken(token) => token.kind \in {"open", "empty", "close", "text"}
    BY Zenon DEF Legality!WellFormedToken
  <1>7. ASSUME token.kind = "close", depth > 0
        PROVE  read.open[depth].name = token.name <=> \E j \in 1 .. t - 1 : Legality!Closes(tokens, t, j)
    <2>1. PICK j \in 1 .. t - 1 : Opener(tokens, t - 1, read.open, depth, j)
      BY <1>2, <1>3, <1>7
    <2>2. ASSUME read.open[depth].name = token.name PROVE Legality!Closes(tokens, t, j)
      BY <1>2, <2>1, <2>2 DEF Opener, Legality!Closes
    <2>3. ASSUME NEW j2 \in 1 .. t - 1, Legality!Closes(tokens, t, j2) PROVE read.open[depth].name = token.name
      <3>1. /\ tokens[j2].kind = "open" /\ tokens[j2].name = token.name /\ D(j2) = depth
            /\ \A m \in j2 .. t - 1 : D(m) >= depth
        BY <1>2, <2>3 DEF Legality!Closes
      <3>2. /\ tokens[j].kind = "open" /\ tokens[j].name = read.open[depth].name /\ D(j) = depth
            /\ \A m \in j .. t - 1 : D(m) >= depth
        BY <2>1 DEF Opener
      <3>3. ~(j < j2) /\ ~(j2 < j)
        <4> HIDE DEF depth
        <4> QED BY <1>1, <1>2, <3>1, <3>2, OneOpener
      <3>4. j = j2
        BY <3>3
      <3> QED BY <3>1, <3>2, <3>4
    <2> QED BY <2>2, <2>3
  <1>8. CASE token.kind \in {"open", "empty"}
    <2>1. Fits(read, token) <=> Legality!WellFormedToken(token) /\ read.root = Xml!NoNode
      BY <1>8 DEF Fits
    <2>2. SoundToken(tokens, t) <=> Legality!WellFormedToken(token) /\ (earlier # {} => D(t - 1) > 0)
      BY <1>8 DEF SoundToken
    <2> HIDE DEF depth, earlier, D
    <2>3. read.root = Xml!NoNode <=> (earlier # {} => D(t - 1) > 0)
      BY <1>2, <1>4
    <2> QED BY <2>1, <2>2, <2>3
  <1>9. CASE token.kind = "close"
    <2>1. Fits(read, token) <=> Legality!WellFormedToken(token) /\ read.open # <<>> /\ read.open[depth].name = token.name
      BY <1>9 DEF Fits
    <2>2. SoundToken(tokens, t) <=> /\ Legality!WellFormedToken(token) /\ earlier # {} /\ D(t - 1) > 0
                               /\ \E j \in 1 .. t - 1 : Legality!Closes(tokens, t, j)
      BY <1>9 DEF SoundToken
    <2> HIDE DEF depth, earlier, D
    <2> QED BY <1>2, <1>5, <1>7, <1>9, <2>1, <2>2
  <1>10. CASE token.kind = "text"
    <2>1. Fits(read, token) <=> Legality!WellFormedToken(token) /\ read.open # <<>>
      BY <1>10 DEF Fits
    <2>2. SoundToken(tokens, t) <=> Legality!WellFormedToken(token) /\ earlier # {} /\ D(t - 1) > 0
      BY <1>10 DEF SoundToken
    <2> HIDE DEF depth, earlier, D
    <2> QED BY <1>2, <1>5, <2>1, <2>2
  <1>11. CASE token.kind \notin {"open", "empty", "close", "text"}
    BY <1>6, <1>11 DEF Fits, SoundToken
  <1> QED BY <1>8, <1>9, <1>10, <1>11

LEMMA EarlierFacts ==
  ASSUME NEW tokens, IsSeq(tokens), NEW t \in 1 .. Len(tokens)
  PROVE  Earlier(tokens, t + 1) = Earlier(tokens, t) \cup (IF Xml!Skipped(tokens[t]) THEN {} ELSE {t})
  <1>1. t \in Legality!Said(tokens) <=> ~Xml!Skipped(tokens[t])
    <2>1. t \in DOMAIN tokens
      BY SequenceFacts
    <2> QED BY <2>1, Zenon DEF Legality!Said, Xml!Skipped
  <1>2. \A u \in Legality!Said(tokens) : u \in Nat
    BY SequenceFacts DEF Legality!Said
  <1>3. \A u \in Legality!Said(tokens) : u < t + 1 <=> u < t \/ u = t
    BY <1>2
  <1> QED BY <1>1, <1>3 DEF Earlier

LEMMA ReaderStep ==
  ASSUME NEW tokens, IsDocument(tokens), NEW t \in 1 .. Len(tokens), IsToken(tokens[t]),
         NEW read, Readable(read), ReaderAt(tokens, t - 1, read)
  PROVE  ReaderAt(tokens, t, Xml!ReadToken(read, tokens[t]))
  <1> DEFINE D(i) == Legality!Depth(tokens, i)
             n == Len(tokens)
             token == tokens[t]
             after == Xml!ReadToken(read, token)
             depth == Len(read.open)
             said == Earlier(tokens, t)
  <1>1. n \in Nat /\ t - 1 \in 0 .. n /\ t \in 0 .. n /\ (t - 1) + 1 = t /\ IsSeq(tokens)
    BY SequenceFacts DEF IsDocument
  <1>2. D(t) = D(t - 1) + Change(token) /\ D(t - 1) \in Int /\ D(t) \in Int
    BY <1>1, DepthFacts
  <1>3. Earlier(tokens, t + 1) = said \cup (IF Xml!Skipped(token) THEN {} ELSE {t})
    BY <1>1, EarlierFacts
  <1>4. read.failed <=> \E u \in said : ~SoundToken(tokens, u)
    BY <1>1, Zenon DEF ReaderAt
  <1>5. CASE read.failed
    <2>1. after = read
      BY <1>5, Zenon DEF Xml!ReadToken
    <2>2. \E u \in Earlier(tokens, t + 1) : ~SoundToken(tokens, u)
      BY <1>3, <1>4, <1>5
    <2> QED BY <1>5, <2>1, <2>2, Zenon DEF ReaderAt
  <1>6. CASE ~read.failed /\ Xml!Skipped(token)
    <2>1. after = read
      BY <1>6, Zenon DEF Xml!ReadToken
    <2>2. Earlier(tokens, t + 1) = said
      BY <1>3, <1>6
    <2>3. Change(token) = 0
      BY <1>6 DEF Change, Xml!Skipped
    <2>4. D(t) = D(t - 1)
      BY <1>2, <2>3
    <2>5. ASSUME NEW k \in 1 .. depth PROVE \E j \in 1 .. t : Opener(tokens, t, read.open, k, j)
      <3>1. PICK j \in 1 .. t - 1 : Opener(tokens, t - 1, read.open, k, j)
        BY <1>6, Zenon DEF ReaderAt
      <3>2. \A m \in j .. t : D(m) >= k
        BY <1>1, <2>4, <3>1 DEF Opener
      <3>3. j \in 1 .. t
        BY <1>1
      <3> QED BY <3>1, <3>2, <3>3, Zenon DEF Opener
    <2>6. depth = D(t) /\ (read.root = Xml!NoNode <=> D(t) # 0 \/ Earlier(tokens, t + 1) = {})
      BY <1>1, <1>6, <2>2, <2>4, Zenon DEF ReaderAt
    <2> QED BY <1>4, <1>6, <2>1, <2>2, <2>5, <2>6, Zenon DEF ReaderAt
  <1>7. CASE ~read.failed /\ ~Xml!Skipped(token)
    <2>1. PICK N : IsTree(N) /\ IsReading(N, read)
      BY DEF Readable
    <2>2. /\ depth \in Nat /\ (read.open # <<>> <=> depth > 0) /\ depth = D(t - 1)
          /\ read.root = Xml!NoNode <=> depth # 0 \/ said = {}
      <3>1. read.open \in Seq(N)
        BY <2>1 DEF IsReading
      <3>2. depth \in Nat /\ (read.open # <<>> <=> depth > 0)
        BY <3>1
      <3> QED BY <1>1, <1>7, <3>2, Zenon DEF ReaderAt
    <2>3. /\ after.failed <=> ~Fits(read, token)
          /\ ~after.failed => Goes(read, token, after)
      <3>1. read.open # <<>> => read.root = Xml!NoNode
        BY <2>2
      <3> QED BY <1>7, <2>1, <3>1, TokenRead
    <2>4. t \in Legality!Said(tokens) /\ Earlier(tokens, t + 1) = said \cup {t}
      <3>1. t \in DOMAIN tokens
        BY <1>1, SequenceFacts
      <3>2. t \in Legality!Said(tokens)
        BY <1>7, <3>1, Zenon DEF Legality!Said, Xml!Skipped
      <3> QED BY <1>3, <1>7, <3>2
    <2>5. Fits(read, token) <=> SoundToken(tokens, t)
      BY <1>1, <1>7, <2>1, <2>4, FitsIsSound
    <2>6. after.failed <=> \E u \in Earlier(tokens, t + 1) : ~SoundToken(tokens, u)
      BY <1>4, <1>7, <2>3, <2>4, <2>5
    <2>7. ASSUME ~after.failed
          PROVE  /\ Len(after.open) = D(t)
                 /\ \A k \in 1 .. Len(after.open) : \E j \in 1 .. t : Opener(tokens, t, after.open, k, j)
                 /\ after.root = Xml!NoNode <=> D(t) # 0 \/ Earlier(tokens, t + 1) = {}
      <3>1. Fits(read, token) /\ Goes(read, token, after)
        BY <2>3, <2>7
      <3> DEFINE kept == IF token.kind = "close" THEN depth - 1 ELSE depth
      <3>2. /\ Len(after.open) = depth + Change(token)
            /\ SameNames(after.open, read.open, kept)
            /\ token.kind = "open" => after.open[depth + 1].name = token.name
            /\ after.root = Xml!NoNode <=>
                 /\ read.root = Xml!NoNode
                 /\ ~(token.kind = "empty" /\ depth = 0) /\ ~(token.kind = "close" /\ depth = 1)
        BY <3>1, Zenon DEF Goes
      <3>3. /\ token.kind \in {"open", "empty", "close", "text"}
            /\ token.kind \in {"open", "empty"} => read.root = Xml!NoNode
            /\ token.kind \in {"close", "text"} => depth > 0
        BY <2>2, <3>1, Zenon DEF Fits, Legality!WellFormedToken
      <3>4. /\ token.kind = "open" => Change(token) = 1 /\ kept = depth
            /\ token.kind = "close" => Change(token) = -1 /\ kept = depth - 1
            /\ token.kind \in {"empty", "text"} => Change(token) = 0 /\ kept = depth
        BY DEF Change
      <3>5. Len(after.open) = D(t)
        BY <1>2, <2>2, <3>2
      <3>6. ASSUME NEW k \in 1 .. kept PROVE \E j \in 1 .. t : Opener(tokens, t, after.open, k, j)
        <4>1. k \in 1 .. depth /\ k <= D(t) /\ kept \in Nat
          BY <1>2, <2>2, <3>3, <3>4
        <4>2. PICK j \in 1 .. t - 1 : Opener(tokens, t - 1, read.open, k, j)
          BY <1>7, <4>1, Zenon DEF ReaderAt
        <4>3. \A m \in j .. t : D(m) >= k
          BY <1>1, <1>2, <4>1, <4>2 DEF Opener
        <4>4. after.open[k].name = read.open[k].name
          BY <3>2, Zenon DEF SameNames
        <4>5. j \in 1 .. t
          BY <1>1
        <4> QED BY <4>2, <4>3, <4>4, <4>5, Zenon DEF Opener
      <3>7. ASSUME token.kind = "open" PROVE Opener(tokens, t, after.open, depth + 1, t)
        <4>1. D(t) = depth + 1
          BY <1>2, <2>2, <3>4, <3>7
        <4>2. \A m \in t .. t : D(m) >= depth + 1
          BY <1>1, <1>2, <4>1
        <4> QED BY <3>2, <3>7, <4>1, <4>2, Zenon DEF Opener
      <3>8. ASSUME NEW k \in 1 .. Len(after.open) PROVE \E j \in 1 .. t : Opener(tokens, t, after.open, k, j)
        <4>1. k \in 1 .. kept \/ (token.kind = "open" /\ k = depth + 1)
          BY <2>2, <3>2, <3>3, <3>4
        <4>2. t \in 1 .. t
          BY <1>1
        <4> QED BY <3>6, <3>7, <4>1, <4>2
      <3>9. after.root = Xml!NoNode <=> D(t) # 0
        <4> HIDE DEF kept, after, depth, D, token, said
        <4> QED BY <1>2, <2>2, <3>2, <3>3, <3>4
      <3>10. Earlier(tokens, t + 1) # {}
        BY <2>4
      <3> QED BY <3>5, <3>8, <3>9, <3>10
    <2> QED BY <2>6, <2>7, Zenon DEF ReaderAt
  <1> QED BY <1>5, <1>6, <1>7

LEMMA GreatestOf ==
  ASSUME NEW n \in Nat, NEW S \in SUBSET (0 .. n), S # {}
  PROVE  \E i \in S : \A j \in S : j <= i
  <1> DEFINE T == {n - i : i \in S}
  <1>1. T \in SUBSET Nat /\ T # {}
    <2>1. \A i \in S : n - i \in Nat
      OBVIOUS
    <2>2. \A x \in T : x \in Nat
      BY <2>1
    <2>3. T # {}
      OBVIOUS
    <2> HIDE DEF T
    <2> QED BY <2>2, <2>3
  <1>2. PICK k \in T : \A l \in T : k <= l
    <2> HIDE DEF T
    <2> QED BY <1>1, LeastOf
  <1>3. PICK i \in S : k = n - i
    BY <1>2
  <1>4. ASSUME NEW j \in S PROVE j <= i
    <2>1. n - j \in T
      OBVIOUS
    <2>2. k <= n - j
      BY <1>2, <2>1
    <2> QED BY <1>3, <2>2
  <1> QED BY <1>4

\* What is skipped opens and closes nothing.
LEMMA QuietTokens ==
  ASSUME NEW tokens, IsSeq(tokens), NEW i \in 0 .. Len(tokens), NEW k \in i .. Len(tokens),
         \A t \in i + 1 .. k : t \notin Legality!Said(tokens)
  PROVE  Legality!Depth(tokens, k) = Legality!Depth(tokens, i)
  <1> DEFINE D(m) == Legality!Depth(tokens, m)
             P == {m \in 0 .. k : m >= i => D(m) = D(i)}
  <1>1. Len(tokens) \in Nat /\ DOMAIN tokens = 1 .. Len(tokens)
    BY SequenceFacts
  <1>2. 0 \in P
    BY <1>1
  <1>3. ASSUME NEW m \in 1 .. k, m - 1 \in P PROVE m \in P
    <2>1. CASE m <= i
      BY <1>1, <2>1
    <2>2. CASE m > i
      <3>1. m \notin Legality!Said(tokens) /\ m \in 1 .. Len(tokens) /\ m - 1 \in 0 .. Len(tokens)
        BY <1>1, <2>2
      <3>2. Change(tokens[m]) = 0
        BY <1>1, <3>1 DEF Legality!Said, Change
      <3>3. D(m) = D(m - 1) + Change(tokens[m]) /\ D(m - 1) \in Int
        BY <1>1, <3>1, DepthFacts, Zenon
      <3>4. D(m - 1) = D(i)
        BY <1>1, <1>3, <2>2
      <3> HIDE DEF D
      <3> QED BY <3>2, <3>3, <3>4
    <2> QED BY <1>1, <2>1, <2>2
  <1>4. \A m \in 0 .. k : m \in P
    <2> k \in Nat
      BY <1>1
    <2> HIDE DEF P
    <2> QED BY <1>2, <1>3, Induction
  <1> QED BY <1>1, <1>4

\* A document is well-formed if each of its tokens is sound and it ends outside.
LEMMA WellFormedFacts ==
  ASSUME NEW tokens, IsSeq(tokens)
  PROVE  Legality!WellFormed(tokens) <=>
           /\ Legality!Said(tokens) # {} /\ \A t \in Legality!Said(tokens) : SoundToken(tokens, t)
           /\ ~(Legality!Depth(tokens, Len(tokens)) > 0)
  <1> DEFINE said == Legality!Said(tokens)
             n == Len(tokens)
             D(i) == Legality!Depth(tokens, i)
             Later(i) == \E j \in said : i < j
             Entered == \A i \in said : Earlier(tokens, i) # {} => D(i - 1) > 0
             Left == \A i \in said : D(i) > 0 <=> Later(i)
  <1>1. n \in Nat /\ said \subseteq 1 .. n
    BY SequenceFacts DEF Legality!Said
  <1>2. \A i \in said : Earlier(tokens, i) = {} <=> \A j \in said : i <= j
    BY <1>1 DEF Earlier
  <1>3. ASSUME NEW i \in said, NEW k \in i .. n, \A t \in said : ~(i < t /\ t <= k)
        PROVE  D(k) = D(i)
    <2>1. i \in 0 .. n /\ \A t \in i + 1 .. k : t \notin said
      BY <1>1, <1>3
    <2> HIDE DEF D
    <2> QED BY <2>1, QuietTokens DEF D
  <1>4. ASSUME said # {}, Left PROVE Entered /\ ~(D(n) > 0)
    <2>1. ASSUME NEW i \in said, Earlier(tokens, i) # {} PROVE D(i - 1) > 0
      <3>1. Earlier(tokens, i) \in SUBSET (0 .. n)
        BY <1>1 DEF Earlier
      <3>2. PICK p \in Earlier(tokens, i) : \A j \in Earlier(tokens, i) : j <= p
        BY <1>1, <2>1, <3>1, GreatestOf
      <3>3. p \in said /\ p < i
        BY <3>2 DEF Earlier
      <3>4. D(i - 1) = D(p)
        <4>1. i - 1 \in p .. n /\ \A t \in said : ~(p < t /\ t <= i - 1)
          BY <1>1, <3>2, <3>3 DEF Earlier
        <4> HIDE DEF D, said
        <4> QED BY <1>3, <3>3, <4>1
      <3> QED BY <1>4, <3>3, <3>4
    <2>2. PICK p \in said : \A j \in said : j <= p
      <3>1. said \in SUBSET (0 .. n)
        BY <1>1
      <3> QED BY <1>1, <1>4, <3>1, GreatestOf
    <2>3. D(n) = D(p)
      <3>1. n \in p .. n /\ \A t \in said : ~(p < t /\ t <= n)
        BY <1>1, <2>2
      <3> HIDE DEF D, said
      <3> QED BY <1>3, <2>2, <3>1
    <2>4. ~Later(p)
      BY <1>1, <2>2
    <2> QED BY <1>4, <2>1, <2>2, <2>3, <2>4
  <1>5. ASSUME Entered, ~(D(n) > 0) PROVE Left
    <2> SUFFICES ASSUME NEW i \in said PROVE D(i) > 0 <=> Later(i)
      OBVIOUS
    <2>1. CASE Later(i)
      <3> DEFINE next == {j \in said : i < j}
      <3>1. next \in SUBSET Nat /\ next # {}
        BY <1>1, <2>1
      <3>2. PICK q \in next : \A j \in next : q <= j
        <4> HIDE DEF next
        <4> QED BY <3>1, LeastOf
      <3>3. q \in said /\ q - 1 \in i .. n /\ \A t \in said : ~(i < t /\ t <= q - 1)
        BY <1>1, <3>2
      <3>4. D(q - 1) = D(i)
        <4> HIDE DEF D, said
        <4> QED BY <1>3, <3>3
      <3>5. Earlier(tokens, q) # {}
        BY <1>1, <3>2 DEF Earlier
      <3> QED BY <1>5, <2>1, <3>3, <3>4, <3>5
    <2>2. CASE ~Later(i)
      <3>1. n \in i .. n /\ \A t \in said : ~(i < t /\ t <= n)
        BY <1>1, <2>2
      <3>2. D(n) = D(i)
        <4> HIDE DEF D, said
        <4> QED BY <1>3, <3>1
      <3> QED BY <1>5, <2>2, <3>2
    <2> QED BY <2>1, <2>2
  <1>6. Legality!WellFormed(tokens) <=>
          /\ said # {} /\ Left
          /\ \A i \in said : /\ Legality!WellFormedToken(tokens[i])
                             /\ (\A j \in said : i <= j) => tokens[i].kind \in {"open", "empty"}
                             /\ tokens[i].kind = "close" => \E j \in 1 .. i - 1 : Legality!Closes(tokens, i, j)
    BY Zenon DEF Legality!WellFormed
  <1>7. (\A t \in said : SoundToken(tokens, t)) <=>
          /\ Entered
          /\ \A i \in said : /\ Legality!WellFormedToken(tokens[i])
                             /\ (\A j \in said : i <= j) => tokens[i].kind \in {"open", "empty"}
                             /\ tokens[i].kind = "close" => \E j \in 1 .. i - 1 : Legality!Closes(tokens, i, j)
    BY <1>2, Zenon DEF SoundToken
  <1> HIDE DEF said, Left, Entered, D, n
  <1>8. Legality!WellFormed(tokens) <=> said # {} /\ (\A t \in said : SoundToken(tokens, t)) /\ ~(D(n) > 0)
    BY <1>4, <1>5, <1>6, <1>7, Zenon
  <1> QED BY <1>8 DEF said, D, n

\* The reader makes a tree of a document exactly if it is well-formed.
LEMMA RootIffWellFormed ==
  ASSUME NEW tokens, IsDocument(tokens)
  PROVE  RootOf(tokens) # Xml!NoNode <=> Legality!WellFormed(tokens)
  <1> DEFINE n == Len(tokens)
             D(i) == Legality!Depth(tokens, i)
             said == Legality!Said(tokens)
             after == CHOOSE f : IsReader(f, tokens, n)
  <1>1. n \in Nat /\ IsSeq(tokens) /\ \A i \in 1 .. n : IsToken(tokens[i])
    BY SequenceFacts DEF IsDocument, IsToken
  <1>2. IsReader(after, tokens, n)
    <2> HIDE DEF n
    <2> QED BY <1>1, ReaderExists
  <1>3. RootOf(tokens) = Xml!Outcome(after[n]).root
    BY DEF RootOf, Xml!ParseDocument, IsReader
  <1> DEFINE P == {i \in 0 .. n : Readable(after[i]) /\ ReaderAt(tokens, i, after[i])}
  <1> HIDE DEF after
  <1>4. 0 \in P
    <2>1. after[0] = Xml!Unread
      BY <1>1, <1>2 DEF IsReader
    <2>2. Readable(Xml!Unread)
      <3>1. IsTree({}) /\ <<>> \in Seq({})
        BY DEF IsTree
      <3>2. IsReading({}, Xml!Unread)
        BY <3>1, UnreadParts, ReadingOfParts, Zenon
      <3> QED BY <3>1, <3>2 DEF Readable
    <2>3. Earlier(tokens, 1) = {}
      <3>1. said \subseteq 1 .. n
        BY <1>1, SequenceFacts DEF Legality!Said
      <3> QED BY <1>1, <3>1 DEF Earlier
    <2>4. D(0) = 0
      BY <1>1, DepthFacts
    <2>5. Xml!Unread.open = <<>> /\ Xml!Unread.root = Xml!NoNode /\ ~Xml!Unread.failed
      BY UnreadParts, Zenon DEF Parts
    <2>6. ReaderAt(tokens, 0, Xml!Unread)
      BY <2>3, <2>4, <2>5 DEF ReaderAt
    <2> QED BY <1>1, <2>1, <2>2, <2>6
  <1>5. ASSUME NEW i \in 1 .. n, i - 1 \in P PROVE i \in P
    <2>1. after[i] = Xml!ReadToken(after[i - 1], tokens[i])
      BY <1>1, <1>2 DEF IsReader
    <2>2. Readable(after[i])
      BY <1>1, <1>5, <2>1, ReadTokenReads
    <2>3. ReaderAt(tokens, i, after[i])
      BY <1>1, <1>5, <2>1, ReaderStep
    <2> QED BY <1>1, <2>2, <2>3
  <1>6. \A i \in 0 .. n : i \in P
    <2> HIDE DEF P
    <2> QED BY <1>1, <1>4, <1>5, Induction
  <1>7. Readable(after[n]) /\ ReaderAt(tokens, n, after[n])
    BY <1>1, <1>6
  <1>8. Earlier(tokens, n + 1) = said
    <2>1. \A t \in said : t < n + 1
      BY <1>1, SequenceFacts DEF Legality!Said
    <2> QED BY <2>1 DEF Earlier
  <1>9. RootOf(tokens) # Xml!NoNode <=> ~after[n].failed /\ after[n].root # Xml!NoNode
    <2>1. Xml!Outcome(after[n]).root = IF after[n].failed THEN Xml!NoNode ELSE after[n].root
      BY DEF Xml!Outcome
    <2> QED BY <1>3, <2>1
  <1>10. /\ after[n].failed <=> \E t \in said : ~SoundToken(tokens, t)
         /\ ~after[n].failed => /\ Len(after[n].open) = D(n)
                                /\ after[n].root = Xml!NoNode <=> D(n) # 0 \/ said = {}
    BY <1>7, <1>8, Zenon DEF ReaderAt
  <1>11. ~after[n].failed => D(n) \in Nat
    <2>1. PICK N : IsReading(N, after[n])
      BY <1>7 DEF Readable
    <2>2. after[n].open \in Seq(N)
      BY <2>1 DEF IsReading
    <2>3. Len(after[n].open) \in Nat
      BY <2>2
    <2> QED BY <1>10, <2>3
  <1>12. Legality!WellFormed(tokens) <=> said # {} /\ (\A t \in said : SoundToken(tokens, t)) /\ ~(D(n) > 0)
    BY <1>1, WellFormedFacts
  <1> HIDE DEF said, D
  <1> QED BY <1>9, <1>10, <1>11, <1>12

-----------------------------------------------------------------------------
(* Selections                                                               *)

\* The recursive function of Select, for the elements at wanted positions.
IsSelection(kept, s, wanted) ==
  kept = [i \in 0 .. Len(s) |->
            IF i = 0 THEN <<>> ELSE IF i \in wanted THEN Append(kept[i - 1], s[i]) ELSE kept[i - 1]]

\* t has the elements of s at the wanted positions, each position once.
Places(at, s, wanted, t) ==
  /\ at \in [1 .. Len(t) -> wanted]
  /\ \A k \in 1 .. Len(t) : t[k] = s[at[k]]
  /\ \A j, k \in 1 .. Len(t) : at[j] = at[k] => j = k
  /\ \A i \in wanted : \E k \in 1 .. Len(t) : at[k] = i

Selected(s, wanted, t) == \E at : Places(at, s, wanted, t)

LEMMA SelectionExists ==
  ASSUME NEW S, NEW s \in Seq(S), NEW wanted
  PROVE  \E kept : IsSelection(kept, s, wanted)
  <1> DEFINE n == Len(s)
             V == Seq(S)
             base == <<>>
             step == [p \in V \X (1 .. n) |-> IF p[2] \in wanted THEN Append(p[1], s[p[2]]) ELSE p[1]]
  <1>1. n \in Nat /\ base \in V /\ step \in [V \X (1 .. n) -> V]
    OBVIOUS
  <1>2. PICK f \in [0 .. n -> V] : Follows(f, n, base, step)
    <2> HIDE DEF n, V, base, step
    <2> QED BY <1>1, Recursion
  <1>3. ASSUME NEW i \in 1 .. n
        PROVE  f[i] = IF i \in wanted THEN Append(f[i - 1], s[i]) ELSE f[i - 1]
    <2>1. f[i - 1] \in V /\ <<f[i - 1], i>> \in V \X (1 .. n)
      <3> HIDE DEF V, n
      <3> QED BY <1>1
    <2>2. f[i] = step[<<f[i - 1], i>>]
      <3> HIDE DEF n, V, step
      <3> QED BY <1>2 DEF Follows
    <2> HIDE DEF n, V
    <2> QED BY <2>1, <2>2
  <1>4. f[0] = <<>> /\ f = [i \in 0 .. n |-> f[i]]
    <2> HIDE DEF n, V, step
    <2> QED BY <1>2 DEF Follows, base
  <1>5. IsSelection(f, s, wanted)
    <2>1. n = Len(s)
      OBVIOUS
    <2> HIDE DEF V, step, n, base
    <2>2. ASSUME NEW i \in 0 .. n
          PROVE  f[i] = IF i = 0 THEN <<>> ELSE IF i \in wanted THEN Append(f[i - 1], s[i]) ELSE f[i - 1]
      <3>1. CASE i = 0
        BY <1>4, <3>1
      <3>2. CASE i # 0
        <4>1. i \in 1 .. n
          BY <1>1, <3>2
        <4> QED BY <1>3, <3>2, <4>1
      <3> QED BY <3>1, <3>2
    <2> QED BY <1>4, <2>1, <2>2 DEF IsSelection
  <1> QED BY <1>5

LEMMA Selection ==
  ASSUME NEW S, NEW s \in Seq(S), NEW wanted \in SUBSET DOMAIN s,
         NEW kept, IsSelection(kept, s, wanted)
  PROVE  kept[Len(s)] \in Seq(S) /\ Selected(s, wanted, kept[Len(s)])
  <1> DEFINE n == Len(s)
             P == {i \in 0 .. n : kept[i] \in Seq(S) /\ Selected(s, wanted \cap (1 .. i), kept[i])}
  <1>1. n \in Nat /\ DOMAIN s = 1 .. n /\ n = Len(s)
    OBVIOUS
  <1> HIDE DEF n, P
  <1>a. \A i \in 0 .. n : kept[i] = IF i = 0 THEN <<>> ELSE IF i \in wanted THEN Append(kept[i - 1], s[i]) ELSE kept[i - 1]
    BY <1>1, Zenon DEF IsSelection
  <1>2. 0 \in P
    <2>1. kept[0] = <<>>
      BY <1>1, <1>a
    <2>2. Places(<<>>, s, wanted \cap (1 .. 0), <<>>)
      BY DEF Places
    <2>3. Selected(s, wanted \cap (1 .. 0), kept[0]) /\ kept[0] \in Seq(S)
      BY <2>1, <2>2 DEF Selected
    <2> QED BY <1>1, <2>3 DEF P
  <1>3. ASSUME NEW i \in 1 .. n, i - 1 \in P PROVE i \in P
    <2>1. kept[i - 1] \in Seq(S) /\ Selected(s, wanted \cap (1 .. i - 1), kept[i - 1])
      BY <1>3 DEF P
    <2>2. kept[i] = IF i \in wanted THEN Append(kept[i - 1], s[i]) ELSE kept[i - 1]
      BY <1>1, <1>a
    <2>3. CASE i \notin wanted
      <3>1. wanted \cap (1 .. i) = wanted \cap (1 .. i - 1)
        BY <2>3
      <3>2. kept[i] \in Seq(S) /\ Selected(s, wanted \cap (1 .. i), kept[i])
        BY <2>1, <2>2, <2>3, <3>1
      <3> QED BY <1>1, <3>2 DEF P
    <2>4. CASE i \in wanted
      <3> DEFINE t == kept[i - 1]
                 u == Append(t, s[i])
                 m == Len(t)
      <3>1. PICK at : Places(at, s, wanted \cap (1 .. i - 1), t)
        BY <2>1 DEF Selected
      <3>2. m \in Nat /\ u \in Seq(S) /\ Len(u) = m + 1 /\ u[m + 1] = s[i] /\ \A k \in 1 .. m : u[k] = t[k]
        BY <1>1, <2>1
      <3> DEFINE also == [k \in 1 .. m + 1 |-> IF k = m + 1 THEN i ELSE at[k]]
      <3> HIDE DEF t, u, m, n
      <3>3. at \in [1 .. m -> wanted \cap (1 .. i - 1)] /\ \A k \in 1 .. m : t[k] = s[at[k]]
        BY <3>1 DEF Places, m
      <3>4. also \in [1 .. m + 1 -> wanted \cap (1 .. i)]
        <4>1. \A k \in 1 .. m : at[k] \in wanted \cap (1 .. i)
          BY <3>3
        <4> QED BY <1>1, <2>4, <3>2, <4>1
      <3>5. \A k \in 1 .. m + 1 : u[k] = s[also[k]]
        BY <3>2, <3>3
      <3>6. \A j, k \in 1 .. m + 1 : also[j] = also[k] => j = k
        <4>1. \A j, k \in 1 .. m : at[j] = at[k] => j = k
          BY <3>1 DEF Places, m
        <4>2. \A k \in 1 .. m : at[k] # i
          BY <3>3
        <4> QED BY <3>2, <4>1, <4>2
      <3>7. \A j \in wanted \cap (1 .. i) : \E k \in 1 .. m + 1 : also[k] = j
        <4>1. \A j \in wanted \cap (1 .. i - 1) : \E k \in 1 .. m : at[k] = j
          BY <3>1 DEF Places, m
        <4>2. also[m + 1] = i /\ m + 1 \in 1 .. m + 1
          BY <3>2
        <4>3. ASSUME NEW j \in wanted \cap (1 .. i), j # i PROVE \E k \in 1 .. m + 1 : also[k] = j
          <5>1. PICK k \in 1 .. m : at[k] = j
            BY <4>1, <4>3
          <5>2. k \in 1 .. m + 1 /\ also[k] = j
            BY <3>2, <5>1
          <5> QED BY <5>2
        <4> QED BY <4>2, <4>3
      <3>8. Places(also, s, wanted \cap (1 .. i), u)
        <4> HIDE DEF also
        <4> QED BY <3>2, <3>4, <3>5, <3>6, <3>7 DEF Places
      <3>9. kept[i] = u
        BY <2>2, <2>4 DEF u, t
      <3>10. kept[i] \in Seq(S) /\ Selected(s, wanted \cap (1 .. i), kept[i])
        BY <3>2, <3>8, <3>9 DEF Selected
      <3> QED BY <1>1, <3>10 DEF P
    <2> QED BY <2>3, <2>4
  <1>4. n \in P
    <2>1. \A i \in 0 .. n : i \in P
      BY <1>1, <1>2, <1>3, Induction, Zenon
    <2> QED BY <1>1, <2>1
  <1>5. wanted \cap (1 .. n) = wanted
    BY <1>1
  <1> QED BY <1>1, <1>4, <1>5 DEF P

\* The children of one name.
Named(node, name) == {i \in DOMAIN node.children : node.children[i].name[2] = name}

LEMMA ChildrenFacts ==
  ASSUME NEW N, NEW node, node.children \in Seq(N), NEW name
  PROVE  /\ Legality!Children(node, name) \in Seq(N)
         /\ Selected(node.children, Named(node, name), Legality!Children(node, name))
  <1> DEFINE s == node.children
             wanted == Named(node, name)
             Body(f) == [i \in 0 .. Len(s) |-> IF i = 0 THEN <<>>
                                               ELSE IF s[i].name[2] = name THEN Append(f[i - 1], s[i]) ELSE f[i - 1]]
             kept == CHOOSE f : f = Body(f)
  <1>1. \A i \in 1 .. Len(s) : i \in wanted <=> s[i].name[2] = name
    BY DEF Named
  <1>2. \A f : IsSelection(f, s, wanted) <=> f = Body(f)
    <2>1. \A f : Body(f) = [i \in 0 .. Len(s) |-> IF i = 0 THEN <<>> ELSE IF i \in wanted THEN Append(f[i - 1], s[i]) ELSE f[i - 1]]
      <3> HIDE DEF wanted
      <3> QED BY <1>1
    <2> HIDE DEF Body, wanted, s
    <2> QED BY <2>1 DEF IsSelection
  <1>3. \E f : IsSelection(f, s, wanted)
    BY SelectionExists
  <1>4. IsSelection(kept, s, wanted)
    <2> HIDE DEF Body, wanted, s
    <2> QED BY <1>2, <1>3
  <1>5. Legality!Children(node, name) = kept[Len(s)]
    BY DEF Legality!Children, Legality!Select
  <1>6. wanted \in SUBSET DOMAIN s
    BY DEF Named
  <1> HIDE DEF kept
  <1> QED BY <1>4, <1>5, <1>6, Selection

-----------------------------------------------------------------------------
(* The parsers and DcpLegality read a tree alike: what they have in common  *)
(* is the same in each of their copies.                                     *)

LEMMA SameLookups ==
  ASSUME NEW node, NEW name
  PROVE  /\ AssetMaps!Child(node, name) = Legality!Child(node, name)
         /\ PackingLists!Child(node, name) = Legality!Child(node, name)
         /\ Cpls!Child(node, name) = Legality!Child(node, name)
         /\ AssetMaps!TextOf(node, name) = Legality!TextOf(node, name)
         /\ PackingLists!TextOf(node, name) = Legality!TextOf(node, name)
         /\ Cpls!TextOf(node, name) = Legality!TextOf(node, name)
         /\ AssetMaps!ItemsOf(node, name) = Legality!ItemsOf(node, name)
         /\ PackingLists!ItemsOf(node, name) = Legality!ItemsOf(node, name)
         /\ Cpls!ItemsOf(node, name) = Legality!ItemsOf(node, name)
         /\ AssetMaps!Children(node, name) = Legality!Children(node, name)
         /\ PackingLists!Children(node, name) = Legality!Children(node, name)
         /\ Cpls!Children(node, name) = Legality!Children(node, name)
  BY Zenon
  DEF AssetMaps!Children, PackingLists!Children, Cpls!Children, Legality!Children,
      AssetMaps!Select, PackingLists!Select, Cpls!Select, Legality!Select, AssetMaps!Child,
      PackingLists!Child, Cpls!Child, Legality!Child, AssetMaps!First, PackingLists!First,
      Cpls!First, Legality!First, AssetMaps!NoNode, PackingLists!NoNode, Cpls!NoNode,
      Legality!NoNode, AssetMaps!TextOf, PackingLists!TextOf, Cpls!TextOf, Legality!TextOf,
      AssetMaps!WordsOf, PackingLists!WordsOf, Cpls!WordsOf, Legality!WordsOf, AssetMaps!ItemsOf,
      PackingLists!ItemsOf, Cpls!ItemsOf, Legality!ItemsOf

LEMMA SameAttributes ==
  ASSUME NEW node, NEW name
  PROVE  /\ AssetMaps!SchemaFlavor(node, name) = Legality!SchemaFlavor(node, name)
         /\ PackingLists!SchemaFlavor(node, name) = Legality!SchemaFlavor(node, name)
         /\ Cpls!SchemaFlavor(node, name) = Legality!SchemaFlavor(node, name)
         /\ AssetMaps!FindAttribute(node, name) = Legality!FindAttribute(node, name)
         /\ PackingLists!FindAttribute(node, name) = Legality!FindAttribute(node, name)
         /\ Cpls!FindAttribute(node, name) = Legality!FindAttribute(node, name)
  BY Zenon
  DEF AssetMaps!Is, PackingLists!Is, Cpls!Is, Legality!Is, AssetMaps!SchemaFlavor,
      PackingLists!SchemaFlavor, Cpls!SchemaFlavor, Legality!SchemaFlavor, AssetMaps!FlavorOf,
      PackingLists!FlavorOf, Cpls!FlavorOf, Legality!FlavorOf, AssetMaps!NamespaceUri,
      PackingLists!NamespaceUri, Cpls!NamespaceUri, Legality!NamespaceUri,
      AssetMaps!FindAttribute, PackingLists!FindAttribute, Cpls!FindAttribute,
      Legality!FindAttribute, AssetMaps!SelectInSeq, PackingLists!SelectInSeq, Cpls!SelectInSeq,
      Legality!SelectInSeq, AssetMaps!Min, PackingLists!Min, Cpls!Min, Legality!Min

LEMMA SameTexts ==
  ASSUME NEW text, NEW max
  PROVE  /\ AssetMaps!NormalizedUuid(text) = Legality!NormalizedUuid(text)
         /\ PackingLists!NormalizedUuid(text) = Legality!NormalizedUuid(text)
         /\ Cpls!NormalizedUuid(text) = Legality!NormalizedUuid(text)
         /\ AssetMaps!Unsigned(text, max) = Legality!Unsigned(text, max)
         /\ PackingLists!Unsigned(text, max) = Legality!Unsigned(text, max)
         /\ Cpls!Unsigned(text, max) = Legality!Unsigned(text, max)
         /\ AssetMaps!Positive(text, max) = Legality!Positive(text, max)
         /\ PackingLists!Positive(text, max) = Legality!Positive(text, max)
         /\ Cpls!Positive(text, max) = Legality!Positive(text, max)
  BY Zenon
  DEF AssetMaps!NormalizedUuid, PackingLists!NormalizedUuid, Cpls!NormalizedUuid,
      Legality!NormalizedUuid, AssetMaps!Is, PackingLists!Is, Cpls!Is, Legality!Is,
      AssetMaps!IsUuid, PackingLists!IsUuid, Cpls!IsUuid, Legality!IsUuid, AssetMaps!Unsigned,
      PackingLists!Unsigned, Cpls!Unsigned, Legality!Unsigned, AssetMaps!Positive,
      PackingLists!Positive, Cpls!Positive, Legality!Positive

LEMMA SameRequired ==
  ASSUME NEW node, NEW path, NEW name
  PROVE  /\ AssetMaps!RequiredId(node, path) = Legality!RequiredId(node, path)
         /\ PackingLists!RequiredId(node, path) = Legality!RequiredId(node, path)
         /\ Cpls!RequiredId(node, path) = Legality!RequiredId(node, path)
         /\ AssetMaps!RequiredText(node, path, name) = Legality!RequiredText(node, path, name)
         /\ PackingLists!RequiredText(node, path, name) = Legality!RequiredText(node, path, name)
         /\ Cpls!RequiredText(node, path, name) = Legality!RequiredText(node, path, name)
         /\ AssetMaps!HeaderDiagnostics(node, name) = Legality!HeaderDiagnostics(node, name)
         /\ PackingLists!HeaderDiagnostics(node, name) = Legality!HeaderDiagnostics(node, name)
         /\ Cpls!HeaderDiagnostics(node, name) = Legality!HeaderDiagnostics(node, name)
  BY Zenon
  DEF AssetMaps!Children, PackingLists!Children, Cpls!Children, Legality!Children,
      AssetMaps!Select, PackingLists!Select, Cpls!Select, Legality!Select, AssetMaps!Child,
      PackingLists!Child, Cpls!Child, Legality!Child, AssetMaps!First, PackingLists!First,
      Cpls!First, Legality!First, AssetMaps!NoNode, PackingLists!NoNode, Cpls!NoNode,
      Legality!NoNode, AssetMaps!TextOf, PackingLists!TextOf, Cpls!TextOf, Legality!TextOf,
      AssetMaps!WordsOf, PackingLists!WordsOf, Cpls!WordsOf, Legality!WordsOf,
      AssetMaps!NormalizedUuid, PackingLists!NormalizedUuid, Cpls!NormalizedUuid,
      Legality!NormalizedUuid, AssetMaps!Is, PackingLists!Is, Cpls!Is, Legality!Is,
      AssetMaps!IsUuid, PackingLists!IsUuid, Cpls!IsUuid, Legality!IsUuid, AssetMaps!Required,
      PackingLists!Required, Cpls!Required, Legality!Required, AssetMaps!RequiredWords,
      PackingLists!RequiredWords, Cpls!RequiredWords, Legality!RequiredWords, AssetMaps!Reports,
      PackingLists!Reports, Cpls!Reports, Legality!Reports, AssetMaps!Err, PackingLists!Err,
      Cpls!Err, Legality!Err, AssetMaps!Diagnostic, PackingLists!Diagnostic, Cpls!Diagnostic,
      Legality!Diagnostic, AssetMaps!Under, PackingLists!Under, Cpls!Under, Legality!Under,
      AssetMaps!Step, PackingLists!Step, Cpls!Step, Legality!Step, AssetMaps!RequiredId,
      PackingLists!RequiredId, Cpls!RequiredId, Legality!RequiredId, AssetMaps!RequiredText,
      PackingLists!RequiredText, Cpls!RequiredText, Legality!RequiredText,
      AssetMaps!HeaderDiagnostics, PackingLists!HeaderDiagnostics, Cpls!HeaderDiagnostics,
      Legality!HeaderDiagnostics, AssetMaps!SchemaFlavor, PackingLists!SchemaFlavor,
      Cpls!SchemaFlavor, Legality!SchemaFlavor, AssetMaps!FlavorOf, PackingLists!FlavorOf,
      Cpls!FlavorOf, Legality!FlavorOf, AssetMaps!NamespaceUri, PackingLists!NamespaceUri,
      Cpls!NamespaceUri, Legality!NamespaceUri, AssetMaps!FindAttribute,
      PackingLists!FindAttribute, Cpls!FindAttribute, Legality!FindAttribute,
      AssetMaps!SelectInSeq, PackingLists!SelectInSeq, Cpls!SelectInSeq, Legality!SelectInSeq,
      AssetMaps!Min, PackingLists!Min, Cpls!Min, Legality!Min, AssetMaps!IsValidUtcTimestamp,
      PackingLists!IsValidUtcTimestamp, Cpls!IsValidUtcTimestamp, Legality!IsValidUtcTimestamp,
      AssetMaps!IsUtc, PackingLists!IsUtc, Cpls!IsUtc, Legality!IsUtc, AssetMaps!DaysInMonth,
      PackingLists!DaysInMonth, Cpls!DaysInMonth, Legality!DaysInMonth, AssetMaps!IsLeapYear,
      PackingLists!IsLeapYear, Cpls!IsLeapYear, Legality!IsLeapYear

LEMMA SameDuplicates ==
  ASSUME NEW nodes, NEW path, NEW name, NEW code
  PROVE  /\ AssetMaps!DuplicateIds(nodes, path, name, code) = Legality!DuplicateIds(nodes, path, name, code)
         /\ PackingLists!DuplicateIds(nodes, path, name, code) = Legality!DuplicateIds(nodes, path, name, code)
         /\ Cpls!DuplicateIds(nodes, path, name, code) = Legality!DuplicateIds(nodes, path, name, code)
  BY Zenon
  DEF AssetMaps!Children, PackingLists!Children, Cpls!Children, Legality!Children,
      AssetMaps!Select, PackingLists!Select, Cpls!Select, Legality!Select, AssetMaps!Child,
      PackingLists!Child, Cpls!Child, Legality!Child, AssetMaps!First, PackingLists!First,
      Cpls!First, Legality!First, AssetMaps!NoNode, PackingLists!NoNode, Cpls!NoNode,
      Legality!NoNode, AssetMaps!TextOf, PackingLists!TextOf, Cpls!TextOf, Legality!TextOf,
      AssetMaps!WordsOf, PackingLists!WordsOf, Cpls!WordsOf, Legality!WordsOf,
      AssetMaps!NormalizedUuid, PackingLists!NormalizedUuid, Cpls!NormalizedUuid,
      Legality!NormalizedUuid, AssetMaps!Is, PackingLists!Is, Cpls!Is, Legality!Is,
      AssetMaps!IsUuid, PackingLists!IsUuid, Cpls!IsUuid, Legality!IsUuid, AssetMaps!DuplicateIds,
      PackingLists!DuplicateIds, Cpls!DuplicateIds, Legality!DuplicateIds, AssetMaps!Repeats,
      PackingLists!Repeats, Cpls!Repeats, Legality!Repeats, AssetMaps!Uuids, PackingLists!Uuids,
      Cpls!Uuids, Legality!Uuids, AssetMaps!Err, PackingLists!Err, Cpls!Err, Legality!Err,
      AssetMaps!Diagnostic, PackingLists!Diagnostic, Cpls!Diagnostic, Legality!Diagnostic,
      AssetMaps!Under, PackingLists!Under, Cpls!Under, Legality!Under, AssetMaps!Step,
      PackingLists!Step, Cpls!Step, Legality!Step, AssetMaps!Nth, PackingLists!Nth, Cpls!Nth,
      Legality!Nth

-----------------------------------------------------------------------------
(* Lookups in a tree                                                        *)

LEMMA ChildFacts ==
  ASSUME NEW N, IsTree(N), NEW node \in N, NEW name
  PROVE  /\ Legality!Children(node, name) \in Seq(N)
         /\ Legality!Child(node, name) \in N \cup {Legality!NoNode}
         /\ IsText(Legality!TextOf(node, name))
  <1>1. node.children \in Seq(N)
    BY DEF IsTree, IsNode
  <1>2. Legality!Children(node, name) \in Seq(N)
    BY <1>1, ChildrenFacts
  <1>3. Legality!Child(node, name) \in N \cup {Legality!NoNode}
    <2> DEFINE nodes == Legality!Children(node, name)
    <2>1. nodes # <<>> => nodes[1] \in N
      <3> HIDE DEF nodes
      <3> QED BY <1>2 DEF nodes
    <2> HIDE DEF nodes
    <2> QED BY <2>1 DEF Legality!Child, Legality!First, nodes
  <1>4. IsText(<<>>)
    BY DEF IsText, IsSeq, Elements
  <1>5. \A n \in N : IsText(n.words)
    BY DEF IsTree, IsNode
  <1> QED BY <1>2, <1>3, <1>4, <1>5 DEF Legality!TextOf, Legality!WordsOf

LEMMA ItemsFacts ==
  ASSUME NEW N, IsTree(N), NEW node \in N, NEW list, NEW item
  PROVE  Legality!Items(node, list, item) \in Seq(N)
  <1> DEFINE found == Legality!Child(node, list)
  <1>1. found \in N \cup {Legality!NoNode}
    BY ChildFacts
  <1>2. found # Legality!NoNode => Legality!Children(found, item) \in Seq(N)
    <2> HIDE DEF found
    <2> QED BY <1>1, ChildFacts
  <1>3. <<>> \in Seq(N)
    OBVIOUS
  <1> HIDE DEF found
  <1> QED BY <1>2, <1>3 DEF Legality!Items, Legality!ItemsOf, found

-----------------------------------------------------------------------------
(* Texts                                                                    *)

LEMMA OneWord ==
  ASSUME NEW text, IsText(text), NEW kind, Legality!Is(text, kind)
  PROVE  text # <<>> /\ IsWord(text[1]) /\ kind \in DOMAIN text[1]
  <1>1. Len(text) = 1 /\ kind \in DOMAIN text[1]
    BY DEF Legality!Is
  <1>2. 1 \in DOMAIN text
    BY <1>1, SequenceFacts DEF IsText
  <1>3. text[1] \in Elements(text)
    BY <1>2 DEF Elements
  <1> QED BY <1>1, <1>3 DEF IsText

LEMMA IdFacts ==
  ASSUME NEW text, IsText(text)
  PROVE  /\ Legality!IdText(text) <=> Legality!NormalizedUuid(text) # None
         /\ Legality!IdText(text) => /\ text # <<>>
                                     /\ Legality!NormalizedUuid(text) = text[1].id
                                     /\ text[1].id \in Uuid /\ text[1].id \in PklId /\ text[1].id \in ReelId
  <1>1. CASE Legality!Is(text, "id")
    <2>1. text # <<>> /\ IsWord(text[1]) /\ "id" \in DOMAIN text[1]
      BY <1>1, OneWord
    <2>2. text[1].id \in Uuid /\ text[1].id \in PklId /\ text[1].id \in ReelId
          /\ text[1].spelling \in {"lower", "upper", "urn", "cut"}
      BY <2>1 DEF IsWord
    <2>3. text[1].id # None
      BY <2>2, ValuesAssumption
    <2> QED BY <1>1, <2>1, <2>2, <2>3 DEF Legality!IdText, Legality!NormalizedUuid
  <1>2. CASE ~Legality!Is(text, "id")
    BY <1>2 DEF Legality!IdText, Legality!NormalizedUuid
  <1> QED BY <1>1, <1>2

LEMMA NumberFacts ==
  ASSUME NEW text, IsText(text), NEW max \in Nat
  PROVE  /\ Legality!Unsigned(text, max) # None <=> Legality!NumberText(text, 0 .. max)
         /\ Legality!Positive(text, max) # None <=> Legality!NumberText(text, 1 .. max)
         /\ Legality!NumberText(text, 0 .. max) =>
              /\ text # <<>> /\ Legality!Unsigned(text, max) = text[1].number /\ text[1].number \in Nat
         /\ Legality!NumberText(text, 1 .. max) =>
              /\ text # <<>> /\ Legality!Positive(text, max) = text[1].number /\ text[1].number \in 1 .. max
  <1>1. CASE Legality!Is(text, "number")
    <2>1. text # <<>> /\ text[1].number \in Nat
      BY <1>1, OneWord DEF IsWord
    <2>2. text[1].number # None /\ 0 # None
      BY <2>1, ValuesAssumption
    <2> DEFINE number == text[1].number
    <2>3. Legality!Unsigned(text, max) = IF number <= max THEN number ELSE None
      BY <1>1 DEF Legality!Unsigned
    <2>4. \A S : Legality!NumberText(text, S) <=> number \in S
      BY <1>1 DEF Legality!NumberText
    <2> HIDE DEF number
    <2> QED BY <2>1, <2>2, <2>3, <2>4 DEF Legality!Positive, number
  <1>2. CASE ~Legality!Is(text, "number")
    <2>1. Legality!Unsigned(text, max) = None /\ 0 # None
      BY <1>2, ValuesAssumption DEF Legality!Unsigned
    <2> QED BY <1>2, <2>1 DEF Legality!Positive, Legality!NumberText
  <1> QED BY <1>1, <1>2

LEMMA TimeFacts ==
  ASSUME NEW text, IsText(text)
  PROVE  /\ Legality!IsValidUtcTimestamp(text) <=> Legality!TimeText(text)
         /\ Legality!TimeText(text) => text # <<>>
  BY OneWord DEF Legality!IsValidUtcTimestamp, Legality!TimeText

\* The segments of a path that normalize_relative_path keeps.
Kept(segments) == AssetMaps!Select(segments, LAMBDA segment : segment \notin {"", "."})

Leading(segments) == {i \in DOMAIN segments : segments[i] \notin {"", "."}}

LEMMA KeptFacts ==
  ASSUME NEW T, NEW segments \in Seq(T)
  PROVE  \E kept : /\ IsSelection(kept, segments, Leading(segments))
                   /\ Kept(segments) = kept[Len(segments)]
  <1> DEFINE s == segments
             wanted == Leading(s)
             Body(f) == [i \in 0 .. Len(s) |-> IF i = 0 THEN <<>>
                                               ELSE IF s[i] \notin {"", "."} THEN Append(f[i - 1], s[i]) ELSE f[i - 1]]
             kept == CHOOSE f : f = Body(f)
  <1>1. \A i \in 1 .. Len(s) : i \in wanted <=> s[i] \notin {"", "."}
    <2>1. DOMAIN s = 1 .. Len(s)
      OBVIOUS
    <2> QED BY <2>1, Zenon DEF Leading
  <1>2. \A f : Body(f) = [i \in 0 .. Len(s) |-> IF i = 0 THEN <<>> ELSE IF i \in wanted THEN Append(f[i - 1], s[i]) ELSE f[i - 1]]
    <2> DEFINE Wanted(x) == x \notin {"", "."}
    <2>1. \A i \in 1 .. Len(s) : i \in wanted <=> Wanted(s[i])
      BY <1>1, Zenon
    <2>2. \A f : Body(f) = [i \in 0 .. Len(s) |-> IF i = 0 THEN <<>> ELSE IF Wanted(s[i]) THEN Append(f[i - 1], s[i]) ELSE f[i - 1]]
      BY Zenon
    <2> HIDE DEF wanted, Wanted, Body
    <2> QED BY <2>1, <2>2
  <1> HIDE DEF Body, wanted
  <1>3. \E f : IsSelection(f, s, wanted)
    BY SelectionExists
  <1>4. kept = Body(kept)
    BY <1>2, <1>3 DEF IsSelection
  <1>5. IsSelection(kept, s, wanted)
    BY <1>2, <1>4 DEF IsSelection
  <1>6. Kept(s) = kept[Len(s)]
    BY Zenon DEF Kept, AssetMaps!Select, Body
  <1> QED BY <1>5, <1>6, Zenon DEF wanted

\* A walk that takes no step up ends where the segments that are kept lead.
LEMMA WalkFacts ==
  ASSUME NEW T, None \notin Seq(T), NEW segments \in Seq(T), \A i \in DOMAIN segments : segments[i] # ".."
  PROVE  Kept(segments) \in Seq(T) /\ Legality!Place(segments) = Kept(segments)
  <1> DEFINE s == segments
             n == Len(s)
             Stays(x) == x \in {"", "."}
             Up(x) == x = ".."
             Go(here, x) == IF here = None \/ Stays(x) THEN here
                            ELSE IF ~Up(x) THEN Append(here, x)
                            ELSE IF here = <<>> THEN None ELSE Legality!Front(here)
             Body(f) == [i \in 0 .. n |-> IF i = 0 THEN <<>> ELSE Go(f[i - 1], s[i])]
             after == CHOOSE f : f = Body(f)
  <1>1. PICK kept : IsSelection(kept, s, Leading(s)) /\ Kept(s) = kept[n]
    BY KeptFacts
  <1>2. n \in Nat /\ DOMAIN s = 1 .. n /\ n = Len(s)
    OBVIOUS
  <1>3. Legality!Place(s) = after[n]
    BY Zenon DEF Legality!Place
  <1>4. \A i \in 1 .. n : (i \in Leading(s) <=> ~Stays(s[i])) /\ ~Up(s[i])
    BY Zenon, <1>2 DEF Leading
  <1>5. Leading(s) \in SUBSET DOMAIN s
    BY Zenon DEF Leading
  <1> HIDE DEF n, Stays, Up
  <1>6. ASSUME NEW i \in 0 .. n
        PROVE  kept[i] = IF i = 0 THEN <<>> ELSE IF ~Stays(s[i]) THEN Append(kept[i - 1], s[i]) ELSE kept[i - 1]
    <2>1. kept[i] = IF i = 0 THEN <<>> ELSE IF i \in Leading(s) THEN Append(kept[i - 1], s[i]) ELSE kept[i - 1]
      BY <1>1, <1>2 DEF IsSelection
    <2>2. i # 0 => i \in 1 .. n
      BY <1>2
    <2> QED BY <1>4, <2>1, <2>2
  <1> DEFINE P == {i \in 0 .. n : kept[i] \in Seq(T)}
  <1>7. \A i \in 0 .. n : kept[i] \in Seq(T)
    <2> HIDE DEF Go, Body, after
    <2>1. 0 \in P
      <3>1. kept[0] = <<>> /\ 0 \in 0 .. n
        BY <1>2, <1>6
      <3>2. <<>> \in Seq(T)
        OBVIOUS
      <3>3. kept[0] \in Seq(T)
        BY <3>1, <3>2, Zenon
      <3> QED BY <3>1, <3>3, Zenon
    <2>2. ASSUME NEW i \in 1 .. n, i - 1 \in P PROVE i \in P
      <3>1. s[i] \in T /\ i \in 0 .. n /\ i # 0
        BY <1>2
      <3>2. kept[i - 1] \in Seq(T)
        BY <2>2
      <3>3. kept[i] = Append(kept[i - 1], s[i]) \/ kept[i] = kept[i - 1]
        BY <1>6, <3>1
      <3>4. kept[i] \in Seq(T)
        <4>1. Append(kept[i - 1], s[i]) \in Seq(T)
          BY <3>1, <3>2
        <4> QED BY <3>2, <3>3, <4>1, Zenon
      <3> QED BY <3>1, <3>4
    <2>3. \A i \in 0 .. n : i \in P
      <3> HIDE DEF P
      <3> QED BY <1>2, <2>1, <2>2, Induction
    <2> QED BY <2>3
  <1>8. ASSUME NEW i \in 1 .. n PROVE kept[i] = Go(kept[i - 1], s[i])
    <2>1. kept[i - 1] # None
      BY <1>2, <1>7
    <2> QED BY <1>2, <1>4, <1>6, <2>1
  <1>9. kept = Body(kept)
    <2>1. kept = [i \in 0 .. n |-> kept[i]]
      BY <1>1, <1>2 DEF IsSelection
    <2>2. kept[0] = <<>>
      BY <1>2, <1>6
    <2> HIDE DEF Go
    <2> QED BY <1>2, <1>8, <2>1, <2>2
  <1>10. after = Body(after)
    <2> HIDE DEF Body
    <2> QED BY <1>9
  <1> HIDE DEF after, Go
  <1> DEFINE Q == {i \in 0 .. n : after[i] = kept[i]}
  <1>11. \A i \in 0 .. n : i \in Q
    <2>1. 0 \in Q
      BY <1>2, <1>6, <1>10
    <2>2. ASSUME NEW i \in 1 .. n, i - 1 \in Q PROVE i \in Q
      <3>1. after[i] = Go(after[i - 1], s[i])
        BY <1>2, <1>10
      <3> QED BY <1>2, <1>8, <2>2, <3>1
    <2> HIDE DEF Q
    <2> QED BY <1>2, <2>1, <2>2, Induction
  <1> QED BY <1>1, <1>2, <1>3, <1>7, <1>11

LEMMA PathFacts ==
  ASSUME NEW text, IsText(text)
  PROVE  /\ Legality!PathText(text) <=> AssetMaps!NormalizedPath(text) # None
         /\ Legality!PathText(text) =>
              /\ text # <<>> /\ AssetMaps!NormalizedPath(text) \in Path
              /\ AssetMaps!NormalizedPath(text) = Legality!Place(text[1].segments)
  <1>1. CASE ~Legality!Is(text, "segments")
    BY <1>1, Zenon DEF Legality!PathText, AssetMaps!NormalizedPath, AssetMaps!Is, Legality!Is
  <1>2. CASE Legality!Is(text, "segments")
    <2> DEFINE s == text[1].segments
               Relative == ~text[1].backslash /\ s[1] # ""
               Straight == \A i \in DOMAIN s : s[i] # ".."
    <2>1. /\ text # <<>> /\ s \in Seq(STRING) /\ s # <<>>
          /\ AssetMaps!NormalizedPath(<<text[1]>>) \in Optional(Path)
      BY <1>2, OneWord DEF IsWord
    <2>2. text = <<text[1]>>
      <3>1. IsSeq(text) /\ Len(text) = 1
        BY <1>2 DEF IsText, Legality!Is
      <3> QED BY <3>1 DEF IsSeq
    <2>3. Head(s) = s[1]
      BY <2>1
    <2>4. AssetMaps!NormalizedPath(text) = IF Relative /\ Straight THEN AssetMaps!NonEmpty(Kept(s)) ELSE None
      <3>1. AssetMaps!Is(text, "segments")
        BY <1>2, Zenon DEF AssetMaps!Is, Legality!Is
      <3> DEFINE accepted == /\ AssetMaps!Is(text, "segments")
                             /\ ~text[1].backslash
                             /\ Head(text[1].segments) # ""
                             /\ \A i \in DOMAIN text[1].segments : text[1].segments[i] # ".."
      <3>2. AssetMaps!NormalizedPath(text) = IF accepted THEN AssetMaps!NonEmpty(Kept(s)) ELSE None
        BY DEF AssetMaps!NormalizedPath, Kept, AssetMaps!Select
      <3>3. accepted <=> Relative /\ Straight
        BY <2>3, <3>1, Zenon
      <3> HIDE DEF accepted, Relative, Straight, s
      <3> QED BY <3>2, <3>3
    <2>5. Legality!PathText(text) <=> Relative /\ Straight /\ Legality!Place(s) # <<>>
      BY <1>2, Zenon DEF Legality!PathText, Legality!ToSet
    <2> HIDE DEF Relative, s
    <2>6. Straight => Kept(s) \in Seq(STRING) /\ Legality!Place(s) = Kept(s) /\ Kept(s) # None
      <3> DEFINE T == STRING
      <3>1. None \notin Seq(T) /\ s \in Seq(T)
        BY <2>1, ValuesAssumption
      <3> HIDE DEF T
      <3>2. Straight => Kept(s) \in Seq(T) /\ Legality!Place(s) = Kept(s)
        BY <3>1, WalkFacts
      <3>3. Straight => Kept(s) \in Seq(T) /\ Legality!Place(s) = Kept(s) /\ Kept(s) # None
        BY <3>1, <3>2
      <3> QED BY <3>3 DEF T
    <2>7. AssetMaps!NormalizedPath(text) \in Optional(Path)
      BY <2>1, <2>2
    <2> HIDE DEF Straight
    <2>8. AssetMaps!NormalizedPath(text) # None => AssetMaps!NormalizedPath(text) \in Path
      BY <2>7 DEF Optional
    <2> QED BY <2>1, <2>4, <2>5, <2>6, <2>8 DEF AssetMaps!NonEmpty, s
  <1> QED BY <1>1, <1>2

-----------------------------------------------------------------------------
(* Digests                                                                  *)

LEMMA SameCard == ASSUME NEW S PROVE PackingLists!Cardinality(S) = Cardinality(S) /\ Legality!Cardinality(S) = Cardinality(S)
  BY Zenon DEF PackingLists!Cardinality, Cardinality, Legality!Cardinality

Block(b) == 4 * b - 3 .. 4 * b
SignsIn(pads, b) == Cardinality(pads \cap Block(b))

\* The blocks up to b with at least m signs.
BlocksWith(pads, b, m) == {c \in 1 .. b : SignsIn(pads, c) >= m}

LEMMA BlockFacts ==
  ASSUME NEW pads, NEW b \in Nat
  PROVE  SignsIn(pads, b) \in Nat
  <1>1. IsFiniteSet(Block(b))
    <2>1. 4 * b - 3 \in Int /\ 4 * b \in Int
      OBVIOUS
    <2> QED BY <2>1, FS_Interval DEF Block
  <1>2. IsFiniteSet(pads \cap Block(b))
    BY <1>1, FS_Subset
  <1> QED BY <1>2, FS_CardinalityType DEF SignsIn

LEMMA OneMoreBlock ==
  ASSUME NEW pads, NEW b \in Nat \ {0}, NEW m
  PROVE  /\ IsFiniteSet(BlocksWith(pads, b - 1, m))
         /\ Cardinality(BlocksWith(pads, b, m)) =
              Cardinality(BlocksWith(pads, b - 1, m)) + (IF SignsIn(pads, b) >= m THEN 1 ELSE 0)
         /\ Cardinality(BlocksWith(pads, b - 1, m)) \in Nat
  <1> DEFINE before == BlocksWith(pads, b - 1, m)
             after == BlocksWith(pads, b, m)
  <1>1. IsFiniteSet(before)
    <2>1. IsFiniteSet(1 .. b - 1) /\ before \subseteq 1 .. b - 1
      BY FS_Interval DEF BlocksWith
    <2> HIDE DEF before
    <2> QED BY <2>1, FS_Subset
  <1>2. Cardinality(before) \in Nat
    BY <1>1, FS_CardinalityType
  <1>3. 1 .. b = (1 .. b - 1) \cup {b} /\ b \notin 1 .. b - 1
    OBVIOUS
  <1>4. CASE SignsIn(pads, b) >= m
    <2>1. after = before \cup {b} /\ b \notin before
      BY <1>3, <1>4 DEF BlocksWith
    <2> HIDE DEF before, after
    <2>2. Cardinality(after) = Cardinality(before) + 1
      BY <1>1, <2>1, FS_AddElement
    <2> QED BY <1>1, <1>2, <1>4, <2>2 DEF before, after
  <1>5. CASE ~(SignsIn(pads, b) >= m)
    <2>1. after = before
      BY <1>3, <1>5 DEF BlocksWith
    <2> HIDE DEF before, after
    <2> QED BY <1>1, <1>2, <1>5, <2>1 DEF before, after
  <1> QED BY <1>4, <1>5

\* The recursive function of Base64Bytes.
IsByteCount(bytes, pads, n) ==
  bytes = [b \in 0 .. n |-> IF b = 0 THEN 0 ELSE bytes[b - 1] + PackingLists!BlockBytes(SignsIn(pads, b))]

LEMMA ByteCountExists ==
  ASSUME NEW pads, NEW n \in Nat
  PROVE  \E bytes : IsByteCount(bytes, pads, n)
  <1> DEFINE base == 0
             step == [p \in Nat \X (1 .. n) |-> p[1] + PackingLists!BlockBytes(SignsIn(pads, p[2]))]
  <1>1. \A k : PackingLists!BlockBytes(k) \in Nat
    BY DEF PackingLists!BlockBytes
  <1>2. base \in Nat /\ step \in [Nat \X (1 .. n) -> Nat]
    BY <1>1
  <1>3. PICK f \in [0 .. n -> Nat] : Follows(f, n, base, step)
    <2> HIDE DEF base, step
    <2> QED BY <1>2, Recursion
  <1>4. ASSUME NEW i \in 1 .. n PROVE f[i] = f[i - 1] + PackingLists!BlockBytes(SignsIn(pads, i))
    <2>1. f[i] = step[<<f[i - 1], i>>]
      <3> HIDE DEF step
      <3> QED BY <1>3 DEF Follows
    <2>2. f[i - 1] \in Nat
      OBVIOUS
    <2> QED BY <2>1, <2>2
  <1>5. f[0] = 0 /\ f = [i \in 0 .. n |-> f[i]]
    <2> HIDE DEF step
    <2> QED BY <1>3 DEF Follows
  <1> HIDE DEF step
  <1>6. IsByteCount(f, pads, n)
    <2>1. ASSUME NEW b \in 0 .. n
          PROVE  f[b] = IF b = 0 THEN 0 ELSE f[b - 1] + PackingLists!BlockBytes(SignsIn(pads, b))
      <3>1. CASE b = 0
        BY <1>5, <3>1
      <3>2. CASE b # 0
        <4>1. b \in 1 .. n
          BY <3>2
        <4> QED BY <1>4, <3>2, <4>1
      <3> QED BY <3>1, <3>2
    <2> QED BY <1>5, <2>1 DEF IsByteCount
  <1> QED BY <1>6

LEMMA ByteCount ==
  ASSUME NEW pads, NEW n \in Nat, NEW bytes, IsByteCount(bytes, pads, n)
  PROVE  bytes[n] = 3 * n - Cardinality(BlocksWith(pads, n, 1)) - Cardinality(BlocksWith(pads, n, 2))
  <1> DEFINE Count(b, m) == Cardinality(BlocksWith(pads, b, m))
             P == {b \in 0 .. n : bytes[b] = 3 * b - Count(b, 1) - Count(b, 2)}
  <1>1. 0 \in P
    <2>1. bytes[0] = 0
      BY DEF IsByteCount
    <2>2. Count(0, 1) = 0 /\ Count(0, 2) = 0
      BY FS_EmptySet DEF BlocksWith
    <2> HIDE DEF Count
    <2> QED BY <2>1, <2>2
  <1>2. ASSUME NEW b \in 1 .. n, b - 1 \in P PROVE b \in P
    <2> DEFINE k == SignsIn(pads, b)
    <2>1. bytes[b] = bytes[b - 1] + PackingLists!BlockBytes(k)
      BY DEF IsByteCount
    <2>2. bytes[b - 1] = 3 * (b - 1) - Count(b - 1, 1) - Count(b - 1, 2)
      BY <1>2
    <2>3. \A m : /\ Count(b, m) = Count(b - 1, m) + (IF k >= m THEN 1 ELSE 0)
                 /\ Count(b - 1, m) \in Nat
      <3>1. b \in Nat \ {0}
        OBVIOUS
      <3> QED BY <3>1, OneMoreBlock
    <2>4. k \in Nat
      BY BlockFacts
    <2>5. PackingLists!BlockBytes(k) = 3 - (IF k >= 1 THEN 1 ELSE 0) - (IF k >= 2 THEN 1 ELSE 0)
      <3> HIDE DEF k
      <3> QED BY <2>4 DEF PackingLists!BlockBytes
    <2> HIDE DEF k, Count
    <2> QED BY <2>1, <2>2, <2>3, <2>4, <2>5
  <1>3. n \in P
    <2> HIDE DEF P
    <2> QED BY <1>1, <1>2, Induction
  <1> QED BY <1>3

LEMMA Base64BytesFacts ==
  ASSUME NEW all, all.chars \in Nat, all.ok, all.chars % 4 = 0
  PROVE  LET n == all.chars \div 4
         IN PackingLists!Base64Bytes(all)
              = 3 * n - Cardinality(BlocksWith(all.pads, n, 1)) - Cardinality(BlocksWith(all.pads, n, 2))
  <1> DEFINE n == all.chars \div 4
             Body(f) == [block \in 0 .. n |->
                           IF block = 0 THEN 0
                           ELSE f[block - 1] + PackingLists!BlockBytes(PackingLists!Cardinality(
                                                 all.pads \cap (4 * block - 3 .. 4 * block)))]
             bytes == CHOOSE f : f = Body(f)
  <1>1. n \in Nat
    OBVIOUS
  <1>2. PackingLists!Base64Bytes(all) = bytes[n]
    BY Zenon DEF PackingLists!Base64Bytes
  <1>3. \A f : f = Body(f) <=> IsByteCount(f, all.pads, n)
    <2>1. \A b : PackingLists!Cardinality(all.pads \cap (4 * b - 3 .. 4 * b)) = SignsIn(all.pads, b)
      BY SameCard, Zenon DEF SignsIn, Block
    <2> HIDE DEF n
    <2> QED BY <2>1 DEF IsByteCount
  <1> HIDE DEF n, Body
  <1>4. IsByteCount(bytes, all.pads, n)
    BY <1>1, <1>3, ByteCountExists
  <1> QED BY <1>1, <1>2, <1>4, ByteCount DEF n

IsCount(all) == all \in [chars : Nat, pads : SUBSET Nat, ok : BOOLEAN]

HasDigits(word) == {"hex", "chars"} \cap DOMAIN word # {}

LEMMA WordSize ==
  ASSUME NEW word, IsWord(word), HasDigits(word)
  PROVE  Legality!Size(word) \in Nat /\ Legality!Pads(word) \subseteq 1 .. Legality!Size(word)
  <1>1. CASE "hex" \in DOMAIN word
    BY <1>1 DEF IsWord, Legality!Size, Legality!Pads
  <1>2. CASE "hex" \notin DOMAIN word
    BY <1>2 DEF HasDigits, IsWord, Legality!Size, Legality!Pads
  <1> QED BY <1>1, <1>2

LEMMA ReadWordFacts ==
  ASSUME NEW all, IsCount(all), NEW word, IsWord(word)
  PROVE  LET next == PackingLists!ReadWord(all, word)
         IN /\ IsCount(next)
            /\ next.ok <=> all.ok /\ HasDigits(word)
            /\ HasDigits(word) =>
                 /\ Legality!Size(word) \in Nat
                 /\ next.chars = all.chars + Legality!Size(word)
                 /\ next.pads = all.pads \cup {all.chars + p : p \in Legality!Pads(word)}
  <1> DEFINE next == PackingLists!ReadWord(all, word)
             chars == all.chars
             pads == all.pads
             ok == all.ok
  <1>1. /\ chars \in Nat /\ pads \in SUBSET Nat /\ ok \in BOOLEAN
        /\ all = [chars |-> chars, pads |-> pads, ok |-> ok]
    BY DEF IsCount
  <1>2. CASE "hex" \in DOMAIN word
    <2> DEFINE more == chars + word.hex
    <2>1. word.hex \in Nat
      BY <1>2 DEF IsWord
    <2>2. next = [all EXCEPT !.chars = more]
      BY <1>2 DEF PackingLists!ReadWord
    <2>3. Legality!Size(word) = word.hex /\ Legality!Pads(word) = {} /\ HasDigits(word)
      BY <1>2 DEF Legality!Size, Legality!Pads, HasDigits
    <2>4. more \in Nat
      BY <1>1, <2>1
    <2> HIDE DEF more, chars, pads, ok, next
    <2>5. next = [chars |-> more, pads |-> pads, ok |-> ok]
      BY <1>1, <2>2
    <2>6. next.chars = more /\ next.pads = pads /\ next.ok = ok
      BY <2>5
    <2>7. IsCount(next)
      BY <1>1, <2>4, <2>5 DEF IsCount
    <2>8. pads = pads \cup {chars + p : p \in {}}
      OBVIOUS
    <2> QED BY <2>1, <2>3, <2>6, <2>7, <2>8, Zenon DEF more, chars, pads, ok, next
  <1>3. CASE "hex" \notin DOMAIN word /\ "chars" \in DOMAIN word
    <2> DEFINE more == chars + word.chars
               signs == pads \cup {chars + p : p \in word.pads}
    <2>1. word.chars \in Nat /\ word.pads \subseteq 1 .. word.chars
      BY <1>3 DEF IsWord
    <2>2. next = [[all EXCEPT !.chars = more] EXCEPT !.pads = signs]
      <3>1. next = [all EXCEPT !.chars = more, !.pads = signs]
        BY <1>3 DEF PackingLists!ReadWord
      <3> HIDE DEF next, more, signs
      <3> QED BY <3>1
    <2>3. Legality!Size(word) = word.chars /\ Legality!Pads(word) = word.pads /\ HasDigits(word)
      BY <1>3 DEF Legality!Size, Legality!Pads, HasDigits
    <2>4. more \in Nat /\ signs \in SUBSET Nat
      BY <1>1, <2>1
    <2> HIDE DEF more, chars, pads, ok, next, signs
    <2>5. next = [chars |-> more, pads |-> signs, ok |-> ok]
      <3>1. [all EXCEPT !.chars = more] = [chars |-> more, pads |-> pads, ok |-> ok]
        BY <1>1
      <3> QED BY <2>2, <3>1
    <2>6. next.chars = more /\ next.pads = signs /\ next.ok = ok
      BY <2>5
    <2>7. IsCount(next)
      BY <1>1, <2>4, <2>5 DEF IsCount
    <2> QED BY <2>1, <2>3, <2>6, <2>7, Zenon DEF more, chars, pads, ok, next, signs
  <1>4. CASE "hex" \notin DOMAIN word /\ "chars" \notin DOMAIN word
    <2>1. next = [all EXCEPT !.ok = FALSE]
      BY <1>4 DEF PackingLists!ReadWord
    <2>2. ~HasDigits(word)
      BY <1>4 DEF HasDigits
    <2> HIDE DEF chars, pads, ok, next
    <2>3. next = [chars |-> chars, pads |-> pads, ok |-> FALSE]
      BY <1>1, <2>1
    <2>4. next.ok = FALSE
      BY <2>3
    <2>5. IsCount(next)
      BY <1>1, <2>3 DEF IsCount
    <2> QED BY <2>2, <2>4, <2>5, Zenon DEF next
  <1> QED BY <1>2, <1>3, <1>4

\* The recursive functions of Characters and of SizeOf.
IsCharacterCount(all, text) ==
  all = [i \in 0 .. Len(text) |-> IF i = 0 THEN [chars |-> 0, pads |-> {}, ok |-> TRUE]
                                  ELSE PackingLists!ReadWord(all[i - 1], text[i])]

IsSize(size, text) ==
  size = [k \in 0 .. Len(text) |-> IF k = 0 THEN 0 ELSE size[k - 1] + Legality!Size(text[k])]

AllDigits(text) == \A i \in DOMAIN text : HasDigits(text[i])

LEMMA TextFacts ==
  ASSUME NEW text, IsText(text)
  PROVE  Len(text) \in Nat /\ DOMAIN text = 1 .. Len(text) /\ \A i \in 1 .. Len(text) : IsWord(text[i])
  <1>1. Len(text) \in Nat /\ DOMAIN text = 1 .. Len(text) /\ \A i \in DOMAIN text : text[i] \in Elements(text)
    BY SequenceFacts DEF IsText
  <1> QED BY <1>1 DEF IsText

LEMMA CharacterCountExists ==
  ASSUME NEW text, IsText(text)
  PROVE  \E all : IsCharacterCount(all, text)
  <1> DEFINE n == Len(text)
             V == {all \in [chars : Nat, pads : SUBSET Nat, ok : BOOLEAN] : IsCount(all)}
             base == [chars |-> 0, pads |-> {}, ok |-> TRUE]
             step == [p \in V \X (1 .. n) |-> PackingLists!ReadWord(p[1], text[p[2]])]
  <1>1. n \in Nat /\ \A i \in 1 .. n : IsWord(text[i])
    BY TextFacts
  <1>2. base \in V
    BY DEF IsCount
  <1>3. ASSUME NEW p \in V \X (1 .. n) PROVE PackingLists!ReadWord(p[1], text[p[2]]) \in V
    <2>1. IsCount(p[1]) /\ IsWord(text[p[2]])
      BY <1>1
    <2>2. IsCount(PackingLists!ReadWord(p[1], text[p[2]]))
      BY <2>1, ReadWordFacts
    <2> QED BY <2>2 DEF IsCount
  <1>4. step \in [V \X (1 .. n) -> V]
    <2> HIDE DEF V, n
    <2> QED BY <1>3
  <1>5. PICK f \in [0 .. n -> V] : Follows(f, n, base, step)
    <2> HIDE DEF n, V, base, step
    <2> QED BY <1>1, <1>2, <1>4, Recursion
  <1>6. ASSUME NEW i \in 1 .. n PROVE f[i] = PackingLists!ReadWord(f[i - 1], text[i])
    <2>1. f[i] = step[<<f[i - 1], i>>]
      <3> HIDE DEF n, V, base, step
      <3> QED BY <1>5 DEF Follows
    <2>2. f[i - 1] \in V
      <3> HIDE DEF n, V
      <3> QED BY <1>1
    <2> HIDE DEF n, V
    <2> QED BY <2>1, <2>2
  <1>7. f[0] = base /\ f = [i \in 0 .. n |-> f[i]]
    <2> HIDE DEF n, V, base, step
    <2> QED BY <1>5 DEF Follows
  <1>8. IsCharacterCount(f, text)
    <2>1. ASSUME NEW i \in 0 .. n
          PROVE  f[i] = IF i = 0 THEN base ELSE PackingLists!ReadWord(f[i - 1], text[i])
      <3> HIDE DEF V, base, step, n
      <3>1. CASE i = 0
        BY <1>7, <3>1
      <3>2. CASE i # 0
        <4>1. i \in 1 .. n
          BY <1>1, <3>2
        <4> QED BY <1>6, <3>2, <4>1
      <3> QED BY <3>1, <3>2
    <2> HIDE DEF V, step, base
    <2> QED BY <1>7, <2>1 DEF IsCharacterCount, base
  <1> QED BY <1>8

LEMMA SizeExists ==
  ASSUME NEW text, IsText(text), AllDigits(text)
  PROVE  \E size \in [0 .. Len(text) -> Nat] : IsSize(size, text)
  <1> DEFINE n == Len(text)
             base == 0
             step == [p \in Nat \X (1 .. n) |-> p[1] + Legality!Size(text[p[2]])]
  <1>1. n \in Nat /\ DOMAIN text = 1 .. n /\ \A i \in 1 .. n : IsWord(text[i])
    BY TextFacts
  <1>2. ASSUME NEW i \in 1 .. n PROVE Legality!Size(text[i]) \in Nat
    BY <1>1, WordSize DEF AllDigits
  <1>3. base \in Nat /\ step \in [Nat \X (1 .. n) -> Nat]
    <2> HIDE DEF n
    <2> QED BY <1>2
  <1>4. PICK f \in [0 .. n -> Nat] : Follows(f, n, base, step)
    <2> HIDE DEF n, base, step
    <2> QED BY <1>1, <1>3, Recursion
  <1>5. ASSUME NEW i \in 1 .. n PROVE f[i] = f[i - 1] + Legality!Size(text[i])
    <2>1. f[i] = step[<<f[i - 1], i>>]
      <3> HIDE DEF n, step
      <3> QED BY <1>4 DEF Follows
    <2>2. f[i - 1] \in Nat
      <3> HIDE DEF n
      <3> QED BY <1>1
    <2> HIDE DEF n
    <2> QED BY <2>1, <2>2
  <1>6. f[0] = 0 /\ f = [i \in 0 .. n |-> f[i]]
    <2> HIDE DEF n, step
    <2> QED BY <1>4 DEF Follows
  <1>7. IsSize(f, text)
    <2>1. ASSUME NEW i \in 0 .. n PROVE f[i] = IF i = 0 THEN 0 ELSE f[i - 1] + Legality!Size(text[i])
      <3> HIDE DEF step, n
      <3>1. CASE i = 0
        BY <1>6, <3>1
      <3>2. CASE i # 0
        <4>1. i \in 1 .. n
          BY <1>1, <3>2
        <4> QED BY <1>5, <3>2, <4>1
      <3> QED BY <3>1, <3>2
    <2> HIDE DEF step
    <2> QED BY <1>6, <2>1 DEF IsSize
  <1> QED BY <1>7

LEMMA SizeFacts ==
  ASSUME NEW text, IsText(text), AllDigits(text)
  PROVE  /\ Legality!SizeOf(text, 0) = 0
         /\ \A i \in 1 .. Len(text) : Legality!SizeOf(text, i) = Legality!SizeOf(text, i - 1) + Legality!Size(text[i])
         /\ \A i \in 0 .. Len(text) : Legality!SizeOf(text, i) \in Nat
  <1> DEFINE size == CHOOSE f : IsSize(f, text)
             n == Len(text)
             P == {i \in 0 .. n : size[i] \in Nat}
  <1>1. n \in Nat /\ DOMAIN text = 1 .. n /\ \A i \in 1 .. n : IsWord(text[i])
    BY TextFacts
  <1>2. IsSize(size, text)
    BY SizeExists
  <1>3. \A i : Legality!SizeOf(text, i) = size[i]
    BY Zenon DEF Legality!SizeOf, IsSize
  <1> HIDE DEF size
  <1>4. size[0] = 0 /\ \A i \in 1 .. n : size[i] = size[i - 1] + Legality!Size(text[i])
    BY <1>1, <1>2 DEF IsSize
  <1>5. ASSUME NEW i \in 1 .. n PROVE Legality!Size(text[i]) \in Nat
    BY <1>1, WordSize DEF AllDigits
  <1>6. n = Len(text)
    OBVIOUS
  <1> HIDE DEF n
  <1>7. ASSUME NEW i \in 1 .. n, i - 1 \in P PROVE i \in P
    BY <1>1, <1>4, <1>5, <1>7
  <1>8. 0 \in P
    BY <1>1, <1>4
  <1>9. \A i \in 0 .. n : i \in P
    <2> HIDE DEF P
    <2> QED BY <1>1, <1>7, <1>8, Induction
  <1>10. \A i \in 0 .. n : size[i] \in Nat
    BY <1>9
  <1> QED BY <1>1, <1>3, <1>4, <1>6, <1>10, Zenon

\* The signs in the first i words.
SignsUpTo(text, i) ==
  UNION {{Legality!SizeOf(text, j - 1) + p : p \in Legality!Pads(text[j])} : j \in 1 .. i}

LEMMA CharactersFacts ==
  ASSUME NEW text, IsText(text)
  PROVE  LET all == PackingLists!Characters(text)
         IN /\ IsCount(all)
            /\ all.ok <=> AllDigits(text)
            /\ AllDigits(text) => /\ all.chars = Legality!SizeOf(text, Len(text))
                                  /\ all.pads = Legality!Signs(text)
  <1> DEFINE n == Len(text)
             all == CHOOSE f : IsCharacterCount(f, text)
             Upto(i) == \A j \in 1 .. i : HasDigits(text[j])
             Reads(i) == /\ IsCount(all[i])
                         /\ all[i].ok <=> Upto(i)
                         /\ AllDigits(text) => /\ all[i].chars = Legality!SizeOf(text, i)
                                               /\ all[i].pads = SignsUpTo(text, i)
             P == {i \in 0 .. n : Reads(i)}
  <1>1. n \in Nat /\ n = Len(text) /\ DOMAIN text = 1 .. n /\ \A i \in 1 .. n : IsWord(text[i])
    BY TextFacts
  <1>2. IsCharacterCount(all, text)
    BY CharacterCountExists
  <1>3. PackingLists!Characters(text) = all[n]
    BY Zenon DEF PackingLists!Characters, IsCharacterCount
  <1> HIDE DEF all, n
  <1>4. all[0] = [chars |-> 0, pads |-> {}, ok |-> TRUE]
        /\ \A i \in 1 .. n : all[i] = PackingLists!ReadWord(all[i - 1], text[i])
    <2>1. \A i \in 0 .. n : all[i] = IF i = 0 THEN [chars |-> 0, pads |-> {}, ok |-> TRUE]
                                    ELSE PackingLists!ReadWord(all[i - 1], text[i])
      BY <1>1, <1>2, Zenon DEF IsCharacterCount
    <2>2. 0 \in 0 .. n /\ \A i \in 1 .. n : i \in 0 .. n /\ i # 0
      BY <1>1
    <2> QED BY <2>1, <2>2, Zenon
  <1>5. Reads(0)
    <2>1. IsCount(all[0]) /\ all[0].chars = 0 /\ all[0].pads = {} /\ all[0].ok
      BY <1>4 DEF IsCount
    <2>2. SignsUpTo(text, 0) = {} /\ Upto(0)
      BY DEF SignsUpTo
    <2>3. AllDigits(text) => Legality!SizeOf(text, 0) = 0
      BY SizeFacts
    <2> QED BY <2>1, <2>2, <2>3
  <1>6. ASSUME NEW i \in 1 .. n, Reads(i - 1) PROVE Reads(i)
    <2> DEFINE last == all[i - 1]
               next == all[i]
    <2>1. next = PackingLists!ReadWord(last, text[i]) /\ IsWord(text[i]) /\ IsCount(last)
      BY <1>1, <1>4, <1>6
    <2>2. /\ IsCount(next)
          /\ next.ok <=> last.ok /\ HasDigits(text[i])
          /\ HasDigits(text[i]) =>
               /\ next.chars = last.chars + Legality!Size(text[i])
               /\ next.pads = last.pads \cup {last.chars + p : p \in Legality!Pads(text[i])}
      <3> HIDE DEF last, next
      <3> QED BY <2>1, ReadWordFacts
    <2>3. Upto(i) <=> Upto(i - 1) /\ HasDigits(text[i])
      <3>1. \A j : j \in 1 .. i <=> j \in 1 .. i - 1 \/ j = i
        BY <1>1
      <3> QED BY <3>1
    <2>4. next.ok <=> Upto(i)
      BY <1>6, <2>2, <2>3
    <2>5. ASSUME AllDigits(text)
          PROVE  next.chars = Legality!SizeOf(text, i) /\ next.pads = SignsUpTo(text, i)
      <3>1. HasDigits(text[i])
        BY <1>1, <2>5 DEF AllDigits
      <3>2. Legality!SizeOf(text, i) = Legality!SizeOf(text, i - 1) + Legality!Size(text[i])
        BY <1>1, <2>5, SizeFacts
      <3>3. SignsUpTo(text, i) =
              SignsUpTo(text, i - 1) \cup {Legality!SizeOf(text, i - 1) + p : p \in Legality!Pads(text[i])}
        <4>1. 1 .. i = (1 .. i - 1) \cup {i}
          BY <1>1
        <4> QED BY <4>1 DEF SignsUpTo
      <3>4. last.chars = Legality!SizeOf(text, i - 1) /\ last.pads = SignsUpTo(text, i - 1)
        BY <1>6, <2>5
      <3> HIDE DEF last, next
      <3> QED BY <2>2, <3>1, <3>2, <3>3, <3>4
    <2> QED BY <2>2, <2>4, <2>5
  <1>7. Reads(n)
    <2>1. 0 \in P
      BY <1>1, <1>5
    <2>2. \A i \in 1 .. n : i - 1 \in P => i \in P
      <3> HIDE DEF Reads
      <3> QED BY <1>1, <1>6
    <2>3. n \in 0 .. n
      BY <1>1
    <2>4. \A i \in 0 .. n : i \in P
      <3> HIDE DEF P
      <3> QED BY <1>1, <2>1, <2>2, Induction
    <2> QED BY <2>3, <2>4
  <1>8. SignsUpTo(text, n) = Legality!Signs(text)
    BY <1>1 DEF SignsUpTo, Legality!Signs
  <1>9. Upto(n) <=> AllDigits(text)
    BY <1>1 DEF AllDigits
  <1> QED BY <1>1, <1>3, <1>7, <1>8, <1>9

LEMMA DigestFacts ==
  ASSUME NEW text, IsText(text), NEW bytes \in Nat \ {0}
  PROVE  PackingLists!DigestFits(text, bytes) <=> Legality!DigestText(text, bytes)
  <1>1. CASE Legality!Is(text, "hex")
    BY <1>1, Zenon DEF PackingLists!DigestFits, Legality!DigestText, Legality!Is, PackingLists!Is
  <1>2. CASE ~Legality!Is(text, "hex")
    <2> DEFINE all == PackingLists!Characters(text)
               size == Legality!SizeOf(text, Len(text))
               Count(m) == Cardinality(BlocksWith(all.pads, size \div 4, m))
    <2>1. PackingLists!DigestFits(text, bytes) <=> PackingLists!Base64Bytes(all) = bytes
      <3>1. ~PackingLists!Is(text, "hex")
        BY <1>2, Zenon DEF Legality!Is, PackingLists!Is
      <3> HIDE DEF all
      <3> QED BY <3>1 DEF PackingLists!DigestFits, all
    <2>2. Legality!DigestText(text, bytes) <=> Legality!Base64Text(text, bytes)
      BY <1>2 DEF Legality!DigestText
    <2>3. CASE ~AllDigits(text)
      <3>1. ~all.ok
        BY <2>3, CharactersFacts
      <3>2. PackingLists!Base64Bytes(all) = 0
        <4> HIDE DEF all
        <4> QED BY <3>1 DEF PackingLists!Base64Bytes
      <3>3. ~Legality!Base64Text(text, bytes)
        BY <2>3, Zenon DEF AllDigits, HasDigits, Legality!Base64Text
      <3> QED BY <2>1, <2>2, <3>2, <3>3
    <2>4. CASE AllDigits(text)
      <3>1. all.ok /\ all.chars = size /\ all.pads = Legality!Signs(text) /\ IsCount(all)
        BY <2>4, CharactersFacts
      <3>2. size \in Nat
        BY <3>1 DEF IsCount
      <3>3. Legality!Base64Text(text, bytes) <=>
              size % 4 = 0 /\ 3 * (size \div 4) - Count(1) - Count(2) = bytes
        <4>1. \A m : {b \in 1 .. size \div 4 : Legality!Cardinality(Legality!Signs(text) \cap (4 * b - 3 .. 4 * b)) >= m}
                       = BlocksWith(all.pads, size \div 4, m)
          <5>1. \A S : Legality!Cardinality(S) = Cardinality(S)
            BY SameCard
          <5> HIDE DEF all, size
          <5> QED BY <3>1, <5>1 DEF BlocksWith, SignsIn, Block
        <4>2. \A S : Legality!Cardinality(S) = Cardinality(S)
          BY SameCard
        <4>3. \A i \in DOMAIN text : {"hex", "chars"} \cap DOMAIN text[i] # {}
          BY <2>4 DEF AllDigits, HasDigits
        <4> HIDE DEF all
        <4> QED BY <4>1, <4>2, <4>3, Zenon DEF Legality!Base64Text
      <3>4. CASE size % 4 # 0
        <4>1. PackingLists!Base64Bytes(all) = 0
          <5> HIDE DEF all, size
          <5> QED BY <3>1, <3>4 DEF PackingLists!Base64Bytes
        <4> HIDE DEF all, size, Count
        <4> QED BY <2>1, <2>2, <3>3, <3>4, <4>1
      <3>5. CASE size % 4 = 0
        <4>1. PackingLists!Base64Bytes(all) = 3 * (size \div 4) - Count(1) - Count(2)
          <5> HIDE DEF all, size
          <5> QED BY <3>1, <3>2, <3>5, Base64BytesFacts
        <4> HIDE DEF all, size, Count
        <4> QED BY <2>1, <2>2, <3>3, <3>5, <4>1
      <3> QED BY <3>4, <3>5
    <2> QED BY <2>3, <2>4
  <1> QED BY <1>1, <1>2

-----------------------------------------------------------------------------
(* Diagnostics                                                              *)

Clean(diagnostics) == \A d \in diagnostics : d.severity # "error"

\* What is reported of a required text.
Checked(text, path, legal, code) ==
  IF text = <<>> THEN {Legality!Err("missing_required_field", path)}
  ELSE IF legal THEN {} ELSE {Legality!Err(code, path)}

LEMMA CleanFacts ==
  /\ \A A, B : Clean(A \cup B) <=> Clean(A) /\ Clean(B)
  /\ \A A, B, C : Clean(A \cup B \cup C) <=> Clean(A) /\ Clean(B) /\ Clean(C)
  /\ \A A, B, C, D : Clean(A \cup B \cup C \cup D) <=> Clean(A) /\ Clean(B) /\ Clean(C) /\ Clean(D)
  /\ \A X : Clean(UNION X) <=> \A D \in X : Clean(D)
  /\ Clean({})
  /\ \A code, path : ~Clean({Legality!Err(code, path)})
  <1>1. \A code, path : Legality!Err(code, path).severity = "error"
    BY DEF Legality!Err, Legality!Diagnostic
  <1>2. \A A, B : Clean(A \cup B) <=> Clean(A) /\ Clean(B)
    BY Zenon DEF Clean
  <1>3. \A A, B, C : Clean(A \cup B \cup C) <=> Clean(A) /\ Clean(B) /\ Clean(C)
    <2> TAKE A, B, C
    <2>1. Clean(A \cup B \cup C) <=> Clean(A \cup B) /\ Clean(C)
      BY <1>2
    <2> QED BY <1>2, <2>1
  <1>4. \A A, B, C, D : Clean(A \cup B \cup C \cup D) <=> Clean(A) /\ Clean(B) /\ Clean(C) /\ Clean(D)
    <2> TAKE A, B, C, D
    <2>1. Clean(A \cup B \cup C \cup D) <=> Clean(A \cup B \cup C) /\ Clean(D)
      BY <1>2
    <2> QED BY <1>3, <2>1
  <1>5. \A X : Clean(UNION X) <=> \A D \in X : Clean(D)
    BY Zenon DEF Clean
  <1>6. Clean({}) /\ \A code, path : ~Clean({Legality!Err(code, path)})
    BY <1>1, Zenon DEF Clean
  <1> QED BY <1>2, <1>3, <1>4, <1>5, <1>6

LEMMA CleanReports ==
  ASSUME NEW condition, NEW code, NEW path
  PROVE  Clean(Legality!Reports(condition, Legality!Err(code, path))) <=> ~condition
  BY CleanFacts, Zenon DEF Legality!Reports

LEMMA CleanText ==
  ASSUME NEW text, NEW path, NEW legal, NEW code
  PROVE  Clean(Checked(text, path, legal, code)) <=> text # <<>> /\ legal
  BY CleanFacts, Zenon DEF Checked

\* A warning is no error.
LEMMA CleanWarning ==
  ASSUME NEW condition, NEW code, NEW path
  PROVE  Clean(Legality!Reports(condition, Legality!Diagnostic(code, "warning", path)))
  <1>1. Legality!Diagnostic(code, "warning", path).severity # "error"
    BY DEF Legality!Diagnostic
  <1> QED BY <1>1, Zenon DEF Clean, Legality!Reports

LEMMA CleanId ==
  ASSUME NEW N, IsTree(N), NEW node \in N, NEW path
  PROVE  Clean(Legality!RequiredId(node, path)) <=> Legality!IdText(Legality!TextOf(node, "Id"))
  <1> DEFINE text == Legality!TextOf(node, "Id")
  <1>1. Legality!RequiredId(node, path)
          = Checked(text, Legality!Under(path, "Id"), Legality!NormalizedUuid(text) # None, "invalid_uuid")
    BY Zenon DEF Legality!RequiredId, Legality!Required, Legality!RequiredWords, Legality!IsUuid, Legality!Reports, Checked
  <1>2. IsText(text)
    BY ChildFacts
  <1> HIDE DEF text
  <1>3. /\ Legality!IdText(text) <=> Legality!NormalizedUuid(text) # None
        /\ Legality!IdText(text) => text # <<>>
    BY <1>2, IdFacts
  <1> QED BY <1>1, <1>3, CleanText DEF text

LEMMA CleanRequiredText ==
  ASSUME NEW node, NEW path, NEW name
  PROVE  Clean(Legality!RequiredText(node, path, name)) <=> Legality!TextOf(node, name) # <<>>
  <1>1. Legality!RequiredText(node, path, name)
          = Checked(Legality!TextOf(node, name), Legality!Under(path, name), TRUE, "")
    BY Zenon DEF Legality!RequiredText, Legality!Required, Legality!RequiredWords, Legality!Reports, Checked
  <1> QED BY <1>1, CleanText, Zenon

LEMMA CleanHeader ==
  ASSUME NEW N, IsTree(N), NEW root \in N, NEW name, root.name[2] = name
  PROVE  Clean(Legality!HeaderDiagnostics(root, name)) <=> Legality!LegalHeader(root, name)
  <1> DEFINE path == <<Legality!Step(root.name[2])>>
             date == Legality!TextOf(root, "IssueDate")
             A == Legality!Reports(Legality!SchemaFlavor(root, name) = "unknown",
                                   Legality!Diagnostic("unsupported_namespace", "warning", path))
             B == Legality!RequiredId(root, path)
             C == Legality!RequiredText(root, path, "Issuer")
             D == Checked(date, Legality!Under(path, "IssueDate"), Legality!IsValidUtcTimestamp(date), "invalid_time")
  <1>1. Legality!HeaderDiagnostics(root, name) = A \cup B \cup C \cup D
    BY Zenon DEF Legality!HeaderDiagnostics, Legality!Required, Legality!RequiredWords, Legality!Reports, Checked
  <1>2. Clean(A)
    BY CleanWarning
  <1>3. Clean(B) <=> Legality!IdText(Legality!TextOf(root, "Id"))
    BY CleanId
  <1>4. Clean(C) <=> Legality!TextOf(root, "Issuer") # <<>>
    BY CleanRequiredText
  <1>5. Clean(D) <=> Legality!TimeText(date)
    <2>1. IsText(date)
      BY ChildFacts
    <2>2. (Legality!IsValidUtcTimestamp(date) <=> Legality!TimeText(date)) /\ (Legality!TimeText(date) => date # <<>>)
      <3> HIDE DEF date
      <3> QED BY <2>1, TimeFacts
    <2> HIDE DEF date, path
    <2> QED BY <2>2, CleanText
  <1> HIDE DEF A, B, C, D, path
  <1>6. Clean(A \cup B \cup C \cup D) <=> Clean(A) /\ Clean(B) /\ Clean(C) /\ Clean(D)
    BY CleanFacts, Zenon
  <1> QED BY <1>1, <1>2, <1>3, <1>4, <1>5, <1>6, Zenon DEF Legality!LegalHeader, date

LEMMA RepeatsFacts ==
  ASSUME NEW n \in Nat, NEW keys, DOMAIN keys = 1 .. n, \A k \in 1 .. n : keys[k] # None
  PROVE  Legality!Repeats(keys) = {} <=> Legality!NoneTwice(keys)
  <1>1. ASSUME NEW k \in 1 .. n, NEW j \in 1 .. k - 1, keys[j] = keys[k] PROVE ~Legality!NoneTwice(keys)
    <2>1. j \in 1 .. n /\ j # k
      OBVIOUS
    <2> QED BY <1>1, <2>1 DEF Legality!NoneTwice
  <1>2. ASSUME Legality!Repeats(keys) = {}, NEW i \in 1 .. n, NEW j \in 1 .. n, keys[i] = keys[j] PROVE i = j
    <2>1. CASE i < j
      BY <1>2, <2>1 DEF Legality!Repeats
    <2>2. CASE j < i
      BY <1>2, <2>2 DEF Legality!Repeats
    <2> QED BY <2>1, <2>2
  <1>3. Legality!Repeats(keys) = {} => Legality!NoneTwice(keys)
    BY <1>2 DEF Legality!NoneTwice
  <1>4. Legality!NoneTwice(keys) => Legality!Repeats(keys) = {}
    BY <1>1 DEF Legality!Repeats
  <1> QED BY <1>3, <1>4

LEMMA CleanIds ==
  ASSUME NEW N, IsTree(N), NEW nodes \in Seq(N), NEW path, NEW name, NEW code
  PROVE  /\ Legality!LegalIds(nodes) <=>
              /\ \A i \in DOMAIN nodes : Legality!IdText(Legality!TextOf(nodes[i], "Id"))
              /\ Clean(Legality!DuplicateIds(nodes, path, name, code))
  <1> DEFINE Text(i) == Legality!TextOf(nodes[i], "Id")
             texts == Legality!Texts(nodes, "Id")
             keys == Legality!Uuids(nodes)
             ids == [i \in DOMAIN texts |-> texts[i][1].id]
             n == Len(nodes)
             All == \A i \in DOMAIN nodes : Legality!IdText(Text(i))
  <1>1. n \in Nat /\ DOMAIN nodes = 1 .. n /\ \A i \in 1 .. n : nodes[i] \in N
    OBVIOUS
  <1>2. \A i \in 1 .. n : IsText(Text(i))
    BY <1>1, ChildFacts
  <1>3. texts = [i \in 1 .. n |-> Text(i)] /\ keys = [i \in 1 .. n |-> Legality!NormalizedUuid(Text(i))]
    BY <1>1 DEF Legality!Texts, Legality!Uuids
  <1> HIDE DEF texts, keys, n
  <1>4. Legality!LegalIds(nodes) <=> All /\ Legality!NoneTwice(ids)
    <2>1. Legality!LegalIds(nodes) <=> (\A i \in DOMAIN texts : Legality!IdText(texts[i])) /\ Legality!NoneTwice(ids)
      BY Zenon DEF Legality!LegalIds, texts
    <2>2. (\A i \in DOMAIN texts : Legality!IdText(texts[i])) <=> All
      <3> HIDE DEF Text
      <3> QED BY <1>1, <1>3
    <2> HIDE DEF ids, All
    <2> QED BY <2>1, <2>2
  <1>5. Clean(Legality!DuplicateIds(nodes, path, name, code)) <=> Legality!Repeats(keys) = {}
    <2>1. \A c, p : Legality!Err(c, p).severity = "error"
      BY DEF Legality!Err, Legality!Diagnostic
    <2> QED BY <2>1, Zenon DEF Clean, Legality!DuplicateIds, keys
  <1>6. ASSUME All PROVE Legality!Repeats(keys) = {} <=> Legality!NoneTwice(ids)
    <2>1. ASSUME NEW i \in 1 .. n PROVE keys[i] # None /\ keys[i] = texts[i][1].id
      <3>1. IsText(Text(i)) /\ Legality!IdText(Text(i))
        BY <1>1, <1>2, <1>6
      <3>2. keys[i] = Legality!NormalizedUuid(Text(i)) /\ texts[i] = Text(i)
        BY <1>3
      <3> HIDE DEF Text
      <3> QED BY <3>1, <3>2, IdFacts
    <2>2. DOMAIN keys = 1 .. n /\ DOMAIN texts = 1 .. n /\ keys = [i \in 1 .. n |-> keys[i]]
      BY <1>3
    <2>3. keys = ids
      <3> HIDE DEF All, Text
      <3> QED BY <2>1, <2>2
    <2> HIDE DEF ids, All, Text
    <2>4. Legality!Repeats(keys) = {} <=> Legality!NoneTwice(keys)
      BY <1>1, <2>1, <2>2, RepeatsFacts
    <2> QED BY <2>3, <2>4
  <1> HIDE DEF ids
  <1> QED BY <1>4, <1>5, <1>6, Zenon

LEMMA SameErrors ==
  ASSUME NEW code, NEW path, NEW name, NEW index, NEW condition
  PROVE  /\ AssetMaps!Err(code, path) = Legality!Err(code, path)
         /\ PackingLists!Err(code, path) = Legality!Err(code, path)
         /\ Cpls!Err(code, path) = Legality!Err(code, path)
         /\ AssetMaps!Under(path, name) = Legality!Under(path, name)
         /\ PackingLists!Under(path, name) = Legality!Under(path, name)
         /\ Cpls!Under(path, name) = Legality!Under(path, name)
         /\ AssetMaps!Reports(condition, path) = Legality!Reports(condition, path)
         /\ PackingLists!Reports(condition, path) = Legality!Reports(condition, path)
         /\ Cpls!Reports(condition, path) = Legality!Reports(condition, path)
         /\ AssetMaps!NoNode = Legality!NoNode
         /\ PackingLists!NoNode = Legality!NoNode
         /\ Cpls!NoNode = Legality!NoNode
  BY Zenon
  DEF AssetMaps!Err, PackingLists!Err, Cpls!Err, Legality!Err, AssetMaps!Diagnostic,
      PackingLists!Diagnostic, Cpls!Diagnostic, Legality!Diagnostic, AssetMaps!Under,
      PackingLists!Under, Cpls!Under, Legality!Under, AssetMaps!Step, PackingLists!Step,
      Cpls!Step, Legality!Step, AssetMaps!Reports, PackingLists!Reports, Cpls!Reports,
      Legality!Reports, AssetMaps!NoNode, PackingLists!NoNode, Cpls!NoNode, Legality!NoNode

-----------------------------------------------------------------------------
(* Packing lists                                                            *)

LEMMA CleanHash ==
  ASSUME NEW N, IsTree(N), NEW hash \in N \cup {Legality!NoNode}, NEW path
  PROVE  Clean(PackingLists!HashDiagnostics(hash, path)) <=> hash # Legality!NoNode /\ Legality!LegalHash(hash)
  <1>1. CASE hash = Legality!NoNode
    <2>1. PackingLists!HashDiagnostics(hash, path) = {Legality!Err("missing_required_field", path)}
      BY <1>1, Zenon DEF PackingLists!HashDiagnostics, PackingLists!NoNode, Legality!NoNode,
         PackingLists!Err, Legality!Err, PackingLists!Diagnostic, Legality!Diagnostic
    <2> QED BY <1>1, <2>1, CleanFacts
  <1>2. CASE hash # Legality!NoNode
    <2> DEFINE algorithm == Legality!FindAttribute(hash, <<"", "Algorithm">>)
               bytes == PackingLists!Algorithm(algorithm)
               Says(mark) == \E i \in DOMAIN algorithm : "marks" \in DOMAIN algorithm[i] /\ mark \in algorithm[i].marks
               place == Append(path, PackingLists!AttributeStep(<<"", "Algorithm">>))
               A == Legality!Reports(bytes = 0, Legality!Err("invalid_digest_algorithm", place))
               B == Legality!Reports(~PackingLists!DigestFits(hash.words, bytes), Legality!Err("invalid_digest_value", path))
    <2>1. IsText(hash.words)
      BY <1>2 DEF IsTree, IsNode
    <2>2. PackingLists!HashDiagnostics(hash, path) = A \cup B
      <3>1. PackingLists!FindAttribute(hash, <<"", "Algorithm">>) = algorithm
        BY SameAttributes, Zenon
      <3>2. hash # PackingLists!NoNode
        BY <1>2, Zenon DEF PackingLists!NoNode, Legality!NoNode
      <3> HIDE DEF algorithm
      <3> QED BY <3>1, <3>2, Zenon DEF PackingLists!HashDiagnostics, PackingLists!DigestDiagnostics,
                 PackingLists!Err, Legality!Err, PackingLists!Diagnostic, Legality!Diagnostic,
                 PackingLists!Reports, Legality!Reports
    <2>3. Clean(A) <=> bytes # 0
      <3> HIDE DEF bytes, place
      <3> QED BY CleanReports
    <2>4. Clean(B) <=> PackingLists!DigestFits(hash.words, bytes)
      <3> HIDE DEF bytes
      <3> QED BY CleanReports
    <2>5. Legality!LegalHash(hash) <=>
            /\ algorithm # None
            /\ \/ Says("sha1") /\ Legality!DigestText(hash.words, 20)
               \/ ~Says("sha1") /\ Says("sha256") /\ Legality!DigestText(hash.words, 32)
      BY Zenon DEF Legality!LegalHash
    <2>6. \A mark : mark \in PackingLists!Marks(algorithm) <=> Says(mark)
      <3> HIDE DEF algorithm
      <3> QED BY DEF PackingLists!Marks
    <2>7. bytes = IF algorithm = None THEN 0 ELSE IF Says("sha1") THEN 20 ELSE IF Says("sha256") THEN 32 ELSE 0
      <3> HIDE DEF algorithm, Says
      <3> QED BY <2>6 DEF PackingLists!Algorithm, PackingLists!DigestBytes
    <2>8. /\ PackingLists!DigestFits(hash.words, 20) <=> Legality!DigestText(hash.words, 20)
          /\ PackingLists!DigestFits(hash.words, 32) <=> Legality!DigestText(hash.words, 32)
      BY <2>1, DigestFacts
    <2> HIDE DEF algorithm, Says, bytes, place, A, B
    <2>9. Clean(A \cup B) <=> Clean(A) /\ Clean(B)
      BY CleanFacts
    <2> QED BY <1>2, <2>2, <2>3, <2>4, <2>5, <2>7, <2>8, <2>9
  <1> QED BY <1>1, <1>2

LegalListed(asset) ==
  /\ Legality!TextOf(asset, "Type") # <<>>
  /\ Legality!NumberText(Legality!TextOf(asset, "Size"), 1 .. MaxUint64)
  /\ Legality!Child(asset, "Hash") # Legality!NoNode
  /\ Legality!LegalHash(Legality!Child(asset, "Hash"))

LEMMA CleanListed ==
  ASSUME NEW N, IsTree(N), NEW asset \in N, NEW path
  PROVE  Clean(PackingLists!AssetDiagnostics(asset, path))
           <=> Legality!IdText(Legality!TextOf(asset, "Id")) /\ LegalListed(asset)
  <1> DEFINE size == Legality!TextOf(asset, "Size")
             hash == Legality!Child(asset, "Hash")
             A == Legality!RequiredId(asset, path)
             B == Legality!RequiredText(asset, path, "Type")
             C == Checked(size, Legality!Under(path, "Size"), Legality!Positive(size, MaxUint64) # None, "invalid_integer")
             D == PackingLists!HashDiagnostics(hash, PackingLists!Under(path, "Hash"))
  <1>1. PackingLists!AssetDiagnostics(asset, path) = A \cup B \cup C \cup D
    <2>1. PackingLists!RequiredId(asset, path) = A /\ PackingLists!RequiredText(asset, path, "Type") = B
      BY SameRequired
    <2> DEFINE text == PackingLists!TextOf(asset, "Size")
               under == PackingLists!Under(path, "Size")
               legal == PackingLists!Positive(text, MaxUint64) # None
               E == IF text = <<>> THEN {PackingLists!Err("missing_required_field", under)}
                    ELSE PackingLists!Reports(~legal, PackingLists!Err("invalid_integer", under))
               found == PackingLists!Child(asset, "Hash")
               F == PackingLists!HashDiagnostics(found, PackingLists!Under(path, "Hash"))
    <2>2. PackingLists!AssetDiagnostics(asset, path)
            = PackingLists!RequiredId(asset, path) \cup PackingLists!RequiredText(asset, path, "Type") \cup E \cup F
      BY DEF PackingLists!AssetDiagnostics, PackingLists!Required, PackingLists!RequiredWords
    <2>3. text = size /\ found = hash
      BY SameLookups
    <2>4. legal <=> Legality!Positive(size, MaxUint64) # None
      <3> HIDE DEF text, size
      <3> QED BY <2>3, SameTexts
    <2>5. under = Legality!Under(path, "Size")
      BY SameErrors
    <2> HIDE DEF A, B, size, hash, text, under, legal, found
    <2>6. E = C
      <3>1. PackingLists!Reports(~legal, PackingLists!Err("invalid_integer", under))
              = Legality!Reports(~legal, PackingLists!Err("invalid_integer", under))
        BY SameErrors
      <3>2. \A code : PackingLists!Err(code, under) = Legality!Err(code, under)
        BY SameErrors
      <3> QED BY <2>3, <2>4, <2>5, <3>1, <3>2, Zenon DEF Checked, Legality!Reports
    <2>7. F = D
      BY <2>3
    <2> HIDE DEF C, D, E, F
    <2> QED BY <2>1, <2>2, <2>6, <2>7
  <1>2. Clean(A) <=> Legality!IdText(Legality!TextOf(asset, "Id"))
    BY CleanId
  <1>3. Clean(B) <=> Legality!TextOf(asset, "Type") # <<>>
    BY CleanRequiredText
  <1>4. Clean(C) <=> Legality!NumberText(size, 1 .. MaxUint64)
    <2>1. IsText(size)
      BY ChildFacts
    <2>2. MaxUint64 \in Nat
      BY LimitsAssumption
    <2> HIDE DEF size
    <2>3. Legality!Positive(size, MaxUint64) # None <=> Legality!NumberText(size, 1 .. MaxUint64)
      BY <2>1, <2>2, NumberFacts
    <2>4. Legality!NumberText(size, 1 .. MaxUint64) => size # <<>>
      BY <2>1, <2>2, NumberFacts
    <2> QED BY <2>3, <2>4, CleanText
  <1>5. Clean(D) <=> hash # Legality!NoNode /\ Legality!LegalHash(hash)
    <2>1. hash \in N \cup {Legality!NoNode}
      BY ChildFacts
    <2> HIDE DEF hash
    <2> QED BY <2>1, CleanHash
  <1> HIDE DEF A, B, C, D
  <1>6. Clean(A \cup B \cup C \cup D) <=> Clean(A) /\ Clean(B) /\ Clean(C) /\ Clean(D)
    BY CleanFacts
  <1> QED BY <1>1, <1>2, <1>3, <1>4, <1>5, <1>6, Zenon DEF LegalListed, size, hash

LEMMA CleanPackingList ==
  ASSUME NEW N, IsTree(N), NEW root \in N, root.name[2] = "PackingList"
  PROVE  Clean(PackingLists!PackingListDiagnostics(root)) <=> Legality!LegalPackingList(root)
  <1> DEFINE list == <<PackingLists!Step("PackingList"), PackingLists!Step("AssetList")>>
             assets == Legality!Items(root, "AssetList", "Asset")
             A == Legality!HeaderDiagnostics(root, "PackingList")
             B == Legality!Reports(Legality!Child(root, "AssetList") = Legality!NoNode, Legality!Err("missing_required_field", list))
             Each(i) == PackingLists!AssetDiagnostics(assets[i], PackingLists!Nth(list, "Asset", i))
             C == UNION {Each(i) : i \in DOMAIN assets}
             D == Legality!DuplicateIds(assets, list, "Asset", "duplicate_asset_id")
  <1>1. assets \in Seq(N)
    BY ItemsFacts
  <1>2. PackingLists!Assets(root) = assets
    BY SameLookups DEF PackingLists!Assets, Legality!Items
  <1>3. PackingLists!PackingListDiagnostics(root) = A \cup B \cup (C \cup D)
    <2>1. PackingLists!HeaderDiagnostics(root, "PackingList") = A
      BY SameRequired
    <2>2. PackingLists!DuplicateIds(assets, list, "Asset", "duplicate_asset_id") = D
      BY SameDuplicates
    <2>3. PackingLists!Reports(PackingLists!Child(root, "AssetList") = PackingLists!NoNode,
                               PackingLists!Err("missing_required_field", list)) = B
      <3>1. PackingLists!Child(root, "AssetList") = Legality!Child(root, "AssetList")
        BY SameLookups
      <3> HIDE DEF list
      <3> QED BY <3>1, Zenon DEF PackingLists!Reports, Legality!Reports, PackingLists!Err, Legality!Err,
              PackingLists!Diagnostic, Legality!Diagnostic, PackingLists!NoNode, Legality!NoNode
    <2> DEFINE listed == PackingLists!AssetListDiagnostics(assets, list)
    <2>4. listed = C \cup D
      <3>1. listed = C \cup PackingLists!DuplicateIds(assets, list, "Asset", "duplicate_asset_id")
        BY Zenon DEF PackingLists!AssetListDiagnostics
      <3> HIDE DEF listed, assets, C, D, list
      <3> QED BY <2>2, <3>1
    <2>5. PackingLists!PackingListDiagnostics(root)
            = PackingLists!HeaderDiagnostics(root, "PackingList")
              \cup PackingLists!Reports(PackingLists!Child(root, "AssetList") = PackingLists!NoNode,
                                        PackingLists!Err("missing_required_field", list))
              \cup PackingLists!AssetListDiagnostics(PackingLists!Assets(root), list)
      BY DEF PackingLists!PackingListDiagnostics
    <2> HIDE DEF A, B, C, D, assets, list
    <2> QED BY <1>2, <2>1, <2>3, <2>4, <2>5
  <1>4. Clean(A) <=> Legality!LegalHeader(root, "PackingList")
    BY CleanHeader
  <1>5. Clean(B) <=> Legality!Child(root, "AssetList") # Legality!NoNode
    <2> HIDE DEF list
    <2> QED BY CleanReports
  <1>6. Clean(C) <=> \A i \in DOMAIN assets : Legality!IdText(Legality!TextOf(assets[i], "Id")) /\ LegalListed(assets[i])
    <2>1. Clean(C) <=> \A i \in DOMAIN assets : Clean(Each(i))
      <3> DEFINE X == {Each(i) : i \in DOMAIN assets}
      <3>1. Clean(C) <=> \A E \in X : Clean(E)
        <4>1. C = UNION X
          OBVIOUS
        <4> HIDE DEF X, C
        <4> QED BY <4>1, CleanFacts
      <3> HIDE DEF Each, assets, C
      <3> QED BY <3>1, Zenon DEF X
    <2>2. \A i \in DOMAIN assets : Clean(Each(i)) <=> Legality!IdText(Legality!TextOf(assets[i], "Id")) /\ LegalListed(assets[i])
      <3> HIDE DEF assets, list
      <3>1. \A i \in DOMAIN assets : assets[i] \in N
        BY <1>1
      <3> QED BY <3>1, CleanListed
    <2> HIDE DEF C, Each, assets
    <2> QED BY <2>1, <2>2
  <1>7. Legality!LegalIds(assets) <=>
          (\A i \in DOMAIN assets : Legality!IdText(Legality!TextOf(assets[i], "Id"))) /\ Clean(D)
    <2> HIDE DEF assets, list
    <2> QED BY <1>1, CleanIds
  <1>8. Legality!LegalPackingList(root) <=>
          /\ Legality!LegalHeader(root, "PackingList")
          /\ Legality!Child(root, "AssetList") # Legality!NoNode
          /\ Legality!LegalIds(assets)
          /\ \A i \in DOMAIN assets : LegalListed(assets[i])
    BY Zenon DEF Legality!LegalPackingList, LegalListed
  <1> HIDE DEF A, B, C, D, assets
  <1>9. Clean(A \cup B \cup (C \cup D)) <=> Clean(A) /\ Clean(B) /\ Clean(C) /\ Clean(D)
    <2> DEFINE last == C \cup D
    <2>1. Clean(last) <=> Clean(C) /\ Clean(D)
      BY CleanFacts
    <2> HIDE DEF last
    <2>2. Clean(A \cup B \cup last) <=> Clean(A) /\ Clean(B) /\ Clean(last)
      BY CleanFacts
    <2> QED BY <2>1, <2>2 DEF last
  <1> QED BY <1>3, <1>4, <1>5, <1>6, <1>7, <1>8, <1>9, Zenon

LEMMA AttributeFacts ==
  ASSUME NEW N, IsTree(N), NEW node \in N, NEW name, Legality!FindAttribute(node, name) # None
  PROVE  IsText(Legality!FindAttribute(node, name))
  <1> DEFINE named == {i \in 1 .. Len(node.attributes) : node.attributes[i].name = name}
             least == CHOOSE i \in named : \A j \in named : i <= j
  <1>1. /\ Len(node.attributes) \in Nat /\ DOMAIN node.attributes = 1 .. Len(node.attributes)
        /\ \A i \in DOMAIN node.attributes : IsText(node.attributes[i].words)
    BY SequenceFacts DEF IsTree, IsNode
  <1>2. Legality!FindAttribute(node, name) =
          LET i == IF named # {} THEN least ELSE 0
          IN IF i = 0 THEN None ELSE node.attributes[i].words
    BY Zenon DEF Legality!FindAttribute, Legality!SelectInSeq, Legality!Min
  <1>3. CASE named = {}
    <2> HIDE DEF named
    <2> QED BY <1>2, <1>3
  <1>4. CASE named # {}
    <2>1. named \in SUBSET Nat
      BY <1>1
    <2>2. \E i \in named : \A j \in named : i <= j
      <3> HIDE DEF named
      <3> QED BY <1>4, <2>1, LeastOf
    <2>3. least \in named
      <3> HIDE DEF named
      <3> QED BY <2>2
    <2>4. least \in 1 .. Len(node.attributes) /\ least # 0
      <3> HIDE DEF least
      <3> QED BY <1>1, <2>3
    <2> HIDE DEF named, least
    <2> QED BY <1>1, <1>2, <1>4, <2>4
  <1> QED BY <1>3, <1>4

LEMMA FlavorFacts ==
  ASSUME NEW N, IsTree(N), NEW root \in N, NEW name
  PROVE  Legality!SchemaFlavor(root, name) \in SchemaFlavor
  <1> DEFINE uri == Legality!NamespaceUri(root)
  <1>1. uri # None => IsText(uri)
    <2> DEFINE declared == IF root.name[1] = "" THEN None ELSE Legality!FindAttribute(root, <<"xmlns", root.name[1]>>)
               other == Legality!FindAttribute(root, <<"", "xmlns">>)
    <2>1. uri = IF declared # None THEN declared ELSE other
      BY Zenon DEF Legality!NamespaceUri
    <2>2. declared # None => IsText(declared)
      BY AttributeFacts, Zenon
    <2>3. other # None => IsText(other)
      BY AttributeFacts, Zenon
    <2> HIDE DEF declared, other
    <2> QED BY <2>1, <2>2, <2>3
  <1> HIDE DEF uri
  <1>2. CASE uri # None /\ Legality!Is(uri, "namespace")
    <2>1. IsWord(uri[1]) /\ "namespace" \in DOMAIN uri[1]
      BY <1>1, <1>2, OneWord
    <2>2. uri[1].flavor \in {"interop", "smpte"}
      BY <2>1 DEF IsWord
    <2> QED BY <2>2 DEF Legality!SchemaFlavor, Legality!FlavorOf, SchemaFlavor, uri
  <1>3. CASE ~(uri # None /\ Legality!Is(uri, "namespace"))
    BY <1>3 DEF Legality!SchemaFlavor, Legality!FlavorOf, SchemaFlavor, uri
  <1> QED BY <1>2, <1>3

LEMMA LegalId ==
  ASSUME NEW N, IsTree(N), NEW node \in N, Legality!IdText(Legality!TextOf(node, "Id"))
  PROVE  LET id == Legality!NormalizedUuid(Legality!TextOf(node, "Id"))
         IN id \in Uuid /\ id \in PklId /\ id \in ReelId
  <1> DEFINE text == Legality!TextOf(node, "Id")
  <1>1. IsText(text)
    BY ChildFacts
  <1> HIDE DEF text
  <1> QED BY <1>1, IdFacts DEF text

\* What is returned of a legal packing list.
LEMMA PackingListValue ==
  ASSUME NEW N, IsTree(N), NEW root \in N, Legality!LegalPackingList(root)
  PROVE  PackingLists!PackingList(root) \in ParsedPackingList
  <1> DEFINE assets == Legality!Items(root, "AssetList", "Asset")
             Entry1(i) == [asset_id   |-> PackingLists!NormalizedUuid(PackingLists!TextOf(assets[i], "Id")),
                           asset_type |-> PackingLists!AssetTypeFor(PackingLists!Marks(PackingLists!TextOf(assets[i], "Type"))),
                           size_bytes |-> PackingLists!Positive(PackingLists!TextOf(assets[i], "Size"), MaxUint64)]
             n == Len(assets)
  <1>1. /\ Legality!IdText(Legality!TextOf(root, "Id"))
        /\ Legality!LegalIds(assets)
        /\ \A i \in DOMAIN assets : LegalListed(assets[i])
    BY Zenon DEF Legality!LegalPackingList, LegalListed, Legality!LegalHeader
  <1>2. assets \in Seq(N)
    BY ItemsFacts
  <1>3. n \in Nat /\ DOMAIN assets = 1 .. n /\ \A i \in 1 .. n : assets[i] \in N
    <2> HIDE DEF assets
    <2> QED BY <1>2
  <1>4. PackingLists!Assets(root) = assets
    BY SameLookups DEF PackingLists!Assets, Legality!Items
  <1> HIDE DEF assets, n
  <1>5. \A i \in DOMAIN assets : Legality!IdText(Legality!TextOf(assets[i], "Id"))
    BY <1>1, <1>2, CleanIds
  <1>6. ASSUME NEW i \in 1 .. n
        PROVE  Entry1(i) \in [asset_id : Uuid, asset_type : AssetType, size_bytes : Nat]
    <2> DEFINE id == PackingLists!NormalizedUuid(PackingLists!TextOf(assets[i], "Id"))
               type == PackingLists!AssetTypeFor(PackingLists!Marks(PackingLists!TextOf(assets[i], "Type")))
               size == PackingLists!Positive(PackingLists!TextOf(assets[i], "Size"), MaxUint64)
               text == Legality!TextOf(assets[i], "Size")
    <2>1. id \in Uuid
      <3>1. id = Legality!NormalizedUuid(Legality!TextOf(assets[i], "Id"))
        BY SameLookups, SameTexts
      <3> HIDE DEF id
      <3> QED BY <1>3, <1>5, <3>1, LegalId
    <2>2. type \in AssetType
      BY DEF PackingLists!AssetTypeFor, AssetType
    <2>3. size \in Nat
      <3>1. size = Legality!Positive(text, MaxUint64)
        BY SameLookups, SameTexts
      <3>2. IsText(text) /\ Legality!NumberText(text, 1 .. MaxUint64)
        BY <1>1, <1>3, ChildFacts DEF LegalListed
      <3> HIDE DEF text, size
      <3>3. size \in 1 .. MaxUint64
        BY <3>1, <3>2, LimitsAssumption, NumberFacts
      <3> QED BY <3>3, LimitsAssumption
    <2> HIDE DEF id, type, size
    <2> QED BY <2>1, <2>2, <2>3 DEF id, type, size
  <1>7. PackingLists!AssetEntries(assets) = [i \in 1 .. n |-> Entry1(i)]
    BY <1>3 DEF PackingLists!AssetEntries
  <1> HIDE DEF Entry1
  <1>8. PackingLists!AssetEntries(assets) \in Seq([asset_id : Uuid, asset_type : AssetType, size_bytes : Nat])
    BY <1>3, <1>6, <1>7
  <1>9. PackingLists!NormalizedUuid(PackingLists!TextOf(root, "Id")) \in PklId
    <2>1. PackingLists!NormalizedUuid(PackingLists!TextOf(root, "Id")) = Legality!NormalizedUuid(Legality!TextOf(root, "Id"))
      BY SameLookups, SameTexts
    <2> QED BY <1>1, <2>1, LegalId
  <1>10. PackingLists!SchemaFlavor(root, "PackingList") \in SchemaFlavor
    BY SameAttributes, FlavorFacts
  <1> QED BY <1>4, <1>8, <1>9, <1>10 DEF PackingLists!PackingList, ParsedPackingList

\* PackingLists!ParsePackingList by what is read.
LEMMA ParsedPackingListFacts ==
  ASSUME NEW N, IsTree(N), NEW read, read.root # Xml!NoNode => read.root \in N
  PROVE  LET result == PackingLists!ParsePackingList(read)
         IN /\ result.value # None <=> read.root # Xml!NoNode /\ Legality!LegalPackingList(read.root)
            /\ result.value # None => result.value \in ParsedPackingList
  <1> DEFINE root == read.root
             result == PackingLists!ParsePackingList(read)
             found == PackingLists!PackingListDiagnostics(root)
             value == PackingLists!PackingList(root)
  <1>1. result.value = IF root = Xml!NoNode \/ root.name[2] # "PackingList" THEN None
                       ELSE IF Clean(found) THEN value ELSE None
    <2> HIDE DEF root
    <2>1. PackingLists!Ok(found) <=> Clean(found)
      BY Zenon DEF PackingLists!Ok, Clean
    <2>2. \A v, d : PackingLists!Result(v, d).value = v
      BY DEF PackingLists!Result
    <2> QED BY <2>1, <2>2, Zenon DEF PackingLists!ParsePackingList, PackingLists!Parsed, PackingLists!Published, PackingLists!NoNode, Xml!NoNode, root
  <1>2. CASE root = Xml!NoNode
    <2> HIDE DEF root, result
    <2> QED BY <1>1, <1>2 DEF root, result
  <1>3. CASE root # Xml!NoNode /\ root.name[2] # "PackingList"
    <2>1. ~Legality!LegalPackingList(root)
      BY <1>3, Zenon DEF Legality!LegalPackingList, Legality!LegalHeader
    <2> HIDE DEF result, found, value
    <2> QED BY <1>1, <1>3, <2>1 DEF result
  <1>4. CASE root # Xml!NoNode /\ root.name[2] = "PackingList"
    <2>1. Clean(found) <=> Legality!LegalPackingList(root)
      <3> HIDE DEF root
      <3> QED BY <1>4, CleanPackingList DEF root
    <2>2. Legality!LegalPackingList(root) => value \in ParsedPackingList
      <3> HIDE DEF root
      <3> QED BY <1>4, PackingListValue DEF root
    <2>3. None \notin ParsedPackingList
      BY ValuesAssumption
    <2> HIDE DEF result, found, value
    <2> QED BY <1>1, <1>4, <2>1, <2>2, <2>3 DEF result
  <1> QED BY <1>2, <1>3, <1>4

-----------------------------------------------------------------------------
(* Asset maps                                                               *)

\* What AssetMaps!Required reports.
Asked(text, path, name, legal, code) ==
  IF text = <<>> THEN {AssetMaps!Err("missing_required_field", AssetMaps!Under(path, name))}
  ELSE AssetMaps!Reports(~legal, AssetMaps!Err(code, AssetMaps!Under(path, name)))

LEMMA CleanAsked ==
  ASSUME NEW text, NEW path, NEW name, NEW legal, NEW code
  PROVE  Clean(Asked(text, path, name, legal, code)) <=> text # <<>> /\ legal
  <1> DEFINE under == AssetMaps!Under(path, name)
  <1>1. \A c : AssetMaps!Err(c, under) = Legality!Err(c, under)
    BY SameErrors
  <1>2. AssetMaps!Reports(~legal, AssetMaps!Err(code, under)) = IF legal THEN {} ELSE {Legality!Err(code, under)}
    BY <1>1, Zenon DEF AssetMaps!Reports
  <1> HIDE DEF under
  <1>3. Asked(text, path, name, legal, code) = Checked(text, under, legal, code)
    BY <1>1, <1>2, Zenon DEF Asked, Checked, under
  <1> QED BY <1>3, CleanText

LegalChunk(chunk, volumes) ==
  /\ Legality!PathText(Legality!TextOf(chunk, "Path"))
  /\ Legality!NumberText(Legality!TextOf(chunk, "Offset"), 0 .. MaxUint64)
  /\ Legality!NumberText(Legality!TextOf(chunk, "Length"), 1 .. MaxUint64)
  /\ Legality!NumberText(Legality!TextOf(chunk, "VolumeIndex"), 1 .. volumes)

ChunkPlace(chunk) == Legality!Place(Legality!TextOf(chunk, "Path")[1].segments)

LegalKey(chunk) ==
  <<Legality!TextOf(chunk, "VolumeIndex")[1].number, ChunkPlace(chunk), Legality!TextOf(chunk, "Offset")[1].number>>

LEMMA CleanChunk ==
  ASSUME NEW N, IsTree(N), NEW chunk \in N, NEW path, NEW volumes \in 1 .. MaxUint32
  PROVE  Clean(AssetMaps!ChunkDiagnostics(chunk, path, volumes)) <=> LegalChunk(chunk, volumes)
  <1> DEFINE Text(name) == Legality!TextOf(chunk, name)
             place == AssetMaps!NormalizedPath(Text("Path"))
             offset == Legality!Unsigned(Text("Offset"), MaxUint64)
             length == Legality!Positive(Text("Length"), MaxUint64)
             index == Legality!Positive(Text("VolumeIndex"), MaxUint32)
             A == Asked(Text("Path"), path, "Path", place # None, "invalid_relative_path")
             B == Asked(Text("Offset"), path, "Offset", offset # None, "invalid_integer")
             C == Asked(Text("Length"), path, "Length", length # None, "invalid_integer")
             D == Asked(Text("VolumeIndex"), path, "VolumeIndex",
                        index # None /\ (volumes # None => index <= volumes), "invalid_integer")
  <1>1. MaxUint32 \in Nat /\ MaxUint64 \in Nat
    BY LimitsAssumption
  <1>2. volumes # None /\ volumes \in Nat
    BY <1>1, ValuesAssumption
  <1>3. AssetMaps!ChunkDiagnostics(chunk, path, volumes) = A \cup B \cup C \cup D
    <2>1. \A name : AssetMaps!TextOf(chunk, name) = Text(name)
      BY SameLookups
    <2>2. \A text, max : /\ AssetMaps!Unsigned(text, max) = Legality!Unsigned(text, max)
                         /\ AssetMaps!Positive(text, max) = Legality!Positive(text, max)
      BY SameTexts
    <2> DEFINE a == AssetMaps!TextOf(chunk, "Path")
               b == AssetMaps!TextOf(chunk, "Offset")
               c == AssetMaps!TextOf(chunk, "Length")
               d == AssetMaps!TextOf(chunk, "VolumeIndex")
               last == AssetMaps!Positive(d, MaxUint32)
    <2>3. AssetMaps!ChunkDiagnostics(chunk, path, volumes)
            = Asked(a, path, "Path", AssetMaps!NormalizedPath(a) # None, "invalid_relative_path")
              \cup Asked(b, path, "Offset", AssetMaps!Unsigned(b, MaxUint64) # None, "invalid_integer")
              \cup Asked(c, path, "Length", AssetMaps!Positive(c, MaxUint64) # None, "invalid_integer")
              \cup Asked(d, path, "VolumeIndex", last # None /\ (volumes # None => last <= volumes), "invalid_integer")
      BY Zenon DEF AssetMaps!ChunkDiagnostics, AssetMaps!Required, AssetMaps!RequiredWords, Asked
    <2> HIDE DEF Text
    <2>4. a = Text("Path") /\ b = Text("Offset") /\ c = Text("Length") /\ d = Text("VolumeIndex")
      BY <2>1
    <2> HIDE DEF a, b, c, d
    <2>5. last = index /\ AssetMaps!Unsigned(b, MaxUint64) = offset /\ AssetMaps!Positive(c, MaxUint64) = length
      BY <2>2, <2>4
    <2> HIDE DEF last, index, offset, length
    <2> QED BY <2>3, <2>4, <2>5
  <1>4. \A name : IsText(Text(name))
    BY ChildFacts
  <1> HIDE DEF Text
  <1>5. Clean(A) <=> Legality!PathText(Text("Path"))
    <2>1. /\ Legality!PathText(Text("Path")) <=> place # None
          /\ Legality!PathText(Text("Path")) => Text("Path") # <<>>
      BY <1>4, PathFacts
    <2> HIDE DEF place
    <2> QED BY <2>1, CleanAsked
  <1>6. Clean(B) <=> Legality!NumberText(Text("Offset"), 0 .. MaxUint64)
    <2>1. /\ offset # None <=> Legality!NumberText(Text("Offset"), 0 .. MaxUint64)
          /\ Legality!NumberText(Text("Offset"), 0 .. MaxUint64) => Text("Offset") # <<>>
      BY <1>1, <1>4, NumberFacts
    <2> HIDE DEF offset
    <2> QED BY <2>1, CleanAsked
  <1>7. Clean(C) <=> Legality!NumberText(Text("Length"), 1 .. MaxUint64)
    <2>1. /\ length # None <=> Legality!NumberText(Text("Length"), 1 .. MaxUint64)
          /\ Legality!NumberText(Text("Length"), 1 .. MaxUint64) => Text("Length") # <<>>
      BY <1>1, <1>4, NumberFacts
    <2> HIDE DEF length
    <2> QED BY <2>1, CleanAsked
  <1>8. Clean(D) <=> Legality!NumberText(Text("VolumeIndex"), 1 .. volumes)
    <2> DEFINE text == Text("VolumeIndex")
    <2>1. IsText(text)
      BY <1>4
    <2> HIDE DEF text
    <2>2. /\ Legality!Positive(text, MaxUint32) # None <=> Legality!NumberText(text, 1 .. MaxUint32)
          /\ Legality!NumberText(text, 1 .. MaxUint32) =>
               text # <<>> /\ Legality!Positive(text, MaxUint32) = text[1].number /\ text[1].number \in 1 .. MaxUint32
      BY <1>1, <2>1, NumberFacts
    <2>3. \A max : Legality!NumberText(text, 1 .. max) <=> Legality!Is(text, "number") /\ text[1].number \in 1 .. max
      BY DEF Legality!NumberText
    <2>4. index = Legality!Positive(text, MaxUint32)
      BY DEF text
    <2> HIDE DEF index
    <2>5. Legality!NumberText(text, 1 .. volumes) <=>
            Legality!NumberText(text, 1 .. MaxUint32) /\ text[1].number <= volumes
      <3>1. \A x : x \in 1 .. volumes <=> x \in 1 .. MaxUint32 /\ x <= volumes
        BY <1>1, <1>2
      <3> QED BY <2>3, <3>1
    <2>6. Clean(D) <=> text # <<>> /\ index # None /\ (volumes # None => index <= volumes)
      <3> DEFINE legal == index # None /\ (volumes # None => index <= volumes)
      <3> HIDE DEF legal
      <3>1. Clean(Asked(text, path, "VolumeIndex", legal, "invalid_integer")) <=> text # <<>> /\ legal
        BY CleanAsked
      <3> QED BY <3>1 DEF legal, text
    <2> HIDE DEF D
    <2>7. Clean(D) <=> Legality!NumberText(text, 1 .. volumes)
      BY <1>2, <2>2, <2>4, <2>5, <2>6
    <2> QED BY <2>7 DEF text
  <1> HIDE DEF A, B, C, D
  <1>9. Clean(A \cup B \cup C \cup D) <=> Clean(A) /\ Clean(B) /\ Clean(C) /\ Clean(D)
    BY CleanFacts
  <1> QED BY <1>3, <1>5, <1>6, <1>7, <1>8, <1>9, Zenon DEF LegalChunk, Text

\* What is recorded of a legal chunk.
LEMMA ChunkValue ==
  ASSUME NEW N, IsTree(N), NEW chunk \in N, NEW volumes \in 1 .. MaxUint32, LegalChunk(chunk, volumes)
  PROVE  /\ AssetMaps!ChunkEntry(chunk) \in ParsedChunk
         /\ AssetMaps!ChunkEntry(chunk).path = ChunkPlace(chunk)
         /\ AssetMaps!ChunkKey(AssetMaps!ChunkEntry(chunk)) = LegalKey(chunk)
         /\ LegalKey(chunk) # None
  <1> DEFINE Text(name) == Legality!TextOf(chunk, name)
             place == AssetMaps!NormalizedPath(Text("Path"))
             offset == Legality!Unsigned(Text("Offset"), MaxUint64)
             length == Legality!Positive(Text("Length"), MaxUint64)
             index == Legality!Positive(Text("VolumeIndex"), MaxUint32)
             entry == AssetMaps!ChunkEntry(chunk)
  <1>1. MaxUint32 \in Nat /\ MaxUint64 \in Nat /\ volumes \in Nat
    BY LimitsAssumption
  <1>2. \A name : IsText(Text(name))
    BY ChildFacts
  <1>3. entry = [path |-> place, offset |-> IF offset = None THEN 0 ELSE offset, length |-> length, volume_index |-> index]
    <2>1. \A name : AssetMaps!TextOf(chunk, name) = Text(name)
      BY SameLookups
    <2>2. \A text, max : /\ AssetMaps!Unsigned(text, max) = Legality!Unsigned(text, max)
                         /\ AssetMaps!Positive(text, max) = Legality!Positive(text, max)
      BY SameTexts
    <2> HIDE DEF Text
    <2> QED BY <2>1, <2>2 DEF AssetMaps!ChunkEntry
  <1>4. place \in Path /\ place = ChunkPlace(chunk)
    BY <1>2, PathFacts, Zenon DEF LegalChunk, ChunkPlace
  <1>5. offset \in Nat /\ offset = Text("Offset")[1].number /\ offset # None
    <2>1. Legality!NumberText(Text("Offset"), 0 .. MaxUint64)
      BY DEF LegalChunk
    <2> HIDE DEF Text
    <2> QED BY <1>1, <1>2, <2>1, NumberFacts
  <1>6. length \in Nat /\ length # None
    <2>1. Legality!NumberText(Text("Length"), 1 .. MaxUint64)
      BY DEF LegalChunk
    <2> HIDE DEF Text
    <2> QED BY <1>1, <1>2, <2>1, NumberFacts
  <1>7. index \in Nat /\ index = Text("VolumeIndex")[1].number /\ index # None
    <2>1. Legality!NumberText(Text("VolumeIndex"), 1 .. MaxUint32)
      <3>1. Legality!NumberText(Text("VolumeIndex"), 1 .. volumes)
        BY DEF LegalChunk
      <3> HIDE DEF Text
      <3> QED BY <1>1, <3>1 DEF Legality!NumberText
    <2> HIDE DEF Text
    <2> QED BY <1>1, <1>2, <2>1, NumberFacts
  <1>8. LegalKey(chunk) = <<index, place, offset>>
    BY <1>4, <1>5, <1>7 DEF LegalKey
  <1>9. place # None /\ <<index, place, offset>> # None
    <2>1. <<index, place, offset>> \in Nat \X Path \X Nat
      <3> HIDE DEF index, place, offset
      <3> QED BY <1>4, <1>5, <1>7
    <2>2. None \notin Path /\ None \notin Nat \X Path \X Nat
      BY ValuesAssumption
    <2> HIDE DEF index, place, offset
    <2> QED BY <1>4, <2>1, <2>2
  <1> HIDE DEF entry, place, offset, length, index
  <1>10. entry = [path |-> place, offset |-> offset, length |-> length, volume_index |-> index]
    BY <1>3, <1>5
  <1>11. AssetMaps!ChunkKey(entry) = <<index, place, offset>>
    BY <1>6, <1>7, <1>9, <1>10 DEF AssetMaps!ChunkKey
  <1>12. entry \in ParsedChunk /\ entry.path = place
    BY <1>4, <1>5, <1>6, <1>7, <1>10 DEF ParsedChunk
  <1> QED BY <1>4, <1>8, <1>9, <1>11, <1>12 DEF entry

LEMMA SameRepeats ==
  ASSUME NEW keys
  PROVE  AssetMaps!Repeats(keys) = Legality!Repeats(keys) /\ Cpls!Repeats(keys) = Legality!Repeats(keys)
  BY Zenon DEF AssetMaps!Repeats, Cpls!Repeats, Legality!Repeats

LEMMA CleanChunkList ==
  ASSUME NEW N, IsTree(N), NEW chunks \in Seq(N), NEW path, NEW volumes \in 1 .. MaxUint32
  PROVE  /\ Clean(AssetMaps!ChunkListDiagnostics(chunks, path, volumes)) <=> Legality!LegalChunks(chunks, volumes)
         /\ Legality!LegalChunks(chunks, volumes) =>
              /\ chunks # <<>>
              /\ AssetMaps!ChunkEntries(chunks) \in Seq(ParsedChunk)
              /\ DOMAIN AssetMaps!ChunkEntries(chunks) = DOMAIN chunks
              /\ \A k \in DOMAIN chunks : AssetMaps!ChunkEntries(chunks)[k].path = ChunkPlace(chunks[k])
  <1> DEFINE n == Len(chunks)
             recorded == AssetMaps!ChunkEntries(chunks)
             keys == AssetMaps!ChunkKeys(recorded)
             wanted == [k \in DOMAIN chunks |-> LegalKey(chunks[k])]
             Each(k) == AssetMaps!ChunkDiagnostics(chunks[k], AssetMaps!Nth(path, "Chunk", k), volumes)
             A == AssetMaps!Reports(chunks = <<>>, AssetMaps!Err("empty_chunk_list", path))
             B == UNION {Each(k) : k \in DOMAIN chunks}
             C == {AssetMaps!Err("duplicate_chunk_entry", AssetMaps!Nth(path, "Chunk", k)) : k \in AssetMaps!Repeats(keys)}
             All == \A k \in DOMAIN chunks : LegalChunk(chunks[k], volumes)
  <1>1. n \in Nat /\ DOMAIN chunks = 1 .. n /\ \A k \in 1 .. n : chunks[k] \in N
    OBVIOUS
  <1>2. AssetMaps!ChunkListDiagnostics(chunks, path, volumes) = A \cup B \cup C
    BY Zenon DEF AssetMaps!ChunkListDiagnostics
  <1>3. Clean(A) <=> chunks # <<>>
    <2>1. A = Legality!Reports(chunks = <<>>, Legality!Err("empty_chunk_list", path))
      BY SameErrors
    <2> HIDE DEF A
    <2> QED BY <2>1, CleanReports
  <1>4. Clean(B) <=> All
    <2>1. Clean(B) <=> \A k \in DOMAIN chunks : Clean(Each(k))
      <3> DEFINE X == {Each(k) : k \in DOMAIN chunks}
      <3>1. Clean(B) <=> \A E \in X : Clean(E)
        <4>1. B = UNION X
          OBVIOUS
        <4> HIDE DEF X, B
        <4> QED BY <4>1, CleanFacts
      <3> HIDE DEF Each, B
      <3> QED BY <3>1, Zenon DEF X
    <2>2. \A k \in DOMAIN chunks : Clean(Each(k)) <=> LegalChunk(chunks[k], volumes)
      BY <1>1, CleanChunk
    <2> HIDE DEF B, Each
    <2> QED BY <2>1, <2>2
  <1>5. Clean(C) <=> AssetMaps!Repeats(keys) = {}
    <2>1. \A c, p : AssetMaps!Err(c, p).severity = "error"
      BY DEF AssetMaps!Err, AssetMaps!Diagnostic
    <2> HIDE DEF keys
    <2> QED BY <2>1, Zenon DEF Clean
  <1>6. recorded = [k \in 1 .. n |-> AssetMaps!ChunkEntry(chunks[k])]
    <2> HIDE DEF n
    <2> QED BY <1>1 DEF AssetMaps!ChunkEntries
  <1>7. keys = [k \in 1 .. n |-> AssetMaps!ChunkKey(recorded[k])]
    <2>1. DOMAIN recorded = 1 .. n
      <3> HIDE DEF recorded, n
      <3> QED BY <1>6
    <2> HIDE DEF recorded, n
    <2> QED BY <2>1 DEF AssetMaps!ChunkKeys
  <1>8. ASSUME All
        PROVE  /\ recorded \in Seq(ParsedChunk) /\ DOMAIN recorded = 1 .. n
               /\ \A k \in DOMAIN chunks : recorded[k].path = ChunkPlace(chunks[k])
               /\ AssetMaps!Repeats(keys) = {} <=> Legality!NoneTwice(wanted)
    <2>1. ASSUME NEW k \in 1 .. n
          PROVE  /\ recorded[k] \in ParsedChunk
                 /\ recorded[k].path = ChunkPlace(chunks[k])
                 /\ keys[k] = LegalKey(chunks[k]) /\ keys[k] # None
      <3>1. LegalChunk(chunks[k], volumes) /\ chunks[k] \in N
        BY <1>1, <1>8
      <3>2. recorded[k] = AssetMaps!ChunkEntry(chunks[k])
        <4> HIDE DEF recorded, n
        <4> QED BY <1>6
      <3>3. keys[k] = AssetMaps!ChunkKey(AssetMaps!ChunkEntry(chunks[k]))
        <4> HIDE DEF recorded, keys, n
        <4> QED BY <1>7, <3>2
      <3> HIDE DEF recorded, keys, n
      <3> QED BY <3>1, <3>2, <3>3, ChunkValue
    <2> HIDE DEF recorded, keys, n, All
    <2>2. DOMAIN recorded = 1 .. n /\ DOMAIN keys = 1 .. n /\ keys = [k \in 1 .. n |-> keys[k]]
          /\ recorded = [k \in 1 .. n |-> recorded[k]]
      BY <1>6, <1>7
    <2>3. recorded \in Seq(ParsedChunk)
      <3>1. \A k \in 1 .. n : recorded[k] \in ParsedChunk
        BY <2>1
      <3>2. n \in Nat
        BY <1>1 DEF n
      <3> QED BY <2>2, <3>1, <3>2
    <2>4. keys = wanted
      BY <1>1, <2>1, <2>2
    <2>5. AssetMaps!Repeats(keys) = {} <=> Legality!NoneTwice(keys)
      BY <1>1, <2>1, <2>2, RepeatsFacts, SameRepeats
    <2> HIDE DEF wanted
    <2> QED BY <1>1, <2>1, <2>2, <2>3, <2>4, <2>5
  <1>9. Legality!LegalChunks(chunks, volumes) <=> chunks # <<>> /\ All /\ Legality!NoneTwice(wanted)
    BY Zenon DEF Legality!LegalChunks, LegalChunk, LegalKey, ChunkPlace
  <1> HIDE DEF A, B, C, All, wanted, keys, recorded, n
  <1>10. Clean(A \cup B \cup C) <=> Clean(A) /\ Clean(B) /\ Clean(C)
    BY CleanFacts
  <1> QED BY <1>1, <1>2, <1>3, <1>4, <1>5, <1>8, <1>9, <1>10 DEF recorded

LEMMA CleanAssetMap ==
  ASSUME NEW N, IsTree(N), NEW root \in N, root.name[2] = "AssetMap"
  PROVE  Clean(AssetMaps!AssetMapDiagnostics(root)) <=> Legality!LegalAssetMap(root)
  <1> DEFINE path == <<AssetMaps!Step("AssetMap")>>
             list == AssetMaps!Under(path, "AssetList")
             assets == Legality!Items(root, "AssetList", "Asset")
             text == Legality!TextOf(root, "VolumeCount")
             count == Legality!Positive(text, MaxUint32)
             volumes == text[1].number
             Chunks(i) == Legality!Items(assets[i], "ChunkList", "Chunk")
             Each(i) == AssetMaps!AssetDiagnostics(assets[i], AssetMaps!AssetPath(i), count)
             A == Legality!HeaderDiagnostics(root, "AssetMap")
             B == Asked(text, path, "VolumeCount", count # None, "invalid_integer")
             C == Legality!Reports(Legality!Child(root, "AssetList") = Legality!NoNode,
                                   Legality!Err("missing_required_field", list))
             D == UNION {Each(i) : i \in DOMAIN assets}
             E == Legality!DuplicateIds(assets, list, "Asset", "duplicate_asset_id")
             last == D \cup E
  <1>1. assets \in Seq(N)
    BY ItemsFacts
  <1>2. AssetMaps!Assets(root) = assets /\ \A asset : AssetMaps!Chunks(asset) = Legality!Items(asset, "ChunkList", "Chunk")
    BY SameLookups DEF AssetMaps!Assets, AssetMaps!Chunks, Legality!Items
  <1>3. AssetMaps!VolumeCount(root) = count
    BY SameLookups, SameTexts DEF AssetMaps!VolumeCount
  <1>4. AssetMaps!AssetMapDiagnostics(root) = A \cup B \cup C \cup last
    <2> DEFINE t == AssetMaps!TextOf(root, "VolumeCount")
               p == AssetMaps!Positive(t, MaxUint32)
    <2>1. AssetMaps!HeaderDiagnostics(root, "AssetMap") = A
      BY SameRequired
    <2>2. AssetMaps!DuplicateIds(assets, list, "Asset", "duplicate_asset_id") = E
      BY SameDuplicates
    <2>3. AssetMaps!Reports(AssetMaps!Child(root, "AssetList") = AssetMaps!NoNode, AssetMaps!Err("missing_required_field", list)) = C
      <3>1. AssetMaps!Child(root, "AssetList") = Legality!Child(root, "AssetList")
        BY SameLookups
      <3> HIDE DEF list
      <3> QED BY <3>1, Zenon DEF AssetMaps!Reports, Legality!Reports, AssetMaps!Err, Legality!Err,
              AssetMaps!Diagnostic, Legality!Diagnostic, AssetMaps!NoNode, Legality!NoNode
    <2>4. t = text /\ p = count
      BY SameLookups, SameTexts
    <2>5. AssetMaps!AssetListDiagnostics(assets, list, count) = last
      <3>1. AssetMaps!AssetListDiagnostics(assets, list, count)
              = D \cup AssetMaps!DuplicateIds(assets, list, "Asset", "duplicate_asset_id")
        BY Zenon DEF AssetMaps!AssetListDiagnostics
      <3> HIDE DEF assets, list, count, D, E
      <3> QED BY <2>2, <3>1
    <2>6. AssetMaps!AssetMapDiagnostics(root)
            = AssetMaps!HeaderDiagnostics(root, "AssetMap")
              \cup Asked(t, path, "VolumeCount", p # None, "invalid_integer")
              \cup AssetMaps!Reports(AssetMaps!Child(root, "AssetList") = AssetMaps!NoNode,
                                    AssetMaps!Err("missing_required_field", list))
              \cup AssetMaps!AssetListDiagnostics(AssetMaps!Assets(root), list, AssetMaps!VolumeCount(root))
      BY Zenon DEF AssetMaps!AssetMapDiagnostics, AssetMaps!Required, AssetMaps!RequiredWords, Asked
    <2> HIDE DEF A, C, last, assets, list, path, count, text, t, p
    <2> QED BY <1>2, <1>3, <2>1, <2>3, <2>4, <2>5, <2>6
  <1>5. Clean(A) <=> Legality!LegalHeader(root, "AssetMap")
    BY CleanHeader
  <1>6. /\ Clean(B) <=> Legality!NumberText(text, 1 .. MaxUint32)
        /\ Legality!NumberText(text, 1 .. MaxUint32) => count = volumes /\ volumes \in 1 .. MaxUint32
    <2>1. IsText(text) /\ MaxUint32 \in Nat
      BY ChildFacts, LimitsAssumption
    <2> HIDE DEF text
    <2>2. /\ count # None <=> Legality!NumberText(text, 1 .. MaxUint32)
          /\ Legality!NumberText(text, 1 .. MaxUint32) => text # <<>> /\ count = volumes /\ volumes \in 1 .. MaxUint32
      BY <2>1, NumberFacts
    <2> HIDE DEF count, path
    <2> QED BY <2>2, CleanAsked
  <1>7. Clean(C) <=> Legality!Child(root, "AssetList") # Legality!NoNode
    <2> HIDE DEF list
    <2> QED BY CleanReports
  <1>8. ASSUME count = volumes, volumes \in 1 .. MaxUint32
        PROVE  Clean(D) <=> \A i \in DOMAIN assets : /\ Legality!IdText(Legality!TextOf(assets[i], "Id"))
                                                     /\ Legality!LegalChunks(Chunks(i), volumes)
    <2>1. Clean(D) <=> \A i \in DOMAIN assets : Clean(Each(i))
      <3> DEFINE X == {Each(i) : i \in DOMAIN assets}
      <3>1. Clean(D) <=> \A F \in X : Clean(F)
        <4>1. D = UNION X
          OBVIOUS
        <4> HIDE DEF X, D
        <4> QED BY <4>1, CleanFacts
      <3> HIDE DEF Each, assets, D
      <3> QED BY <3>1, Zenon DEF X
    <2>2. ASSUME NEW i \in DOMAIN assets
          PROVE  Clean(Each(i)) <=> /\ Legality!IdText(Legality!TextOf(assets[i], "Id"))
                                    /\ Legality!LegalChunks(Chunks(i), volumes)
      <3> DEFINE asset == assets[i]
                 at == AssetMaps!AssetPath(i)
                 F == AssetMaps!RequiredId(asset, at)
                 G == AssetMaps!ChunkListDiagnostics(Chunks(i), AssetMaps!Under(at, "ChunkList"), count)
      <3>1. asset \in N
        <4> HIDE DEF assets
        <4> QED BY <1>1
      <3>2. Each(i) = F \cup G
        <4>1. AssetMaps!Chunks(asset) = Chunks(i)
          BY <1>2
        <4>2. Each(i) = F \cup AssetMaps!ChunkListDiagnostics(AssetMaps!Chunks(asset), AssetMaps!Under(at, "ChunkList"), count)
          <5> HIDE DEF asset, at, count
          <5> QED BY Zenon DEF AssetMaps!AssetDiagnostics, asset, at
        <4> HIDE DEF Each, F, Chunks, at, count, asset
        <4> QED BY <4>1, <4>2
      <3>3. Clean(F) <=> Legality!IdText(Legality!TextOf(asset, "Id"))
        <4>1. F = Legality!RequiredId(asset, at)
          BY SameRequired
        <4> HIDE DEF asset, at, F
        <4> QED BY <3>1, <4>1, CleanId
      <3>4. Clean(G) <=> Legality!LegalChunks(Chunks(i), volumes)
        <4>1. Chunks(i) \in Seq(N)
          <5> HIDE DEF assets
          <5> QED BY <3>1, ItemsFacts
        <4> HIDE DEF Chunks, at, count, volumes
        <4> QED BY <1>8, <4>1, CleanChunkList
      <3> HIDE DEF F, G, Each, Chunks, assets, volumes
      <3>5. Clean(F \cup G) <=> Clean(F) /\ Clean(G)
        BY CleanFacts
      <3> QED BY <3>2, <3>3, <3>4, <3>5
    <2> HIDE DEF D, Each, assets, Chunks, volumes
    <2> QED BY <2>1, <2>2
  <1>9. Legality!LegalIds(assets) <=>
          (\A i \in DOMAIN assets : Legality!IdText(Legality!TextOf(assets[i], "Id"))) /\ Clean(E)
    <2> HIDE DEF assets, list
    <2> QED BY <1>1, CleanIds
  <1>10. Legality!LegalAssetMap(root) <=>
          /\ Legality!LegalHeader(root, "AssetMap")
          /\ Legality!NumberText(text, 1 .. MaxUint32)
          /\ Legality!Child(root, "AssetList") # Legality!NoNode
          /\ Legality!LegalIds(assets)
          /\ \A i \in DOMAIN assets : Legality!LegalChunks(Chunks(i), volumes)
    BY Zenon DEF Legality!LegalAssetMap
  <1>11. Clean(last) <=> Clean(D) /\ Clean(E)
    <2> HIDE DEF D, E
    <2> QED BY CleanFacts
  <1> HIDE DEF A, B, C, D, E, last, assets, Chunks, count, volumes, text
  <1>12. Clean(A \cup B \cup C \cup last) <=> Clean(A) /\ Clean(B) /\ Clean(C) /\ Clean(last)
    BY CleanFacts
  <1> QED BY <1>4, <1>5, <1>6, <1>7, <1>8, <1>9, <1>10, <1>11, <1>12, Zenon

\* Each asset of an asset map has a chunk.
HasChunks(asset_map) == \A i \in DOMAIN asset_map.assets : asset_map.assets[i].chunk_list # <<>>

LEMMA AssetMapValue ==
  ASSUME NEW N, IsTree(N), NEW root \in N, Legality!LegalAssetMap(root)
  PROVE  LET value == AssetMaps!AssetMap(root)
         IN value \in ParsedAssetMap /\ HasChunks(value) /\ Legality!PathsAreKept(value, root)
  <1> DEFINE assets == Legality!Items(root, "AssetList", "Asset")
             text == Legality!TextOf(root, "VolumeCount")
             volumes == text[1].number
             Chunks(i) == Legality!Items(assets[i], "ChunkList", "Chunk")
             n == Len(assets)
             Made(i) == [asset_id   |-> AssetMaps!NormalizedUuid(AssetMaps!TextOf(assets[i], "Id")),
                         chunk_list |-> AssetMaps!ChunkEntries(Chunks(i))]
             value == AssetMaps!AssetMap(root)
             recorded == AssetMaps!AssetEntries(assets)
  <1>1. /\ Legality!IdText(Legality!TextOf(root, "Id"))
        /\ Legality!NumberText(text, 1 .. MaxUint32)
        /\ Legality!LegalIds(assets)
        /\ \A i \in DOMAIN assets : Legality!LegalChunks(Chunks(i), volumes)
    BY Zenon DEF Legality!LegalAssetMap, Legality!LegalHeader
  <1>2. assets \in Seq(N)
    BY ItemsFacts
  <1>3. n \in Nat /\ DOMAIN assets = 1 .. n /\ \A i \in 1 .. n : assets[i] \in N
    <2> HIDE DEF assets
    <2> QED BY <1>2
  <1>4. AssetMaps!Assets(root) = assets /\ \A asset : AssetMaps!Chunks(asset) = Legality!Items(asset, "ChunkList", "Chunk")
    BY SameLookups DEF AssetMaps!Assets, AssetMaps!Chunks, Legality!Items
  <1>5. /\ AssetMaps!VolumeCount(root) = volumes
        /\ volumes \in 1 .. MaxUint32 /\ volumes \in Nat
    <2>1. AssetMaps!VolumeCount(root) = Legality!Positive(text, MaxUint32)
      BY SameLookups, SameTexts DEF AssetMaps!VolumeCount
    <2>2. IsText(text) /\ MaxUint32 \in Nat
      BY ChildFacts, LimitsAssumption
    <2> HIDE DEF text
    <2>3. Legality!Positive(text, MaxUint32) = volumes /\ volumes \in 1 .. MaxUint32
      BY <1>1, <2>2, NumberFacts
    <2> HIDE DEF volumes
    <2> QED BY <2>1, <2>2, <2>3
  <1> HIDE DEF n
  <1>6. \A i \in DOMAIN assets : Legality!IdText(Legality!TextOf(assets[i], "Id"))
    <2> HIDE DEF assets
    <2> QED BY <1>1, <1>2, CleanIds
  <1>7. ASSUME NEW i \in 1 .. n
        PROVE  /\ Made(i) \in AssetEntry
               /\ Made(i).chunk_list # <<>>
               /\ \A k \in DOMAIN Chunks(i) : Made(i).chunk_list[k].path = ChunkPlace(Chunks(i)[k])
    <2> DEFINE chunks == Chunks(i)
               list == AssetMaps!ChunkEntries(chunks)
               id == AssetMaps!NormalizedUuid(AssetMaps!TextOf(assets[i], "Id"))
    <2>1. id \in Uuid
      <3>1. id = Legality!NormalizedUuid(Legality!TextOf(assets[i], "Id"))
        BY SameLookups, SameTexts
      <3> HIDE DEF id, assets
      <3> QED BY <1>3, <1>6, <3>1, LegalId
    <2>2. chunks \in Seq(N)
      <3> HIDE DEF assets
      <3> QED BY <1>3, ItemsFacts
    <2>3. Legality!LegalChunks(chunks, volumes)
      BY <1>1, <1>3
    <2> HIDE DEF chunks, volumes, id
    <2>4. /\ chunks # <<>> /\ list \in Seq(ParsedChunk) /\ DOMAIN list = DOMAIN chunks
          /\ \A k \in DOMAIN chunks : list[k].path = ChunkPlace(chunks[k])
      BY <1>5, <2>2, <2>3, CleanChunkList
    <2> HIDE DEF list
    <2>5. list # <<>>
      <3>1. 1 \in DOMAIN chunks
        BY <2>2, <2>4
      <3> QED BY <2>4, <3>1
    <2>6. Made(i) = [asset_id |-> id, chunk_list |-> list]
      BY DEF id, list, chunks
    <2> HIDE DEF Made
    <2> QED BY <2>1, <2>4, <2>5, <2>6 DEF AssetEntry, chunks
  <1>8. recorded = [i \in 1 .. n |-> Made(i)]
    <2>1. \A i \in 1 .. n : AssetMaps!Chunks(assets[i]) = Chunks(i)
      BY <1>4
    <2>2. recorded = [i \in 1 .. n |-> [asset_id   |-> AssetMaps!NormalizedUuid(AssetMaps!TextOf(assets[i], "Id")),
                                       chunk_list |-> AssetMaps!ChunkEntries(AssetMaps!Chunks(assets[i]))]]
      <3> HIDE DEF assets
      <3> QED BY <1>3 DEF AssetMaps!AssetEntries
    <2> HIDE DEF recorded, assets, Chunks
    <2> QED BY <2>1, <2>2
  <1>9. value = [asset_map_id  |-> AssetMaps!NormalizedUuid(AssetMaps!TextOf(root, "Id")),
                 schema_flavor |-> AssetMaps!SchemaFlavor(root, "AssetMap"),
                 volume_count  |-> volumes,
                 assets        |-> recorded]
    <2> HIDE DEF assets, volumes
    <2> QED BY <1>4, <1>5 DEF AssetMaps!AssetMap
  <1>10. AssetMaps!NormalizedUuid(AssetMaps!TextOf(root, "Id")) \in Uuid
    <2>1. AssetMaps!NormalizedUuid(AssetMaps!TextOf(root, "Id")) = Legality!NormalizedUuid(Legality!TextOf(root, "Id"))
      BY SameLookups, SameTexts
    <2> QED BY <1>1, <2>1, LegalId
  <1>11. AssetMaps!SchemaFlavor(root, "AssetMap") \in SchemaFlavor
    BY SameAttributes, FlavorFacts
  <1> HIDE DEF Made, Chunks, value, recorded, volumes, assets
  <1>12. recorded \in Seq(AssetEntry) /\ DOMAIN recorded = 1 .. n /\ \A i \in 1 .. n : recorded[i] = Made(i)
    BY <1>3, <1>7, <1>8
  <1>13. value \in ParsedAssetMap /\ value.assets = recorded
    BY <1>5, <1>9, <1>10, <1>11, <1>12 DEF ParsedAssetMap, AssetEntry
  <1>14. HasChunks(value)
    BY <1>7, <1>12, <1>13 DEF HasChunks
  <1>15. Legality!PathsAreKept(value, root)
    <2>1. \A i \in DOMAIN assets : \A k \in DOMAIN Chunks(i) : value.assets[i].chunk_list[k].path = ChunkPlace(Chunks(i)[k])
      BY <1>3, <1>7, <1>12, <1>13
    <2> QED BY <2>1, Zenon DEF Legality!PathsAreKept, ChunkPlace, assets, Chunks
  <1> QED BY <1>13, <1>14, <1>15 DEF value

\* AssetMaps!ParseAssetMap by what is read.
LEMMA ParsedAssetMapFacts ==
  ASSUME NEW N, IsTree(N), NEW read, read.root # Xml!NoNode => read.root \in N
  PROVE  LET result == AssetMaps!ParseAssetMap(read)
         IN /\ result.value # None <=> read.root # Xml!NoNode /\ Legality!LegalAssetMap(read.root)
            /\ result.value # None => /\ result.value \in ParsedAssetMap
                                      /\ HasChunks(result.value)
                                      /\ Legality!PathsAreKept(result.value, read.root)
  <1> DEFINE root == read.root
             result == AssetMaps!ParseAssetMap(read)
             found == AssetMaps!AssetMapDiagnostics(root)
             value == AssetMaps!AssetMap(root)
  <1>1. result.value = IF root = Xml!NoNode \/ root.name[2] # "AssetMap" THEN None
                       ELSE IF Clean(found) THEN value ELSE None
    <2> HIDE DEF root
    <2>1. AssetMaps!Ok(found) <=> Clean(found)
      BY Zenon DEF AssetMaps!Ok, Clean
    <2>2. \A v, d : AssetMaps!Result(v, d).value = v
      BY DEF AssetMaps!Result
    <2> QED BY <2>1, <2>2, Zenon DEF AssetMaps!ParseAssetMap, AssetMaps!Parsed, AssetMaps!Published, AssetMaps!NoNode, Xml!NoNode, root
  <1>2. CASE root = Xml!NoNode
    <2> HIDE DEF root, result
    <2> QED BY <1>1, <1>2 DEF root, result
  <1>3. CASE root # Xml!NoNode /\ root.name[2] # "AssetMap"
    <2>1. ~Legality!LegalAssetMap(root)
      BY <1>3, Zenon DEF Legality!LegalAssetMap, Legality!LegalHeader
    <2> HIDE DEF result, found, value
    <2> QED BY <1>1, <1>3, <2>1 DEF result
  <1>4. CASE root # Xml!NoNode /\ root.name[2] = "AssetMap"
    <2>1. Clean(found) <=> Legality!LegalAssetMap(root)
      <3> HIDE DEF root
      <3> QED BY <1>4, CleanAssetMap DEF root
    <2>2. Legality!LegalAssetMap(root) =>
            value \in ParsedAssetMap /\ HasChunks(value) /\ Legality!PathsAreKept(value, root)
      <3> HIDE DEF root
      <3> QED BY <1>4, AssetMapValue DEF root
    <2>3. None \notin ParsedAssetMap
      BY ValuesAssumption
    <2> HIDE DEF result, found, value
    <2> QED BY <1>1, <1>4, <2>1, <2>2, <2>3 DEF result
  <1> QED BY <1>2, <1>3, <1>4

-----------------------------------------------------------------------------
(* Composition playlists                                                    *)

LEMMA RateFacts ==
  ASSUME NEW text, IsText(text)
  PROVE  /\ Legality!RateText(text) <=> Cpls!EditRate(text) # None
         /\ Legality!RateText(text) => text # <<>> /\ Cpls!EditRate(text) \in Rate
  <1> DEFINE One(i) == Legality!Positive(<<text[i]>>, MaxUint32)
             Legal(i) == Legality!NumberText(<<text[i]>>, 1 .. MaxUint32)
  <1>1. Cpls!EditRate(text) = IF Len(text) # 2 THEN None ELSE Cpls!RateOf(One(1), One(2))
    <2>1. \A i : Cpls!Positive(<<text[i]>>, MaxUint32) = One(i)
      BY SameTexts
    <2> HIDE DEF One
    <2> QED BY <2>1, Zenon DEF Cpls!EditRate
  <1>2. CASE Len(text) # 2
    <2> HIDE DEF One, Legal
    <2> QED BY <1>1, <1>2 DEF Legality!RateText
  <1>3. CASE Len(text) = 2
    <2>1. ASSUME NEW i \in 1 .. 2
          PROVE  /\ Legal(i) <=> One(i) # None
                 /\ Legal(i) => One(i) \in 1 .. MaxUint32
      <3> DEFINE word == <<text[i]>>
      <3>1. IsText(word)
        <4>1. IsWord(text[i])
          BY <1>3, TextFacts
        <4>2. IsSeq(word) /\ Elements(word) = {text[i]}
          <5>1. Elements(word) = {text[i]}
            BY DEF Elements
          <5> QED BY <5>1 DEF IsSeq
        <4> QED BY <4>1, <4>2 DEF IsText
      <3>2. MaxUint32 \in Nat
        BY LimitsAssumption
      <3> HIDE DEF word
      <3>3. /\ Legality!Positive(word, MaxUint32) # None <=> Legality!NumberText(word, 1 .. MaxUint32)
            /\ Legality!NumberText(word, 1 .. MaxUint32) =>
                 Legality!Positive(word, MaxUint32) = word[1].number /\ word[1].number \in 1 .. MaxUint32
        BY <3>1, <3>2, NumberFacts
      <3>4. One(i) = Legality!Positive(word, MaxUint32) /\ Legal(i) = Legality!NumberText(word, 1 .. MaxUint32)
        BY Zenon DEF word
      <3> HIDE DEF One, Legal
      <3> QED BY <3>3, <3>4
    <2>2. Legality!RateText(text) <=> \A i \in 1 .. 2 : Legal(i)
      BY <1>3 DEF Legality!RateText
    <2>3. text # <<>>
      BY <1>3
    <2> HIDE DEF One, Legal
    <2>4. Legality!RateText(text) <=> Legal(1) /\ Legal(2)
      BY <2>2
    <2>5. CASE Legal(1) /\ Legal(2)
      <3>1. One(1) # None /\ One(2) # None /\ <<One(1), One(2)>> \in (1 .. MaxUint32) \X (1 .. MaxUint32)
        BY <2>1, <2>5
      <3>2. Cpls!EditRate(text) = <<One(1), One(2)>>
        BY <1>1, <1>3, <3>1 DEF Cpls!RateOf
      <3>3. Cpls!EditRate(text) \in Rate /\ None \notin Rate
        BY <3>1, <3>2, ValuesAssumption
      <3>4. Cpls!EditRate(text) # None
        BY <3>3
      <3> QED BY <2>3, <2>4, <2>5, <3>3, <3>4
    <2>6. CASE ~(Legal(1) /\ Legal(2))
      <3>1. One(1) = None \/ One(2) = None
        BY <2>1, <2>6
      <3>2. Cpls!EditRate(text) = None
        BY <1>1, <1>3, <3>1 DEF Cpls!RateOf
      <3> QED BY <2>4, <2>6, <3>2
    <2> QED BY <2>5, <2>6
  <1> QED BY <1>2, <1>3

LEMMA CleanRate ==
  ASSUME NEW N, IsTree(N), NEW node \in N, NEW path
  PROVE  Clean(Cpls!RequiredEditRate(node, path)) <=> Legality!RateText(Legality!TextOf(node, "EditRate"))
  <1> DEFINE text == Legality!TextOf(node, "EditRate")
             t == Cpls!TextOf(node, "EditRate")
             under == Cpls!Under(path, "EditRate")
             legal == Cpls!EditRate(t) # None
             found == IF t = <<>> THEN {Cpls!Err("missing_required_field", under)}
                      ELSE Cpls!Reports(~legal, Cpls!Err("invalid_edit_rate", under))
  <1>1. Cpls!RequiredEditRate(node, path) = found
    BY Zenon DEF Cpls!RequiredEditRate, Cpls!Required, Cpls!RequiredWords
  <1>2. t = text /\ IsText(text)
    BY SameLookups, ChildFacts
  <1> HIDE DEF t, text
  <1>3. (Legality!RateText(text) <=> legal) /\ (Legality!RateText(text) => text # <<>>)
    BY <1>2, RateFacts
  <1> HIDE DEF under, legal
  <1>4. found = Checked(t, under, legal, "invalid_edit_rate")
    <2>1. \A c : Cpls!Err(c, under) = Legality!Err(c, under)
      BY SameErrors
    <2>2. Cpls!Reports(~legal, Cpls!Err("invalid_edit_rate", under))
            = IF legal THEN {} ELSE {Legality!Err("invalid_edit_rate", under)}
      BY <2>1, Zenon DEF Cpls!Reports
    <2> QED BY <2>1, <2>2, Zenon DEF Checked
  <1> HIDE DEF found
  <1> QED BY <1>1, <1>2, <1>3, <1>4, CleanText DEF text

\* Repeats of keys that may be None.
LEMMA RepeatedKeys ==
  ASSUME NEW n \in Nat, NEW keys, DOMAIN keys = 1 .. n
  PROVE  Legality!Repeats(keys) = {} <=>
           \A j, k \in 1 .. n : keys[j] = keys[k] /\ keys[k] # None => j = k
  <1>1. ASSUME Legality!Repeats(keys) = {}, NEW j \in 1 .. n, NEW k \in 1 .. n, keys[j] = keys[k], keys[k] # None
        PROVE  j = k
    <2>1. CASE j < k
      BY <1>1, <2>1 DEF Legality!Repeats
    <2>2. CASE k < j
      BY <1>1, <2>2 DEF Legality!Repeats
    <2> QED BY <2>1, <2>2
  <1>2. ASSUME NEW k \in Legality!Repeats(keys)
        PROVE  \E i, j \in 1 .. n : keys[i] = keys[j] /\ keys[j] # None /\ i # j
    <2>1. k \in 1 .. n /\ keys[k] # None
      BY DEF Legality!Repeats
    <2>2. PICK j \in 1 .. k - 1 : keys[j] = keys[k]
      BY DEF Legality!Repeats
    <2>3. j \in 1 .. n /\ j # k
      BY <2>1
    <2> QED BY <2>1, <2>2, <2>3
  <1> QED BY <1>1, <1>2

\* The children of a reel's list: those of a lane, and all tracks.
LaneName(l) == Cpls!TrackName[Cpls!Lanes[l]]

TrackPlaces(list) == {i \in DOMAIN list.children : list.children[i].name[2] \in Legality!TrackElements}

LEMMA LaneNames ==
  /\ DOMAIN Cpls!Lanes = 1 .. 3
  /\ \A l \in 1 .. 3 : Cpls!Lanes[l] \in Lane
  /\ \A lane \in Lane : \E l \in 1 .. 3 : Cpls!Lanes[l] = lane
  /\ DOMAIN Cpls!TrackName = Lane
  /\ \A l \in 1 .. 3 : LaneName(l) \in Legality!TrackElements
  /\ \A name \in Legality!TrackElements : \E l \in 1 .. 3 : LaneName(l) = name
  /\ \A j, k \in 1 .. 3 : LaneName(j) = LaneName(k) => j = k
  BY DEF LaneName, Cpls!TrackName, Cpls!Lanes, Lane, Legality!TrackElements

IdWords(list, i) == Legality!TextOf(list.children[i], "Id")
RateWords(list, i) == Legality!TextOf(list.children[i], "EditRate")

\* A legal list of tracks, by the positions of its children.
LegalTracks(list) ==
  LET places == TrackPlaces(list)
      Kind(i) == list.children[i].name[2]
  IN /\ places # {}
     /\ \A i, j \in places : Kind(i) = Kind(j) => i = j
     /\ \A i \in places : Legality!IdText(IdWords(list, i)) /\ Legality!RateText(RateWords(list, i))
     /\ \A i, j \in places : IdWords(list, i)[1].id = IdWords(list, j)[1].id => i = j

LEMMA TracksSelected ==
  ASSUME NEW N, NEW list, list.children \in Seq(N)
  PROVE  LET tracks == Legality!Select(list.children, LAMBDA child : child.name[2] \in Legality!TrackElements)
         IN tracks \in Seq(N) /\ Selected(list.children, TrackPlaces(list), tracks)
  <1> DEFINE s == list.children
             wanted == TrackPlaces(list)
             Body(f) == [i \in 0 .. Len(s) |-> IF i = 0 THEN <<>>
                                               ELSE IF s[i].name[2] \in Legality!TrackElements THEN Append(f[i - 1], s[i]) ELSE f[i - 1]]
             kept == CHOOSE f : f = Body(f)
  <1>1. \A i \in 1 .. Len(s) : i \in wanted <=> s[i].name[2] \in Legality!TrackElements
    BY DEF TrackPlaces
  <1>2. \A f : IsSelection(f, s, wanted) <=> f = Body(f)
    <2>1. \A f : Body(f) = [i \in 0 .. Len(s) |-> IF i = 0 THEN <<>> ELSE IF i \in wanted THEN Append(f[i - 1], s[i]) ELSE f[i - 1]]
      <3> HIDE DEF wanted
      <3> QED BY <1>1
    <2> HIDE DEF Body, wanted, s
    <2> QED BY <2>1 DEF IsSelection
  <1>3. \E f : IsSelection(f, s, wanted)
    BY SelectionExists
  <1>4. IsSelection(kept, s, wanted)
    <2> HIDE DEF Body, wanted, s
    <2> QED BY <1>2, <1>3
  <1>5. Legality!Select(list.children, LAMBDA child : child.name[2] \in Legality!TrackElements) = kept[Len(s)]
    BY DEF Legality!Select
  <1>6. wanted \in SUBSET DOMAIN s
    BY DEF TrackPlaces
  <1> HIDE DEF kept
  <1> QED BY <1>4, <1>5, <1>6, Selection

\* A reel is legal exactly if its list has legal tracks.
LEMMA LegalReelFacts ==
  ASSUME NEW N, IsTree(N), NEW reel, NEW list \in N, Legality!Child(reel, "AssetList") = list, list # Legality!NoNode
  PROVE  Legality!LegalReel(reel) <=> LegalTracks(list)
  <1> DEFINE s == list.children
             places == TrackPlaces(list)
             tracks == Legality!Select(list.children, LAMBDA child : child.name[2] \in Legality!TrackElements)
             n == Len(tracks)
             kinds == [k \in DOMAIN tracks |-> tracks[k].name[2]]
             texts == Legality!Texts(tracks, "Id")
             ids == [k \in DOMAIN texts |-> texts[k][1].id]
             Kind(i) == s[i].name[2]
             Id(i) == IdWords(list, i)[1].id
             IdOk(i) == Legality!IdText(IdWords(list, i))
             RateOk(i) == Legality!RateText(RateWords(list, i))
  <1>1. s \in Seq(N)
    BY DEF IsTree, IsNode
  <1>2. tracks \in Seq(N) /\ Selected(s, places, tracks)
    BY <1>1, TracksSelected
  <1>3. Legality!LegalReel(reel) <=>
          /\ tracks # <<>>
          /\ Legality!NoneTwice(kinds)
          /\ \A k \in DOMAIN texts : Legality!IdText(texts[k])
          /\ Legality!NoneTwice(ids)
          /\ \A k \in DOMAIN tracks : Legality!RateText(Legality!TextOf(tracks[k], "EditRate"))
    BY Zenon DEF Legality!LegalReel, Legality!LegalIds
  <1>4. LegalTracks(list) <=>
          /\ places # {}
          /\ \A i, j \in places : Kind(i) = Kind(j) => i = j
          /\ \A i \in places : IdOk(i) /\ RateOk(i)
          /\ \A i, j \in places : Id(i) = Id(j) => i = j
    BY Zenon DEF LegalTracks
  <1> HIDE DEF tracks, n, places, s
  <1>5. n \in Nat /\ DOMAIN tracks = 1 .. n
    BY <1>2 DEF n
  <1>6. PICK at : Places(at, s, places, tracks)
    BY <1>2 DEF Selected
  <1>7. /\ \A k \in 1 .. n : at[k] \in places /\ tracks[k] = s[at[k]]
        /\ \A j, k \in 1 .. n : at[j] = at[k] => j = k
        /\ \A i \in places : \E k \in 1 .. n : at[k] = i
    BY <1>6 DEF Places, n
  <1>8. tracks # <<>> <=> places # {}
    <2>1. tracks # <<>> <=> 1 \in 1 .. n
      BY <1>2, <1>5 DEF n
    <2>2. places # {} <=> \E k \in 1 .. n : TRUE
      BY <1>7
    <2>3. (\E k \in 1 .. n : TRUE) <=> 1 \in 1 .. n
      BY <1>5
    <2> QED BY <2>1, <2>2, <2>3
  <1>9. /\ texts = [k \in 1 .. n |-> Legality!TextOf(tracks[k], "Id")]
        /\ \A k \in 1 .. n : /\ kinds[k] = Kind(at[k])
                             /\ texts[k] = IdWords(list, at[k])
                             /\ Legality!TextOf(tracks[k], "EditRate") = RateWords(list, at[k])
    <2>1. texts = [k \in 1 .. n |-> Legality!TextOf(tracks[k], "Id")]
      BY <1>5 DEF Legality!Texts
    <2>2. \A k \in 1 .. n : Legality!TextOf(tracks[k], "Id") = IdWords(list, at[k])
      BY <1>7 DEF IdWords, s
    <2>3. \A k \in 1 .. n : Legality!TextOf(tracks[k], "EditRate") = RateWords(list, at[k])
      BY <1>7 DEF RateWords, s
    <2> HIDE DEF texts
    <2> QED BY <1>5, <1>7, <2>1, <2>2, <2>3
  <1>10. DOMAIN kinds = 1 .. n /\ DOMAIN texts = 1 .. n /\ DOMAIN ids = 1 .. n
         /\ \A k \in 1 .. n : ids[k] = Id(at[k])
    <2>1. DOMAIN texts = 1 .. n
      BY <1>9
    <2> HIDE DEF texts
    <2> QED BY <1>5, <1>9, <2>1
  <1> HIDE DEF kinds, texts, ids, Kind, Id
  <1>11. Legality!NoneTwice(kinds) <=> \A i, j \in places : Kind(i) = Kind(j) => i = j
    <2>1. Legality!NoneTwice(kinds) <=> \A j, k \in 1 .. n : Kind(at[j]) = Kind(at[k]) => j = k
      BY <1>9, <1>10 DEF Legality!NoneTwice
    <2> QED BY <1>7, <2>1
  <1>12. Legality!NoneTwice(ids) <=> \A i, j \in places : Id(i) = Id(j) => i = j
    <2>1. Legality!NoneTwice(ids) <=> \A j, k \in 1 .. n : Id(at[j]) = Id(at[k]) => j = k
      BY <1>10 DEF Legality!NoneTwice
    <2> QED BY <1>7, <2>1
  <1>13. (\A k \in DOMAIN texts : Legality!IdText(texts[k])) <=> \A i \in places : IdOk(i)
    <2>1. (\A k \in DOMAIN texts : Legality!IdText(texts[k])) <=> \A k \in 1 .. n : IdOk(at[k])
      BY <1>9, <1>10
    <2> HIDE DEF IdOk
    <2> QED BY <1>7, <2>1
  <1>14. (\A k \in DOMAIN tracks : Legality!RateText(Legality!TextOf(tracks[k], "EditRate"))) <=> \A i \in places : RateOk(i)
    <2>1. (\A k \in DOMAIN tracks : Legality!RateText(Legality!TextOf(tracks[k], "EditRate"))) <=> \A k \in 1 .. n : RateOk(at[k])
      BY <1>5, <1>9
    <2> HIDE DEF RateOk
    <2> QED BY <1>7, <2>1
  <1> HIDE DEF IdOk, RateOk
  <1> QED BY <1>3, <1>4, <1>8, <1>11, <1>12, <1>13, <1>14, Zenon

\* The first child of a name, if there is one, and whether there are others.
LEMMA FirstOf ==
  ASSUME NEW N, IsTree(N), NEW list \in N, NEW name
  PROVE  LET found == Legality!Children(list, name)
             places == Named(list, name)
         IN /\ found \in Seq(N)
            /\ found = <<>> <=> places = {}
            /\ DOMAIN found \ {1} = {} <=> \A i, j \in places : i = j
            /\ \A i \in places : places = {i} => found[1] = list.children[i]
            /\ \A k \in DOMAIN found : found[k] \in N
  <1> DEFINE found == Legality!Children(list, name)
             places == Named(list, name)
             n == Len(found)
  <1>1. list.children \in Seq(N)
    BY DEF IsTree, IsNode
  <1>2. found \in Seq(N) /\ Selected(list.children, places, found)
    BY <1>1, ChildrenFacts
  <1> HIDE DEF found, places
  <1>3. n \in Nat /\ DOMAIN found = 1 .. n /\ \A k \in 1 .. n : found[k] \in N
    BY <1>2
  <1>4. PICK at : Places(at, list.children, places, found)
    BY <1>2 DEF Selected
  <1>5. /\ \A k \in 1 .. n : at[k] \in places /\ found[k] = list.children[at[k]]
        /\ \A j, k \in 1 .. n : at[j] = at[k] => j = k
        /\ \A i \in places : \E k \in 1 .. n : at[k] = i
    BY <1>4 DEF Places
  <1>6. found = <<>> <=> n = 0
    BY <1>2
  <1> HIDE DEF n
  <1>7. n = 0 <=> places = {}
    <2>1. n # 0 => 1 \in 1 .. n
      BY <1>3
    <2>2. n = 0 => 1 .. n = {}
      BY <1>3
    <2> QED BY <1>5, <2>1, <2>2
  <1>8. DOMAIN found \ {1} = {} <=> \A i, j \in places : i = j
    <2>1. CASE n <= 1
      <3>1. \A j, k \in 1 .. n : j = k
        BY <1>3, <2>1
      <3>2. \A k \in 1 .. n : k = 1
        BY <1>3, <2>1
      <3> QED BY <1>3, <1>5, <3>1, <3>2
    <2>2. CASE ~(n <= 1)
      <3>1. 1 \in 1 .. n /\ 2 \in 1 .. n
        BY <1>3, <2>2
      <3>2. at[1] # at[2] /\ at[1] \in places /\ at[2] \in places
        BY <1>5, <3>1
      <3> QED BY <1>3, <3>1, <3>2
    <2> QED BY <2>1, <2>2
  <1>9. \A i \in places : places = {i} => found[1] = list.children[i]
    <2>1. ASSUME NEW i \in places, places = {i} PROVE found[1] = list.children[i]
      <3>1. n # 0
        BY <1>7
      <3>2. 1 \in 1 .. n
        BY <1>3, <3>1
      <3> QED BY <1>5, <2>1, <3>2
    <2> QED BY <2>1
  <1> QED BY <1>2, <1>3, <1>6, <1>7, <1>8, <1>9 DEF found, places

LEMMA CleanLane ==
  ASSUME NEW N, IsTree(N), NEW list \in N, NEW path, NEW name
  PROVE  LET places == Named(list, name)
         IN Clean(Cpls!LaneDiagnostics(Legality!Children(list, name), path, name)) <=>
              /\ \A i, j \in places : i = j
              /\ \A i \in places : Legality!IdText(IdWords(list, i)) /\ Legality!RateText(RateWords(list, i))
  <1> DEFINE found == Legality!Children(list, name)
             places == Named(list, name)
             first == found[1]
             under == Cpls!Under(path, name)
             A == IF found = <<>> THEN {} ELSE Cpls!TrackDiagnostics(first, under)
             B == {Cpls!Err("duplicate_track_type", Cpls!Nth(path, name, k)) : k \in DOMAIN found \ {1}}
             IdOk(i) == Legality!IdText(IdWords(list, i))
             RateOk(i) == Legality!RateText(RateWords(list, i))
  <1>1. Cpls!LaneDiagnostics(found, path, name) = A \cup B
    BY Zenon DEF Cpls!LaneDiagnostics
  <1>2. Clean(B) <=> DOMAIN found \ {1} = {}
    <2>1. \A c, p : Cpls!Err(c, p).severity = "error"
      BY DEF Cpls!Err, Cpls!Diagnostic
    <2> HIDE DEF found
    <2> QED BY <2>1, Zenon DEF Clean
  <1>3. /\ found \in Seq(N)
        /\ found = <<>> <=> places = {}
        /\ DOMAIN found \ {1} = {} <=> \A i, j \in places : i = j
        /\ \A i \in places : places = {i} => first = list.children[i]
        /\ \A k \in DOMAIN found : found[k] \in N
    BY FirstOf
  <1>4. found # <<>> =>
          (Clean(A) <=> /\ Legality!IdText(Legality!TextOf(first, "Id"))
                        /\ Legality!RateText(Legality!TextOf(first, "EditRate")))
    <2> HIDE DEF found
    <2> SUFFICES ASSUME found # <<>>
                 PROVE  Clean(A) <=> /\ Legality!IdText(Legality!TextOf(first, "Id"))
                                     /\ Legality!RateText(Legality!TextOf(first, "EditRate"))
      OBVIOUS
    <2>1. first \in N
      <3>1. 1 \in DOMAIN found
        BY <1>3
      <3> QED BY <1>3, <3>1
    <2> HIDE DEF first, under
    <2> DEFINE C == Legality!RequiredId(first, under)
               D == Cpls!RequiredEditRate(first, under)
    <2>2. A = C \cup D
      <3>1. A = Cpls!RequiredId(first, under) \cup D
        BY DEF Cpls!TrackDiagnostics
      <3>2. Cpls!RequiredId(first, under) = C
        BY SameRequired
      <3> HIDE DEF A, C, D
      <3> QED BY <3>1, <3>2
    <2>3. Clean(C) <=> Legality!IdText(Legality!TextOf(first, "Id"))
      BY <2>1, CleanId
    <2>4. Clean(D) <=> Legality!RateText(Legality!TextOf(first, "EditRate"))
      BY <2>1, CleanRate
    <2> HIDE DEF A, C, D
    <2>5. Clean(C \cup D) <=> Clean(C) /\ Clean(D)
      BY CleanFacts
    <2> QED BY <2>2, <2>3, <2>4, <2>5
  <1>5. found = <<>> => Clean(A)
    <2>1. found = <<>> => A = {}
      OBVIOUS
    <2> HIDE DEF A, found
    <2> QED BY <2>1, CleanFacts
  <1> HIDE DEF A, B, found, places, first
  <1>6. Clean(A \cup B) <=> Clean(A) /\ Clean(B)
    BY CleanFacts
  <1>7. CASE ~(\A i, j \in places : i = j)
    <2> HIDE DEF IdOk, RateOk
    <2> QED BY <1>1, <1>2, <1>3, <1>6, <1>7 DEF found, places
  <1>8. CASE places = {}
    <2>1. found = <<>> /\ (\A i, j \in places : i = j)
      BY <1>3, <1>8
    <2> HIDE DEF IdOk, RateOk
    <2> QED BY <1>1, <1>2, <1>3, <1>5, <1>6, <1>8, <2>1 DEF found, places
  <1>9. ASSUME NEW i \in places, \A j, k \in places : j = k
        PROVE  Clean(A \cup B) <=> IdOk(i) /\ RateOk(i)
    <2>1. places = {i}
      BY <1>9
    <2>2. first = list.children[i] /\ found # <<>>
      BY <1>3, <2>1
    <2>3. Legality!TextOf(first, "Id") = IdWords(list, i) /\ Legality!TextOf(first, "EditRate") = RateWords(list, i)
      BY <2>2 DEF IdWords, RateWords
    <2>4. Clean(B)
      BY <1>2, <1>3, <1>9
    <2> QED BY <1>4, <1>6, <2>2, <2>3, <2>4
  <1> HIDE DEF IdOk, RateOk
  <1>10. ASSUME places # {}, \A j, k \in places : j = k
         PROVE  Clean(A \cup B) <=> \A i \in places : IdOk(i) /\ RateOk(i)
    <2>1. PICK i : i \in places
      BY <1>10
    <2>2. places = {i}
      BY <1>10, <2>1
    <2>3. Clean(A \cup B) <=> IdOk(i) /\ RateOk(i)
      BY <1>9, <1>10, <2>1
    <2> QED BY <2>2, <2>3
  <1>11. ASSUME places # {}, \A j, k \in places : j = k
         PROVE  Clean(Cpls!LaneDiagnostics(Legality!Children(list, name), path, name)) <=>
                  /\ \A i, j \in places : i = j
                  /\ \A i \in places : IdOk(i) /\ RateOk(i)
    BY <1>1, <1>10, <1>11 DEF found
  <1> QED BY <1>7, <1>8, <1>11, Zenon DEF IdOk, RateOk, places

\* What the reels of a CPL hold of the first track of each lane.
LEMMA LaneValue ==
  ASSUME NEW N, IsTree(N), NEW list \in N, NEW name, NEW track, track = Cpls!First(Legality!Children(list, name)),
         \A i, j \in Named(list, name) : i = j,
         \A i \in Named(list, name) : Legality!IdText(IdWords(list, i)) /\ Legality!RateText(RateWords(list, i))
  PROVE  /\ Named(list, name) = {} => Cpls!IdOf(track) = None /\ Cpls!Reference(track) = None
         /\ \A i \in Named(list, name) :
              /\ Cpls!IdOf(track) = IdWords(list, i)[1].id
              /\ Cpls!IdOf(track) # None
              /\ Cpls!Reference(track) \in AssetReference
              /\ Cpls!Reference(track) # None
  <1> DEFINE found == Legality!Children(list, name)
             places == Named(list, name)
  <1>1. /\ found \in Seq(N)
        /\ found = <<>> <=> places = {}
        /\ \A i \in places : places = {i} => found[1] = list.children[i]
        /\ \A k \in DOMAIN found : found[k] \in N
    BY FirstOf
  <1>2. track = IF found = <<>> THEN Cpls!NoNode ELSE found[1]
    BY DEF Cpls!First
  <1> HIDE DEF found
  <1>3. ASSUME places = {} PROVE Cpls!IdOf(track) = None /\ Cpls!Reference(track) = None
    <2>1. track = Cpls!NoNode
      BY <1>1, <1>2, <1>3
    <2> QED BY <2>1, Zenon DEF Cpls!IdOf, Cpls!Reference
  <1>4. ASSUME NEW i \in places
        PROVE  /\ Cpls!IdOf(track) = IdWords(list, i)[1].id
               /\ Cpls!IdOf(track) # None
               /\ Cpls!Reference(track) \in AssetReference
               /\ Cpls!Reference(track) # None
    <2>1. places = {i} /\ found # <<>>
      BY <1>1
    <2>2. track = list.children[i] /\ track = found[1]
      BY <1>1, <1>2, <2>1
    <2>3. track \in N
      <3>1. 1 \in DOMAIN found
        BY <1>1, <2>1
      <3> QED BY <1>1, <2>2, <3>1
    <2>4. track # Cpls!NoNode
      <3>1. DOMAIN Cpls!NoNode = {"missing"}
        BY DEF Cpls!NoNode
      <3>2. track = Xml!Node(track.name, track.attributes, track.words, track.children)
        BY <2>3 DEF IsTree, IsNode
      <3>3. "name" \in DOMAIN track
        BY <3>2 DEF Xml!Node
      <3> QED BY <3>1, <3>3
    <2> DEFINE id == Legality!TextOf(track, "Id")
               rate == Legality!TextOf(track, "EditRate")
               rateof == Cpls!EditRate(rate)
               idof == Legality!NormalizedUuid(id)
    <2>5. id = IdWords(list, i) /\ rate = RateWords(list, i)
      BY <2>2 DEF IdWords, RateWords
    <2>6. IsText(id) /\ IsText(rate)
      BY <2>3, ChildFacts
    <2>7. Legality!IdText(id) /\ Legality!RateText(rate)
      BY <2>5
    <2> HIDE DEF id, rate
    <2>8. idof # None /\ idof = id[1].id /\ idof \in Uuid
      BY <2>6, <2>7, IdFacts
    <2>9. rateof \in Rate
      BY <2>6, <2>7, RateFacts
    <2> HIDE DEF idof, rateof
    <2>10. Cpls!IdOf(track) = idof
      <3>1. Cpls!NormalizedUuid(Cpls!TextOf(track, "Id")) = idof
        <4>1. Cpls!TextOf(track, "Id") = id
          BY SameLookups DEF id
        <4>2. Cpls!NormalizedUuid(id) = idof
          BY SameTexts DEF idof
        <4> QED BY <4>1, <4>2
      <3> QED BY <2>4, <3>1 DEF Cpls!IdOf
    <2>11. Cpls!Reference(track) = [asset_id |-> idof, edit_rate |-> rateof]
      <3>1. Cpls!TextOf(track, "EditRate") = rate
        BY SameLookups DEF rate
      <3> QED BY <2>4, <2>10, <3>1 DEF Cpls!Reference, rateof
    <2>12. Cpls!Reference(track) \in AssetReference
      BY <2>8, <2>9, <2>11 DEF AssetReference
    <2>13. None \notin AssetReference
      BY NoneAssumption
    <2> QED BY <2>5, <2>8, <2>10, <2>12, <2>13
  <1> QED BY <1>3, <1>4

LaneKey(list, l) == Cpls!IdOf(Cpls!First(Legality!Children(list, LaneName(l))))

SoundLanes(list) ==
  \A l \in 1 .. 3 : LET places == Named(list, LaneName(l))
                    IN /\ \A i, j \in places : i = j
                       /\ \A i \in places : Legality!IdText(IdWords(list, i)) /\ Legality!RateText(RateWords(list, i))

\* Legal tracks, lane by lane.
LEMMA ByLanes ==
  ASSUME NEW N, IsTree(N), NEW list \in N
  PROVE  LegalTracks(list) <=>
           /\ \E l \in 1 .. 3 : Named(list, LaneName(l)) # {}
           /\ SoundLanes(list)
           /\ \A j, k \in 1 .. 3 : LaneKey(list, j) = LaneKey(list, k) /\ LaneKey(list, k) # None => j = k
  <1> DEFINE places == TrackPlaces(list)
             At(l) == Named(list, LaneName(l))
             Kind(i) == list.children[i].name[2]
             Id(i) == IdWords(list, i)[1].id
             IdOk(i) == Legality!IdText(IdWords(list, i))
             RateOk(i) == Legality!RateText(RateWords(list, i))
             Key(l) == LaneKey(list, l)
  <1>1. /\ \A l \in 1 .. 3 : At(l) = {i \in places : Kind(i) = LaneName(l)}
        /\ \A i \in places : \E l \in 1 .. 3 : i \in At(l)
    <2>1. \A i \in DOMAIN list.children : i \in places <=> Kind(i) \in Legality!TrackElements
      BY DEF TrackPlaces
    <2>2. places \subseteq DOMAIN list.children
      BY DEF TrackPlaces
    <2>3. \A l : At(l) = {i \in DOMAIN list.children : Kind(i) = LaneName(l)}
      BY DEF Named
    <2> HIDE DEF places, At, Kind
    <2> QED BY <2>1, <2>2, <2>3, LaneNames
  <1>2. LegalTracks(list) <=>
          /\ places # {}
          /\ \A i, j \in places : Kind(i) = Kind(j) => i = j
          /\ \A i \in places : IdOk(i) /\ RateOk(i)
          /\ \A i, j \in places : Id(i) = Id(j) => i = j
    BY Zenon DEF LegalTracks
  <1>3. SoundLanes(list) <=> \A l \in 1 .. 3 : /\ \A i, j \in At(l) : i = j
                                               /\ \A i \in At(l) : IdOk(i) /\ RateOk(i)
    BY Zenon DEF SoundLanes
  <1>4. ASSUME SoundLanes(list), NEW l \in 1 .. 3
        PROVE  /\ At(l) = {} => Key(l) = None
               /\ \A i \in At(l) : Key(l) = Id(i) /\ Key(l) # None
    <2> DEFINE track == Cpls!First(Legality!Children(list, LaneName(l)))
    <2>1. \A i, j \in At(l) : i = j
      BY <1>3, <1>4
    <2>2. \A i \in At(l) : IdOk(i) /\ RateOk(i)
      BY <1>3, <1>4
    <2>3. Key(l) = Cpls!IdOf(track)
      BY DEF LaneKey
    <2> HIDE DEF track, Key
    <2>4. /\ At(l) = {} => Cpls!IdOf(track) = None
          /\ \A i \in At(l) : Cpls!IdOf(track) = Id(i) /\ Cpls!IdOf(track) # None
      BY <2>1, <2>2, LaneValue DEF track
    <2> QED BY <2>3, <2>4
  <1> HIDE DEF places, At, Kind, Id, IdOk, RateOk, Key
  <1>5. places # {} <=> \E l \in 1 .. 3 : At(l) # {}
    BY <1>1
  <1>6. SoundLanes(list) <=> /\ \A i, j \in places : Kind(i) = Kind(j) => i = j
                             /\ \A i \in places : IdOk(i) /\ RateOk(i)
    <2>1. ASSUME SoundLanes(list), NEW i \in places, NEW j \in places, Kind(i) = Kind(j) PROVE i = j
      <3>1. PICK l \in 1 .. 3 : i \in At(l)
        BY <1>1
      <3>2. j \in At(l)
        BY <1>1, <2>1, <3>1
      <3> QED BY <1>3, <2>1, <3>1, <3>2
    <2>2. ASSUME SoundLanes(list), NEW i \in places PROVE IdOk(i) /\ RateOk(i)
      BY <1>1, <1>3, <2>2
    <2>3. ASSUME \A i, j \in places : Kind(i) = Kind(j) => i = j, \A i \in places : IdOk(i) /\ RateOk(i)
          PROVE  SoundLanes(list)
      BY <1>1, <1>3, <2>3
    <2> QED BY <2>1, <2>2, <2>3
  <1>7. ASSUME SoundLanes(list)
        PROVE  (\A i, j \in places : Id(i) = Id(j) => i = j) <=> \A j, k \in 1 .. 3 : Key(j) = Key(k) /\ Key(k) # None => j = k
    <2>1. ASSUME \A i, j \in places : Id(i) = Id(j) => i = j, NEW j \in 1 .. 3, NEW k \in 1 .. 3, Key(j) = Key(k), Key(k) # None
          PROVE  j = k
      <3>1. At(j) # {} /\ At(k) # {}
        BY <1>4, <1>7, <2>1
      <3>2. PICK x \in At(j) : TRUE
        BY <3>1
      <3>3. PICK y \in At(k) : TRUE
        BY <3>1
      <3>4. Id(x) = Id(y) /\ x \in places /\ y \in places
        BY <1>1, <1>4, <1>7, <2>1
      <3>5. LaneName(j) = LaneName(k)
        BY <1>1, <2>1, <3>4
      <3> QED BY <3>5, LaneNames
    <2>2. ASSUME \A j, k \in 1 .. 3 : Key(j) = Key(k) /\ Key(k) # None => j = k,
                 NEW x \in places, NEW y \in places, Id(x) = Id(y)
          PROVE  x = y
      <3>1. PICK j \in 1 .. 3 : x \in At(j)
        BY <1>1
      <3>2. PICK k \in 1 .. 3 : y \in At(k)
        BY <1>1
      <3>3. Key(j) = Id(x) /\ Key(k) = Id(y) /\ Key(k) # None
        BY <1>4, <1>7, <3>1, <3>2
      <3>4. j = k
        BY <2>2, <3>3
      <3> QED BY <1>3, <1>7, <3>1, <3>2, <3>4
    <2> QED BY <2>1, <2>2
  <1> QED BY <1>2, <1>5, <1>6, <1>7, Zenon DEF At, Key

LEMMA CleanList ==
  ASSUME NEW N, IsTree(N), NEW list \in N, NEW path
  PROVE  Clean(Cpls!ListDiagnostics(list, path)) <=> LegalTracks(list)
  <1> DEFINE Found(l) == Legality!Children(list, LaneName(l))
             Each(l) == Cpls!LaneDiagnostics(Cpls!Tracks(list, Cpls!Lanes[l]), path, Cpls!TrackName[Cpls!Lanes[l]])
             none == \A l \in DOMAIN Cpls!Lanes : Cpls!Tracks(list, Cpls!Lanes[l]) = <<>>
             keys == Cpls!LaneIds(list)
             A == UNION {Each(l) : l \in DOMAIN Cpls!Lanes}
             B == Cpls!Reports(none, Cpls!Err("reel_missing_track", path))
             C == {Cpls!Err("duplicate_asset_reference", Cpls!Under(Cpls!Under(path, Cpls!TrackName[Cpls!Lanes[l]]), "Id")) :
                     l \in Cpls!Repeats(keys)}
  <1>1. Cpls!ListDiagnostics(list, path) = A \cup B \cup C
    BY Zenon DEF Cpls!ListDiagnostics
  <1>2. DOMAIN Cpls!Lanes = 1 .. 3
    BY LaneNames
  <1>3. \A l : Cpls!Tracks(list, Cpls!Lanes[l]) = Found(l)
    BY SameLookups DEF Cpls!Tracks, LaneName
  <1>4. Clean(A) <=> SoundLanes(list)
    <2>1. Clean(A) <=> \A l \in 1 .. 3 : Clean(Each(l))
      <3> DEFINE X == {Each(l) : l \in DOMAIN Cpls!Lanes}
      <3>1. Clean(A) <=> \A F \in X : Clean(F)
        <4>1. A = UNION X
          OBVIOUS
        <4> HIDE DEF X, A
        <4> QED BY <4>1, CleanFacts
      <3> HIDE DEF Each, A
      <3> QED BY <1>2, <3>1, Zenon DEF X
    <2>2. \A l \in 1 .. 3 : Each(l) = Cpls!LaneDiagnostics(Found(l), path, LaneName(l))
      <3> HIDE DEF Found
      <3> QED BY <1>3 DEF LaneName
    <2>3. \A l \in 1 .. 3 : Clean(Each(l)) <=>
            LET places == Named(list, LaneName(l))
            IN /\ \A i, j \in places : i = j
               /\ \A i \in places : Legality!IdText(IdWords(list, i)) /\ Legality!RateText(RateWords(list, i))
      <3> HIDE DEF Each
      <3> QED BY <2>2, CleanLane
    <2> HIDE DEF A, Each
    <2> QED BY <2>1, <2>3 DEF SoundLanes
  <1>5. Clean(B) <=> \E l \in 1 .. 3 : Named(list, LaneName(l)) # {}
    <2>1. B = Legality!Reports(none, Legality!Err("reel_missing_track", path))
      <3> HIDE DEF none
      <3> QED BY SameErrors
    <2>2. \A l \in 1 .. 3 : Found(l) = <<>> <=> Named(list, LaneName(l)) = {}
      BY FirstOf
    <2> HIDE DEF Found
    <2>3. none <=> \A l \in 1 .. 3 : Named(list, LaneName(l)) = {}
      BY <1>2, <1>3, <2>2
    <2> HIDE DEF B, none
    <2>4. Clean(B) <=> ~none
      BY <2>1, CleanReports
    <2> QED BY <2>3, <2>4
  <1>6. Clean(C) <=> Cpls!Repeats(keys) = {}
    <2>1. \A c, p : Cpls!Err(c, p).severity = "error"
      BY DEF Cpls!Err, Cpls!Diagnostic
    <2> HIDE DEF keys
    <2> QED BY <2>1, Zenon DEF Clean
  <1>7. Cpls!Repeats(keys) = {} <=> \A j, k \in 1 .. 3 : LaneKey(list, j) = LaneKey(list, k) /\ LaneKey(list, k) # None => j = k
    <2>1. DOMAIN keys = 1 .. 3 /\ \A l \in 1 .. 3 : keys[l] = LaneKey(list, l)
      <3>1. keys = [l \in 1 .. 3 |-> Cpls!IdOf(Cpls!First(Cpls!Tracks(list, Cpls!Lanes[l])))]
        BY <1>2, Zenon DEF Cpls!LaneIds
      <3> HIDE DEF Found, keys
      <3> QED BY <1>3, <3>1 DEF LaneKey, Found
    <2> HIDE DEF keys
    <2>2. Legality!Repeats(keys) = {} <=> \A j, k \in 1 .. 3 : keys[j] = keys[k] /\ keys[k] # None => j = k
      <3>1. DOMAIN keys = 1 .. 3 /\ 3 \in Nat
        BY <2>1
      <3> QED BY <3>1, RepeatedKeys, Zenon
    <2> QED BY <2>1, <2>2, SameRepeats
  <1> HIDE DEF A, B, C, keys
  <1>8. Clean(A \cup B \cup C) <=> Clean(A) /\ Clean(B) /\ Clean(C)
    BY CleanFacts
  <1> QED BY <1>1, <1>4, <1>5, <1>6, <1>7, <1>8, ByLanes

LEMMA CleanReel ==
  ASSUME NEW N, IsTree(N), NEW reel \in N, NEW path
  PROVE  Clean(Cpls!ReelDiagnostics(reel, path)) <=>
           Legality!IdText(Legality!TextOf(reel, "Id")) /\ Legality!LegalReel(reel)
  <1> DEFINE list == Legality!Child(reel, "AssetList")
             under == Cpls!Under(path, "AssetList")
             A == Legality!RequiredId(reel, path)
             B == Cpls!AssetListDiagnostics(list, under)
  <1>1. Cpls!ReelDiagnostics(reel, path) = A \cup B
    <2>1. Cpls!Child(reel, "AssetList") = list /\ Cpls!RequiredId(reel, path) = A
      BY SameLookups, SameRequired
    <2>2. Cpls!ReelDiagnostics(reel, path)
            = Cpls!RequiredId(reel, path) \cup Cpls!AssetListDiagnostics(Cpls!Child(reel, "AssetList"), under)
      BY Zenon DEF Cpls!ReelDiagnostics
    <2> HIDE DEF A, list, under
    <2> QED BY <2>1, <2>2
  <1>2. Clean(A) <=> Legality!IdText(Legality!TextOf(reel, "Id"))
    BY CleanId
  <1>3. Clean(B) <=> Legality!LegalReel(reel)
    <2>1. list \in N \cup {Legality!NoNode} /\ Cpls!NoNode = Legality!NoNode
      BY ChildFacts, SameErrors
    <2>2. CASE list = Legality!NoNode
      <3>1. B = {Legality!Err("missing_required_field", under)}
        <4>1. \A c : Cpls!Err(c, under) = Legality!Err(c, under)
          BY SameErrors
        <4> HIDE DEF list, under
        <4> QED BY <2>1, <2>2, <4>1 DEF Cpls!AssetListDiagnostics
      <3>2. ~Legality!LegalReel(reel)
        BY <2>2, Zenon DEF Legality!LegalReel
      <3> HIDE DEF B, under
      <3> QED BY <3>1, <3>2, CleanFacts
    <2>3. CASE list # Legality!NoNode
      <3>1. B = Cpls!ListDiagnostics(list, under) /\ list \in N
        <4> HIDE DEF list, under
        <4> QED BY <2>1, <2>3 DEF Cpls!AssetListDiagnostics
      <3>2. Legality!LegalReel(reel) <=> LegalTracks(list)
        <4>1. Legality!Child(reel, "AssetList") = list
          OBVIOUS
        <4> HIDE DEF list, B
        <4> QED BY <2>3, <3>1, <4>1, LegalReelFacts
      <3> HIDE DEF B, list, under
      <3> QED BY <3>1, <3>2, CleanList
    <2> QED BY <2>2, <2>3
  <1> HIDE DEF A, B
  <1>4. Clean(A \cup B) <=> Clean(A) /\ Clean(B)
    BY CleanFacts
  <1> QED BY <1>1, <1>2, <1>3, <1>4

LEMMA CleanReels ==
  ASSUME NEW N, IsTree(N), NEW reels \in Seq(N), NEW path
  PROVE  Clean(Cpls!ReelListDiagnostics(reels, path)) <=>
           reels # <<>> /\ Legality!LegalIds(reels) /\ \A i \in DOMAIN reels : Legality!LegalReel(reels[i])
  <1> DEFINE Each(i) == Cpls!ReelDiagnostics(reels[i], Cpls!Nth(path, "Reel", i))
             A == Cpls!Reports(reels = <<>>, Cpls!Err("empty_reel_list", path))
             B == UNION {Each(i) : i \in DOMAIN reels}
             C == Legality!DuplicateIds(reels, path, "Reel", "duplicate_reel_id")
             IdOk(i) == Legality!IdText(Legality!TextOf(reels[i], "Id"))
  <1>1. Cpls!ReelListDiagnostics(reels, path) = A \cup B \cup C
    <2>1. Cpls!DuplicateIds(reels, path, "Reel", "duplicate_reel_id") = C
      BY SameDuplicates
    <2>2. Cpls!ReelListDiagnostics(reels, path) = A \cup B \cup Cpls!DuplicateIds(reels, path, "Reel", "duplicate_reel_id")
      BY Zenon DEF Cpls!ReelListDiagnostics
    <2> HIDE DEF A, B, C
    <2> QED BY <2>1, <2>2
  <1>2. Clean(A) <=> reels # <<>>
    <2> DEFINE none == reels = <<>>
    <2>1. Cpls!Reports(none, Cpls!Err("empty_reel_list", path)) = Legality!Reports(none, Legality!Err("empty_reel_list", path))
      <3> HIDE DEF none
      <3> QED BY SameErrors
    <2>2. A = Cpls!Reports(none, Cpls!Err("empty_reel_list", path))
      OBVIOUS
    <2> HIDE DEF A, none
    <2>3. Clean(A) <=> ~none
      BY <2>1, <2>2, CleanReports
    <2> QED BY <2>3 DEF none
  <1>3. Clean(B) <=> \A i \in DOMAIN reels : IdOk(i) /\ Legality!LegalReel(reels[i])
    <2>1. Clean(B) <=> \A i \in DOMAIN reels : Clean(Each(i))
      <3> DEFINE X == {Each(i) : i \in DOMAIN reels}
      <3>1. Clean(B) <=> \A F \in X : Clean(F)
        <4>1. B = UNION X
          OBVIOUS
        <4> HIDE DEF X, B
        <4> QED BY <4>1, CleanFacts
      <3> HIDE DEF Each, B
      <3> QED BY <3>1, Zenon DEF X
    <2>2. \A i \in DOMAIN reels : Clean(Each(i)) <=> IdOk(i) /\ Legality!LegalReel(reels[i])
      <3>1. \A i \in DOMAIN reels : reels[i] \in N
        OBVIOUS
      <3> QED BY <3>1, CleanReel
    <2> HIDE DEF B, Each, IdOk
    <2> QED BY <2>1, <2>2
  <1>4. Legality!LegalIds(reels) <=> (\A i \in DOMAIN reels : IdOk(i)) /\ Clean(C)
    BY CleanIds
  <1> HIDE DEF A, B, C, IdOk
  <1>5. Clean(A \cup B \cup C) <=> Clean(A) /\ Clean(B) /\ Clean(C)
    BY CleanFacts
  <1> QED BY <1>1, <1>2, <1>3, <1>4, <1>5, Zenon

LEMMA CleanCpl ==
  ASSUME NEW N, IsTree(N), NEW root \in N, root.name[2] = "CompositionPlaylist"
  PROVE  Clean(Cpls!CplDiagnostics(root)) <=> Legality!LegalCpl(root)
  <1> DEFINE path == <<Cpls!Step("CompositionPlaylist")>>
             under == Cpls!Under(path, "ReelList")
             reels == Legality!Items(root, "ReelList", "Reel")
             list == Legality!Child(root, "ReelList")
             A == Legality!HeaderDiagnostics(root, "CompositionPlaylist")
             B == Legality!RequiredText(root, path, "ContentTitleText")
             C == Cpls!RequiredEditRate(root, path)
             D == IF list = Legality!NoNode THEN {Legality!Err("missing_required_field", under)}
                  ELSE Cpls!ReelListDiagnostics(reels, under)
             AllLegal == reels # <<>> /\ Legality!LegalIds(reels) /\ \A i \in DOMAIN reels : Legality!LegalReel(reels[i])
  <1>1. reels \in Seq(N)
    BY ItemsFacts
  <1>2. Cpls!Reels(root) = reels /\ Cpls!Child(root, "ReelList") = list /\ Cpls!NoNode = Legality!NoNode
    BY SameLookups, SameErrors DEF Cpls!Reels, Legality!Items
  <1>3. Cpls!CplDiagnostics(root) = A \cup B \cup C \cup D
    <2> DEFINE E == IF Cpls!Child(root, "ReelList") = Cpls!NoNode THEN {Cpls!Err("missing_required_field", under)}
                    ELSE Cpls!ReelListDiagnostics(Cpls!Reels(root), under)
    <2>1. Cpls!HeaderDiagnostics(root, "CompositionPlaylist") = A /\ Cpls!RequiredText(root, path, "ContentTitleText") = B
      BY SameRequired
    <2>2. Cpls!Err("missing_required_field", under) = Legality!Err("missing_required_field", under)
      BY SameErrors
    <2>3. E = D
      <3> HIDE DEF under, reels, list
      <3> QED BY <1>2, <2>2, Zenon
    <2>4. Cpls!CplDiagnostics(root)
            = Cpls!HeaderDiagnostics(root, "CompositionPlaylist") \cup Cpls!RequiredText(root, path, "ContentTitleText")
              \cup C \cup E
      BY Zenon DEF Cpls!CplDiagnostics
    <2> HIDE DEF A, B, C, D, E, path
    <2> QED BY <2>1, <2>3, <2>4
  <1>4. Clean(A) <=> Legality!LegalHeader(root, "CompositionPlaylist")
    BY CleanHeader
  <1>5. Clean(B) <=> Legality!TextOf(root, "ContentTitleText") # <<>>
    BY CleanRequiredText
  <1>6. Clean(C) <=> Legality!RateText(Legality!TextOf(root, "EditRate"))
    BY CleanRate
  <1>7. Clean(D) <=> AllLegal
    <2>1. CASE list = Legality!NoNode
      <3>1. reels = <<>>
        BY <2>1, Zenon DEF Legality!Items, Legality!ItemsOf
      <3>2. D = {Legality!Err("missing_required_field", under)}
        BY <2>1
      <3> HIDE DEF D, under, reels
      <3> QED BY <3>1, <3>2, CleanFacts
    <2>2. CASE list # Legality!NoNode
      <3>1. D = Cpls!ReelListDiagnostics(reels, under)
        BY <2>2
      <3> HIDE DEF D, under, reels
      <3> QED BY <1>1, <3>1, CleanReels
    <2> QED BY <2>1, <2>2
  <1>8. Legality!LegalCpl(root) <=>
          /\ Legality!LegalHeader(root, "CompositionPlaylist")
          /\ Legality!TextOf(root, "ContentTitleText") # <<>>
          /\ Legality!RateText(Legality!TextOf(root, "EditRate"))
          /\ AllLegal
    BY Zenon DEF Legality!LegalCpl
  <1> HIDE DEF A, B, C, D, AllLegal
  <1>9. Clean(A \cup B \cup C \cup D) <=> Clean(A) /\ Clean(B) /\ Clean(C) /\ Clean(D)
    BY CleanFacts
  <1> QED BY <1>3, <1>4, <1>5, <1>6, <1>7, <1>8, <1>9

LEMMA ReelValue ==
  ASSUME NEW N, IsTree(N), NEW reel \in N, Legality!IdText(Legality!TextOf(reel, "Id")), Legality!LegalReel(reel)
  PROVE  LET entry == Cpls!ReelEntry(reel, Cpls!Child(reel, "AssetList"))
         IN entry \in CplReel /\ Present(entry.refs) # {}
  <1> DEFINE list == Legality!Child(reel, "AssetList")
             id == Cpls!NormalizedUuid(Cpls!TextOf(reel, "Id"))
             Ref(lane) == Cpls!Reference(Cpls!First(Cpls!Tracks(list, lane)))
             refs == [lane \in Lane |-> Ref(lane)]
             At(l) == Named(list, LaneName(l))
  <1>1. list \in N
    <2>1. list \in N \cup {Legality!NoNode}
      BY ChildFacts
    <2>2. list # Legality!NoNode
      BY Zenon DEF Legality!LegalReel
    <2> HIDE DEF list
    <2> QED BY <2>1, <2>2
  <1>2. Cpls!ReelEntry(reel, Cpls!Child(reel, "AssetList")) = [reel_id |-> id, refs |-> refs]
    <2>1. Cpls!Child(reel, "AssetList") = list
      BY SameLookups
    <2>2. Cpls!ReelEntry(reel, list) = [reel_id |-> id, refs |-> refs]
      <3> HIDE DEF list
      <3> QED BY LaneNames DEF Cpls!ReelEntry
    <2> HIDE DEF list, id, refs
    <2> QED BY <2>1, <2>2
  <1>3. id \in ReelId
    <2>1. id = Legality!NormalizedUuid(Legality!TextOf(reel, "Id"))
      BY SameLookups, SameTexts
    <2> HIDE DEF id
    <2> QED BY <2>1, LegalId
  <1>4. /\ \E l \in 1 .. 3 : At(l) # {}
        /\ SoundLanes(list)
    <2>1. Legality!LegalReel(reel) <=> LegalTracks(list)
      <3>1. list # Legality!NoNode /\ Legality!Child(reel, "AssetList") = list
        BY Zenon DEF Legality!LegalReel
      <3> HIDE DEF list
      <3> QED BY <1>1, <3>1, LegalReelFacts
    <2> HIDE DEF list
    <2> QED BY <1>1, <2>1, ByLanes
  <1> HIDE DEF list
  <1>5. ASSUME NEW l \in 1 .. 3
        PROVE  /\ At(l) = {} => Ref(Cpls!Lanes[l]) = None
               /\ At(l) # {} => Ref(Cpls!Lanes[l]) \in AssetReference /\ Ref(Cpls!Lanes[l]) # None
    <2> DEFINE track == Cpls!First(Legality!Children(list, LaneName(l)))
    <2>1. Ref(Cpls!Lanes[l]) = Cpls!Reference(track)
      <3>1. Cpls!Tracks(list, Cpls!Lanes[l]) = Legality!Children(list, LaneName(l))
        BY SameLookups DEF Cpls!Tracks, LaneName
      <3> QED BY <3>1
    <2>2. /\ \A i, j \in At(l) : i = j
          /\ \A i \in At(l) : Legality!IdText(IdWords(list, i)) /\ Legality!RateText(RateWords(list, i))
      BY <1>4 DEF SoundLanes
    <2> HIDE DEF track, Ref
    <2>3. /\ At(l) = {} => Cpls!Reference(track) = None
          /\ \A i \in At(l) : Cpls!Reference(track) \in AssetReference /\ Cpls!Reference(track) # None
      BY <1>1, <2>2, LaneValue DEF track
    <2> HIDE DEF At
    <2> QED BY <2>1, <2>3
  <1> HIDE DEF Ref, At
  <1>6. \A lane \in Lane : Ref(lane) \in Optional(AssetReference)
    <2> TAKE lane \in Lane
    <2>1. PICK l \in 1 .. 3 : Cpls!Lanes[l] = lane
      BY LaneNames
    <2> QED BY <1>5, <2>1 DEF Optional
  <1>7. refs \in [Lane -> Optional(AssetReference)]
    BY <1>6
  <1>8. Present(refs) # {}
    <2>1. PICK l \in 1 .. 3 : At(l) # {}
      BY <1>4
    <2>2. Cpls!Lanes[l] \in Lane /\ Ref(Cpls!Lanes[l]) # None
      BY <1>5, <2>1, LaneNames
    <2> QED BY <2>2 DEF Present
  <1> HIDE DEF refs, id
  <1>9. [reel_id |-> id, refs |-> refs] \in CplReel /\ [reel_id |-> id, refs |-> refs].refs = refs
    BY <1>3, <1>7 DEF CplReel
  <1> QED BY <1>2, <1>8, <1>9

\* Each reel has a lane.
Playable(reels) == reels # <<>> /\ \A k \in DOMAIN reels : Present(reels[k].refs) # {}

LEMMA PlaylistValue ==
  ASSUME NEW N, IsTree(N), NEW root \in N, Legality!LegalCpl(root)
  PROVE  LET value == Cpls!CompositionPlaylist(root)
         IN value \in ParsedPlaylist /\ Playable(value.reels)
  <1> DEFINE reels == Legality!Items(root, "ReelList", "Reel")
             n == Len(reels)
             Made(i) == Cpls!ReelEntry(reels[i], Cpls!Child(reels[i], "AssetList"))
             recorded == Cpls!ReelEntries(reels)
             value == Cpls!CompositionPlaylist(root)
             id == Cpls!NormalizedUuid(Cpls!TextOf(root, "Id"))
             rate == Cpls!EditRate(Cpls!TextOf(root, "EditRate"))
             flavor == Cpls!SchemaFlavor(root, "CompositionPlaylist")
  <1>1. /\ Legality!IdText(Legality!TextOf(root, "Id"))
        /\ Legality!RateText(Legality!TextOf(root, "EditRate"))
        /\ reels # <<>>
        /\ Legality!LegalIds(reels)
        /\ \A i \in DOMAIN reels : Legality!LegalReel(reels[i])
    BY Zenon DEF Legality!LegalCpl, Legality!LegalHeader
  <1>2. reels \in Seq(N)
    BY ItemsFacts
  <1>3. Cpls!Reels(root) = reels
    BY SameLookups DEF Cpls!Reels, Legality!Items
  <1> HIDE DEF reels
  <1>4. n \in Nat /\ DOMAIN reels = 1 .. n /\ n # 0 /\ \A i \in 1 .. n : reels[i] \in N
    BY <1>1, <1>2
  <1>5. \A i \in DOMAIN reels : Legality!IdText(Legality!TextOf(reels[i], "Id"))
    BY <1>1, <1>2, CleanIds
  <1> HIDE DEF n
  <1>6. \A i \in 1 .. n : Made(i) \in CplReel /\ Present(Made(i).refs) # {}
    BY <1>1, <1>4, <1>5, ReelValue
  <1>7. recorded = [i \in 1 .. n |-> Made(i)]
    BY <1>4 DEF Cpls!ReelEntries
  <1> HIDE DEF Made, recorded
  <1>8. recorded \in Seq(CplReel) /\ Playable(recorded)
    <2>1. recorded \in Seq(CplReel) /\ DOMAIN recorded = 1 .. n /\ \A i \in 1 .. n : recorded[i] = Made(i)
      BY <1>4, <1>6, <1>7
    <2>2. recorded # <<>>
      <3>1. 1 \in DOMAIN recorded
        BY <1>4, <2>1
      <3> QED BY <3>1
    <2> QED BY <1>6, <2>1, <2>2 DEF Playable
  <1>9. id \in Uuid
    <2>1. id = Legality!NormalizedUuid(Legality!TextOf(root, "Id"))
      BY SameLookups, SameTexts
    <2> HIDE DEF id
    <2> QED BY <1>1, <2>1, LegalId
  <1>10. rate \in Rate
    <2>1. Cpls!TextOf(root, "EditRate") = Legality!TextOf(root, "EditRate") /\ IsText(Legality!TextOf(root, "EditRate"))
      BY SameLookups, ChildFacts
    <2> QED BY <1>1, <2>1, RateFacts
  <1>11. flavor \in SchemaFlavor
    BY SameAttributes, FlavorFacts
  <1>12. value = [composition_id |-> id, schema_flavor |-> flavor, edit_rate |-> rate, reels |-> recorded]
    BY <1>3 DEF Cpls!CompositionPlaylist, recorded
  <1> HIDE DEF id, rate, flavor, value
  <1> QED BY <1>8, <1>9, <1>10, <1>11, <1>12 DEF ParsedPlaylist, value

\* Cpls!ParseCpl by what is read.
LEMMA ParsedPlaylistFacts ==
  ASSUME NEW N, IsTree(N), NEW read, read.root # Xml!NoNode => read.root \in N
  PROVE  LET result == Cpls!ParseCpl(read)
         IN /\ result.value # None <=> read.root # Xml!NoNode /\ Legality!LegalCpl(read.root)
            /\ result.value # None => result.value \in ParsedPlaylist /\ Playable(result.value.reels)
  <1> DEFINE root == read.root
             result == Cpls!ParseCpl(read)
             found == Cpls!CplDiagnostics(root)
             value == Cpls!CompositionPlaylist(root)
  <1>1. result.value = IF root = Xml!NoNode \/ root.name[2] # "CompositionPlaylist" THEN None
                       ELSE IF Clean(found) THEN value ELSE None
    <2> HIDE DEF root
    <2>1. Cpls!Ok(found) <=> Clean(found)
      BY Zenon DEF Cpls!Ok, Clean
    <2>2. \A v, d : Cpls!Result(v, d).value = v
      BY DEF Cpls!Result
    <2> QED BY <2>1, <2>2, Zenon DEF Cpls!ParseCpl, Cpls!Parsed, Cpls!Published, Cpls!NoNode, Xml!NoNode, root
  <1>2. CASE root = Xml!NoNode
    <2> HIDE DEF root, result
    <2> QED BY <1>1, <1>2 DEF root, result
  <1>3. CASE root # Xml!NoNode /\ root.name[2] # "CompositionPlaylist"
    <2>1. ~Legality!LegalCpl(root)
      BY <1>3, Zenon DEF Legality!LegalCpl, Legality!LegalHeader
    <2> HIDE DEF result, found, value
    <2> QED BY <1>1, <1>3, <2>1 DEF result
  <1>4. CASE root # Xml!NoNode /\ root.name[2] = "CompositionPlaylist"
    <2>1. Clean(found) <=> Legality!LegalCpl(root)
      <3> HIDE DEF root
      <3> QED BY <1>4, CleanCpl DEF root
    <2>2. Legality!LegalCpl(root) => value \in ParsedPlaylist /\ Playable(value.reels)
      <3> HIDE DEF root
      <3> QED BY <1>4, PlaylistValue DEF root
    <2>3. None \notin ParsedPlaylist
      BY ValuesAssumption
    <2> HIDE DEF result, found, value
    <2> QED BY <1>1, <1>4, <2>1, <2>2, <2>3 DEF result
  <1> QED BY <1>2, <1>3, <1>4

=============================================================================
