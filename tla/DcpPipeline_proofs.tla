------------------------- MODULE DcpPipeline_proofs -------------------------
(***************************************************************************)
(* Proofs about DcpPipeline, for every show, and about DcpLoad, for every  *)
(* set of documents. The lemmas about the documents go on with what the    *)
(* parsers report. Then the theorems of the three stages are instantiated  *)
(* for what one stage hands to the next: each call runs as its component   *)
(* does, so its inductive invariant holds while it runs and after it; what *)
(* the caller relies on follows from the three.                            *)
(***************************************************************************)
EXTENDS DcpLoad, DcpDocuments_proofs

-----------------------------------------------------------------------------
(* Paths                                                                    *)

\* Where a step of a path leads.
Below(node, step) ==
  IF node = Legality!NoNode THEN Legality!NoNode
  ELSE LET named == Legality!Children(node, step[2])
           k     == IF step[3] = 0 THEN 1 ELSE step[3]
       IN IF k \in DOMAIN named THEN named[k] ELSE Legality!NoNode

\* The recursive function of NodeAt, for the first n steps of path.
IsDescent(at, root, path, n) ==
  at = [i \in 1 .. n |->
          IF i = 1 THEN IF path[1] = Legality!Step(root.name[2]) THEN root ELSE Legality!NoNode
          ELSE Below(at[i - 1], path[i])]

LEMMA DescentExists ==
  ASSUME NEW root, NEW path, NEW n \in Nat
  PROVE  \E at : IsDescent(at, root, path, n)
  <1> DEFINE start == IF path[1] = Legality!Step(root.name[2]) THEN root ELSE Legality!NoNode
             P == {m \in 0 .. n : \E at : IsDescent(at, root, path, m)}
  <1>1. 0 \in P
    <2>1. IsDescent([i \in 1 .. 0 |-> start], root, path, 0)
      BY DEF IsDescent
    <2> QED BY <2>1
  <1>2. ASSUME NEW i \in 1 .. n, i - 1 \in P PROVE i \in P
    <2>1. PICK f : IsDescent(f, root, path, i - 1)
      BY <1>2
    <2> DEFINE g == [j \in 1 .. i |-> IF j = 1 THEN start ELSE Below(f[j - 1], path[j])]
    <2>2. f = [j \in 1 .. i - 1 |-> IF j = 1 THEN start ELSE Below(f[j - 1], path[j])]
      BY <2>1, Zenon DEF IsDescent
    <2> HIDE DEF start
    <2>3. ASSUME NEW j \in 1 .. i - 1 PROVE g[j] = f[j]
      BY <2>2
    <2>4. ASSUME NEW j \in 1 .. i
          PROVE  g[j] = IF j = 1 THEN start ELSE Below(g[j - 1], path[j])
      <3>1. j # 1 => g[j - 1] = f[j - 1]
        <4> HIDE DEF g
        <4> QED BY <2>3
      <3> QED BY <3>1
    <2>5. g = [j \in 1 .. i |-> g[j]]
      OBVIOUS
    <2> HIDE DEF g
    <2>6. g = [j \in 1 .. i |-> IF j = 1 THEN start ELSE Below(g[j - 1], path[j])]
      BY <2>4, <2>5
    <2>7. IsDescent(g, root, path, i)
      BY <2>6, Zenon DEF IsDescent, start
    <2> QED BY <2>7
  <1>3. n \in P
    <2> HIDE DEF P
    <2> QED BY <1>1, <1>2, Induction
  <1> QED BY <1>3

\* NodeAt takes the steps one by one.
LEMMA NodeAtFacts ==
  ASSUME NEW root, NEW path, IsSeq(path), path # <<>>
  PROVE  /\ path = <<Legality!Step(root.name[2])>> => Legality!NodeAt(root, path) = root
         /\ \A step : Legality!NodeAt(root, Append(path, step)) = Below(Legality!NodeAt(root, path), step)
  <1> DEFINE n == Len(path)
  <1>1. n \in Nat /\ n # 0 /\ DOMAIN path = 1 .. n
    BY SequenceFacts DEF IsSeq
  <1>2. ASSUME NEW q, q # <<>>
        PROVE  Legality!NodeAt(root, q) = (CHOOSE at : IsDescent(at, root, q, Len(q)))[Len(q)]
    BY <1>2, Zenon DEF Legality!NodeAt, IsDescent, Below
  <1>3. ASSUME NEW q, Len(q) \in Nat
        PROVE  IsDescent(CHOOSE at : IsDescent(at, root, q, Len(q)), root, q, Len(q))
    <2>1. \E at : IsDescent(at, root, q, Len(q))
      BY <1>3, DescentExists
    <2> QED BY <2>1, Zenon
  <1> DEFINE f == CHOOSE at : IsDescent(at, root, path, Len(path))
  <1>4. IsDescent(f, root, path, n) /\ Legality!NodeAt(root, path) = f[n]
    BY <1>1, <1>2, <1>3
  <1> HIDE DEF f
  <1>5. path = <<Legality!Step(root.name[2])>> => Legality!NodeAt(root, path) = root
    <2> DEFINE name == Legality!Step(root.name[2])
    <2>1. path = <<name>> => n = 1 /\ path[1] = name
      <3> HIDE DEF name
      <3> QED OBVIOUS
    <2> QED BY <1>4, <2>1 DEF IsDescent
  <1>6. ASSUME NEW step
        PROVE  Legality!NodeAt(root, Append(path, step)) = Below(Legality!NodeAt(root, path), step)
    <2> DEFINE q == Append(path, step)
               g == CHOOSE at : IsDescent(at, root, q, Len(q))
    <2>1. q # <<>> /\ Len(q) = n + 1 /\ q[n + 1] = step /\ \A i \in 1 .. n : q[i] = path[i]
      BY <1>1 DEF IsSeq
    <2> HIDE DEF q
    <2>2. IsDescent(g, root, q, n + 1) /\ Legality!NodeAt(root, q) = g[n + 1]
      BY <1>1, <1>2, <1>3, <2>1
    <2> HIDE DEF g, n
    <2> DEFINE P == {i \in 0 .. n : i # 0 => g[i] = f[i]}
    <2>3. 0 \in P
      BY <1>1
    <2>4. ASSUME NEW i \in 1 .. n, i - 1 \in P PROVE i \in P
      <3>1. CASE i = 1
        BY <1>1, <1>4, <2>1, <2>2, <3>1 DEF IsDescent
      <3>2. CASE i # 1
        <4>1. g[i - 1] = f[i - 1] /\ q[i] = path[i]
          BY <2>1, <2>4, <3>2
        <4>2. g[i] = Below(g[i - 1], q[i]) /\ f[i] = Below(f[i - 1], path[i])
          BY <1>1, <1>4, <2>2, <3>2 DEF IsDescent
        <4> QED BY <4>1, <4>2
      <3> QED BY <3>1, <3>2
    <2>5. n \in P
      <3> HIDE DEF P
      <3>1. \A i \in 0 .. n : i \in P
        BY <1>1, <2>3, <2>4, Induction, Zenon
      <3> QED BY <1>1, <3>1
    <2>6. g[n + 1] = Below(g[n], q[n + 1])
      BY <1>1, <2>2 DEF IsDescent
    <2> QED BY <1>1, <1>4, <2>1, <2>2, <2>5, <2>6 DEF q
  <1> QED BY <1>5, <1>6

\* path leads from the name of the root to node.
Reaches(root, path, node) == IsSeq(path) /\ path # <<>> /\ Legality!NodeAt(root, path) = node

LEMMA ReachesRoot ==
  ASSUME NEW root
  PROVE  Reaches(root, <<Legality!Step(root.name[2])>>, root)
  <1> DEFINE name == Legality!Step(root.name[2])
  <1>1. IsSeq(<<name>>) /\ <<name>> # <<>>
    <2> HIDE DEF name
    <2>1. <<name>> \in Seq({name})
      OBVIOUS
    <2> QED BY <2>1, SequenceOf
  <1> QED BY <1>1, NodeAtFacts, Zenon DEF Reaches

LEMMA LongerPath ==
  ASSUME NEW path, IsSeq(path), NEW step
  PROVE  /\ IsSeq(Append(path, step)) /\ Append(path, step) # <<>>
         /\ Legality!Front(Append(path, step)) = path
         /\ Legality!Last(Append(path, step)) = step
  <1> DEFINE S == Elements(path) \cup {step}
             q == Append(path, step)
  <1>1. path \in Seq(S)
    BY DEF IsSeq
  <1> HIDE DEF S
  <1>2. step \in S
    BY DEF S
  <1>3. q \in Seq(S) /\ Len(q) = Len(path) + 1 /\ q[Len(q)] = step /\ \A i \in 1 .. Len(path) : q[i] = path[i]
    BY <1>1, <1>2
  <1>4. IsSeq(q) /\ q # <<>>
    <2>1. q # <<>>
      BY <1>3
    <2> HIDE DEF q
    <2> QED BY <1>3, <2>1, SequenceOf
  <1>5. SubSeq(q, 1, Len(q) - 1) = path
    BY <1>1, <1>3
  <1> QED BY <1>3, <1>4, <1>5 DEF Legality!Front, Legality!Last

LEMMA NoNodeFacts ==
  ASSUME NEW N, IsTree(N)
  PROVE  Legality!NoNode \notin N
  <1> SUFFICES ASSUME Legality!NoNode \in N PROVE FALSE
    OBVIOUS
  <1>1. IsNode(N, Legality!NoNode)
    BY DEF IsTree
  <1> QED BY <1>1 DEF IsNode, Legality!NoNode, Xml!Node

\* The child of a name, and the items of a list in it.
LEMMA ReachesBelow ==
  ASSUME NEW N, IsTree(N), NEW root, NEW node \in N, NEW path, Reaches(root, path, node), NEW name
  PROVE  /\ Reaches(root, Legality!Under(path, name), Legality!Child(node, name))
         /\ \A k \in DOMAIN Legality!Children(node, name) :
              Reaches(root, Legality!Nth(path, name, k), Legality!Children(node, name)[k])
  <1> DEFINE named == Legality!Children(node, name)
  <1>1. named \in Seq(N) /\ node # Legality!NoNode
    BY ChildFacts, NoNodeFacts
  <1>2. \A step : /\ IsSeq(Append(path, step)) /\ Append(path, step) # <<>>
                  /\ Legality!NodeAt(root, Append(path, step)) = Below(node, step)
    BY LongerPath, NodeAtFacts DEF Reaches
  <1>3. Below(node, Legality!Step(name)) = Legality!Child(node, name)
    <2> DEFINE step == Legality!Step(name)
    <2>1. step[2] = name /\ step[3] = 0
      BY DEF Legality!Step
    <2> HIDE DEF step
    <2>2. Below(node, step) = IF 1 \in DOMAIN named THEN named[1] ELSE Legality!NoNode
      BY <1>1, <2>1 DEF Below
    <2>3. Legality!Child(node, name) = IF named = <<>> THEN Legality!NoNode ELSE named[1]
      BY DEF Legality!Child, Legality!First
    <2> HIDE DEF named
    <2>4. 1 \in DOMAIN named <=> named # <<>>
      BY <1>1
    <2> QED BY <2>2, <2>3, <2>4 DEF step
  <1>4. ASSUME NEW k \in DOMAIN named PROVE Below(node, <<"", name, k>>) = named[k]
    <2>1. k # 0
      <3> HIDE DEF named
      <3> QED BY <1>1
    <2> QED BY <1>1, <2>1 DEF Below
  <1> HIDE DEF named
  <1> QED BY <1>2, <1>3, <1>4, Zenon DEF Reaches, Legality!Under, Legality!Nth, named

LEMMA ReachesItem ==
  ASSUME NEW N, IsTree(N), NEW root, NEW node \in N, NEW path, Reaches(root, path, node), NEW list, NEW item
  PROVE  LET items == Legality!Items(node, list, item)
         IN /\ items \in Seq(N)
            /\ \A i \in DOMAIN items :
                 items[i] \in N /\ Reaches(root, Legality!Nth(Legality!Under(path, list), item, i), items[i])
  <1> DEFINE found == Legality!Child(node, list)
             items == Legality!Items(node, list, item)
             under == Legality!Under(path, list)
  <1>1. found \in N \cup {Legality!NoNode} /\ items \in Seq(N) /\ Reaches(root, under, found)
    BY ChildFacts, ItemsFacts, ReachesBelow
  <1>2. items = IF found = Legality!NoNode THEN <<>> ELSE Legality!Children(found, item)
    BY DEF Legality!Items, Legality!ItemsOf
  <1> HIDE DEF found, items, under
  <1>3. ASSUME NEW i \in DOMAIN items PROVE items[i] \in N /\ Reaches(root, Legality!Nth(under, item, i), items[i])
    <2>1. items # <<>> /\ items[i] \in N
      BY <1>1
    <2>2. found \in N /\ items = Legality!Children(found, item)
      BY <1>1, <1>2, <2>1
    <2>3. \A k \in DOMAIN Legality!Children(found, item) :
              Reaches(root, Legality!Nth(under, item, k), Legality!Children(found, item)[k])
      BY <1>1, <2>2, ReachesBelow
    <2> QED BY <2>1, <2>2, <2>3
  <1> QED BY <1>1, <1>3 DEF items, under

\* A diagnostic about a place in parent.
LEMMA Tells ==
  ASSUME NEW root, NEW path, NEW parent, Reaches(root, path, parent), NEW step,
         NEW d, d.path = Append(path, step)
  PROVE  Legality!TellsOf(d, root) <=> Legality!HasDefect(d, Legality!NodeAt(root, Append(path, step)), parent)
  <1>1. Legality!Front(Append(path, step)) = path
    BY LongerPath DEF Reaches
  <1> QED BY <1>1, Zenon DEF Legality!TellsOf, Reaches

Told(diagnostics, root) == \A d \in diagnostics : Legality!TellsOf(d, root)

LEMMA ToldFacts ==
  ASSUME NEW root
  PROVE  /\ \A A, B : Told(A \cup B, root) <=> Told(A, root) /\ Told(B, root)
         /\ \A A, B, C : Told(A \cup B \cup C, root) <=> Told(A, root) /\ Told(B, root) /\ Told(C, root)
         /\ \A A, B, C, D :
              Told(A \cup B \cup C \cup D, root) <=> Told(A, root) /\ Told(B, root) /\ Told(C, root) /\ Told(D, root)
         /\ \A X : Told(UNION X, root) <=> \A D \in X : Told(D, root)
         /\ Told({}, root)
         /\ \A d : Told({d}, root) <=> Legality!TellsOf(d, root)
  <1>1. \A A, B : Told(A \cup B, root) <=> Told(A, root) /\ Told(B, root)
    BY Zenon DEF Told
  <1>2. \A A, B, C : Told(A \cup B \cup C, root) <=> Told(A, root) /\ Told(B, root) /\ Told(C, root)
    <2> TAKE A, B, C
    <2>1. Told(A \cup B \cup C, root) <=> Told(A \cup B, root) /\ Told(C, root)
      BY <1>1
    <2> QED BY <1>1, <2>1
  <1>3. \A A, B, C, D :
          Told(A \cup B \cup C \cup D, root) <=> Told(A, root) /\ Told(B, root) /\ Told(C, root) /\ Told(D, root)
    <2> TAKE A, B, C, D
    <2>1. Told(A \cup B \cup C \cup D, root) <=> Told(A \cup B \cup C, root) /\ Told(D, root)
      BY <1>1
    <2> QED BY <1>2, <2>1
  <1>4. /\ \A X : Told(UNION X, root) <=> \A D \in X : Told(D, root)
        /\ Told({}, root)
        /\ \A d : Told({d}, root) <=> Legality!TellsOf(d, root)
    BY Zenon DEF Told
  <1> QED BY <1>1, <1>2, <1>3, <1>4

\* The codes that complain of a node without saying what is wrong with its text.
OfNodes == {"unsupported_namespace", "invalid_integer", "invalid_digest_value", "duplicate_asset_id", "duplicate_reel_id",
            "duplicate_chunk_entry", "duplicate_asset_reference"}

LEMMA ErrFacts ==
  ASSUME NEW code, NEW path
  PROVE  Legality!Err(code, path).path = path /\ Legality!Err(code, path).code = code
  BY DEF Legality!Err, Legality!Diagnostic

LEMMA DefectOfNode ==
  ASSUME NEW d, d.code \in OfNodes, NEW node, NEW parent
  PROVE  Legality!HasDefect(d, node, parent) <=> node # Legality!NoNode
  BY DEF Legality!HasDefect, OfNodes

LEMMA DefectOfPlace ==
  ASSUME NEW d, NEW node, NEW parent, parent # Legality!NoNode
  PROVE  /\ d.code = "missing_required_field" /\ Legality!WordsOf(node) = <<>> => Legality!HasDefect(d, node, parent)
         /\ d.code = "invalid_digest_algorithm" => Legality!HasDefect(d, node, parent)
  <1>1. Legality!WordsOf(node) = <<>> => node = Legality!NoNode \/ node.words = <<>>
    BY DEF Legality!WordsOf
  <1>2. d.code = "missing_required_field" => (Legality!HasDefect(d, node, parent) <=>
          parent # Legality!NoNode /\ (node = Legality!NoNode \/ node.words = <<>>))
    BY DEF Legality!HasDefect
  <1>3. d.code = "invalid_digest_algorithm" => (Legality!HasDefect(d, node, parent) <=> parent # Legality!NoNode)
    BY DEF Legality!HasDefect
  <1> QED BY <1>1, <1>2, <1>3

\* What code says of a text.
Wrong(code, text) ==
  \/ code = "invalid_uuid" /\ ~Legality!IdText(text)
  \/ code = "invalid_time" /\ ~Legality!TimeText(text)
  \/ code = "invalid_edit_rate" /\ ~Legality!RateText(text)
  \/ code = "invalid_relative_path" /\ ~Legality!PathText(text)
  \/ code = "invalid_integer"

LEMMA DefectOfText ==
  ASSUME NEW d, NEW node, node # Legality!NoNode, NEW parent, Wrong(d.code, node.words)
  PROVE  Legality!HasDefect(d, node, parent)
  <1>1. CASE d.code = "invalid_uuid" /\ ~Legality!IdText(node.words)
    BY <1>1 DEF Legality!HasDefect
  <1>2. CASE d.code = "invalid_time" /\ ~Legality!TimeText(node.words)
    BY <1>2 DEF Legality!HasDefect
  <1>3. CASE d.code = "invalid_edit_rate" /\ ~Legality!RateText(node.words)
    BY <1>3 DEF Legality!HasDefect
  <1>4. CASE d.code = "invalid_relative_path" /\ ~Legality!PathText(node.words)
    BY <1>4 DEF Legality!HasDefect
  <1>5. CASE d.code = "invalid_integer"
    BY <1>5, DefectOfNode DEF OfNodes
  <1> QED BY <1>1, <1>2, <1>3, <1>4, <1>5 DEF Wrong

\* A diagnostic about a node that is there.
LEMMA ToldNode ==
  ASSUME NEW N, IsTree(N), NEW root, NEW path, NEW step, NEW node \in N, NEW code \in OfNodes,
         Reaches(root, Append(path, step), node), NEW d, d.path = Append(path, step), d.code = code
  PROVE  Legality!TellsOf(d, root)
  <1>1. node # Legality!NoNode
    BY NoNodeFacts
  <1> QED BY <1>1, DefectOfNode DEF Legality!TellsOf, Reaches

\* A required text is missing, or there and wrong.
LEMMA ToldText ==
  ASSUME NEW N, IsTree(N), NEW root, NEW node \in N, NEW path, Reaches(root, path, node), NEW name,
         NEW legal, NEW code,
         Legality!TextOf(node, name) # <<>> /\ ~legal => Wrong(code, Legality!TextOf(node, name))
  PROVE  Told(Checked(Legality!TextOf(node, name), Legality!Under(path, name), legal, code), root)
  <1> DEFINE text == Legality!TextOf(node, name)
             found == Legality!Child(node, name)
             under == Legality!Under(path, name)
  <1>1. node # Legality!NoNode /\ text = Legality!WordsOf(found)
    BY NoNodeFacts DEF Legality!TextOf
  <1>2. ASSUME NEW d, d.path = under PROVE Legality!TellsOf(d, root) <=> Legality!HasDefect(d, found, node)
    <2>1. under = Append(path, Legality!Step(name)) /\ Legality!NodeAt(root, under) = found
      BY ReachesBelow DEF Reaches, Legality!Under
    <2> HIDE DEF found
    <2> QED BY <1>2, <2>1, Tells
  <1>3. CASE text = <<>>
    <2> DEFINE d == Legality!Err("missing_required_field", under)
    <2>1. d.path = under /\ d.code = "missing_required_field"
      BY ErrFacts
    <2> HIDE DEF d, found
    <2>2. Legality!HasDefect(d, found, node)
      BY <1>1, <1>3, <2>1, DefectOfPlace
    <2>3. Checked(text, under, legal, code) = {d}
      BY <1>3, Zenon DEF Checked, d
    <2> HIDE DEF under, text
    <2>4. Legality!TellsOf(d, root)
      BY <1>2, <2>1, <2>2
    <2>5. Told(Checked(text, under, legal, code), root)
      BY <2>3, <2>4, ToldFacts
    <2> QED BY <2>5 DEF text, under
  <1>4. CASE text # <<>> /\ ~legal
    <2> DEFINE d == Legality!Err(code, under)
    <2>1. d.path = under /\ d.code = code
      BY ErrFacts
    <2>2. found # Legality!NoNode /\ text = found.words
      BY <1>1, <1>4 DEF Legality!WordsOf
    <2>3. Checked(text, under, legal, code) = {d}
      BY <1>4, Zenon DEF Checked, d
    <2>4. Wrong(code, text)
      BY <1>4
    <2> HIDE DEF d, found, under, text
    <2>5. Legality!HasDefect(d, found, node)
      BY <2>1, <2>2, <2>4, DefectOfText
    <2>6. Legality!TellsOf(d, root)
      BY <1>2, <2>1, <2>5
    <2>7. Told(Checked(text, under, legal, code), root)
      BY <2>3, <2>6, ToldFacts
    <2> QED BY <2>7 DEF text, under
  <1>5. CASE text # <<>> /\ legal
    <2>1. Checked(text, under, legal, code) = {}
      BY <1>5, Zenon DEF Checked
    <2> HIDE DEF under, text
    <2>2. Told(Checked(text, under, legal, code), root)
      BY <2>1, ToldFacts
    <2> QED BY <2>2 DEF text, under
  <1> QED BY <1>3, <1>4, <1>5

LEMMA ToldId ==
  ASSUME NEW N, IsTree(N), NEW root, NEW node \in N, NEW path, Reaches(root, path, node)
  PROVE  Told(Legality!RequiredId(node, path), root)
  <1> DEFINE text == Legality!TextOf(node, "Id")
             legal == Legality!NormalizedUuid(text) # None
  <1>1. Legality!RequiredId(node, path) = Checked(text, Legality!Under(path, "Id"), legal, "invalid_uuid")
    BY Zenon DEF Legality!RequiredId, Legality!Required, Legality!RequiredWords, Legality!IsUuid, Legality!Reports, Checked
  <1>2. IsText(text)
    BY ChildFacts
  <1>3. ~legal => Wrong("invalid_uuid", text)
    <2> HIDE DEF text
    <2> QED BY <1>2, IdFacts DEF Wrong
  <1> HIDE DEF legal
  <1>4. Told(Checked(text, Legality!Under(path, "Id"), legal, "invalid_uuid"), root)
    BY <1>3, ToldText
  <1> QED BY <1>1, <1>4

LEMMA ToldRequiredText ==
  ASSUME NEW N, IsTree(N), NEW root, NEW node \in N, NEW path, Reaches(root, path, node), NEW name
  PROVE  Told(Legality!RequiredText(node, path, name), root)
  <1>1. Legality!RequiredText(node, path, name)
          = Checked(Legality!TextOf(node, name), Legality!Under(path, name), TRUE, "")
    BY Zenon DEF Legality!RequiredText, Legality!Required, Legality!RequiredWords, Legality!Reports, Checked
  <1>2. Told(Checked(Legality!TextOf(node, name), Legality!Under(path, name), TRUE, ""), root)
    BY ToldText, Zenon
  <1> QED BY <1>1, <1>2, Zenon

LEMMA ToldReports ==
  ASSUME NEW root, NEW condition, NEW d, condition => Legality!TellsOf(d, root)
  PROVE  Told(Legality!Reports(condition, d), root)
  BY Zenon DEF Told, Legality!Reports

LEMMA ToldHeader ==
  ASSUME NEW N, IsTree(N), NEW root \in N, NEW name
  PROVE  Told(Legality!HeaderDiagnostics(root, name), root)
  <1> DEFINE path == <<Legality!Step(root.name[2])>>
             date == Legality!TextOf(root, "IssueDate")
             legal == Legality!IsValidUtcTimestamp(date)
             d == Legality!Diagnostic("unsupported_namespace", "warning", path)
             unknown == Legality!SchemaFlavor(root, name) = "unknown"
             A == Legality!Reports(unknown, d)
             B == Legality!RequiredId(root, path)
             C == Legality!RequiredText(root, path, "Issuer")
             D == Checked(date, Legality!Under(path, "IssueDate"), legal, "invalid_time")
  <1>1. Legality!HeaderDiagnostics(root, name) = A \cup B \cup C \cup D
    BY Zenon DEF Legality!HeaderDiagnostics, Legality!Required, Legality!RequiredWords, Legality!Reports, Checked
  <1>2. Reaches(root, path, root)
    BY ReachesRoot
  <1>3. Told(A, root)
    <2>1. d.path = path /\ d.code = "unsupported_namespace"
      BY DEF Legality!Diagnostic
    <2>2. d.code \in OfNodes /\ root # Legality!NoNode
      BY <2>1, NoNodeFacts DEF OfNodes
    <2> HIDE DEF d, path, unknown
    <2>3. Legality!TellsOf(d, root)
      BY <1>2, <2>1, <2>2, DefectOfNode DEF Legality!TellsOf, Reaches
    <2> QED BY <2>3, ToldReports
  <1> HIDE DEF path
  <1>4. Told(B, root) /\ Told(C, root)
    BY <1>2, ToldId, ToldRequiredText
  <1>5. Told(D, root)
    <2>1. IsText(date)
      BY ChildFacts
    <2>2. ~legal => Wrong("invalid_time", date)
      <3> HIDE DEF date
      <3> QED BY <2>1, TimeFacts DEF Wrong
    <2> HIDE DEF legal
    <2> QED BY <1>2, <2>2, ToldText
  <1> HIDE DEF A, B, C, D
  <1>6. Told(A \cup B \cup C \cup D, root)
    BY <1>3, <1>4, <1>5, ToldFacts
  <1> QED BY <1>1, <1>6

\* An id that was there before.
LEMMA ToldIds ==
  ASSUME NEW N, IsTree(N), NEW root, NEW nodes \in Seq(N), NEW path, NEW name,
         \A k \in DOMAIN nodes : Reaches(root, Legality!Nth(path, name, k), nodes[k]), NEW code \in OfNodes
  PROVE  Told(Legality!DuplicateIds(nodes, path, name, code), root)
  <1> DEFINE keys == Legality!Uuids(nodes)
             Place(k) == Legality!Under(Legality!Nth(path, name, k), "Id")
  <1>1. Legality!DuplicateIds(nodes, path, name, code) = {Legality!Err(code, Place(k)) : k \in Legality!Repeats(keys)}
    BY Zenon DEF Legality!DuplicateIds
  <1>2. ASSUME NEW k \in Legality!Repeats(keys) PROVE Legality!TellsOf(Legality!Err(code, Place(k)), root)
    <2> DEFINE text == Legality!TextOf(nodes[k], "Id")
               found == Legality!Child(nodes[k], "Id")
    <2>1. k \in DOMAIN nodes /\ Legality!NormalizedUuid(text) # None
      BY <1>2 DEF Legality!Repeats, Legality!Uuids
    <2>2. text # <<>>
      <3> HIDE DEF text
      <3> QED BY <2>1 DEF Legality!NormalizedUuid, Legality!Is
    <2>3. nodes[k] \in N /\ found \in N \cup {Legality!NoNode}
      BY <2>1, ChildFacts
    <2>4. found \in N
      BY <2>2, <2>3 DEF Legality!TextOf, Legality!WordsOf
    <2>5. Reaches(root, Place(k), found)
      BY <2>1, <2>3, ReachesBelow
    <2>6. Place(k) = Append(Legality!Nth(path, name, k), Legality!Step("Id"))
      BY DEF Legality!Under
    <2>7. Legality!Err(code, Place(k)).path = Place(k) /\ Legality!Err(code, Place(k)).code = code
      BY ErrFacts
    <2> HIDE DEF found, Place
    <2> QED BY <2>4, <2>5, <2>6, <2>7, ToldNode
  <1> HIDE DEF Place, keys
  <1> QED BY <1>1, <1>2 DEF Told

\* A required element is missing.
LEMMA ToldMissing ==
  ASSUME NEW N, IsTree(N), NEW root, NEW node \in N, NEW path, Reaches(root, path, node), NEW name,
         Legality!Child(node, name) = Legality!NoNode
  PROVE  Legality!TellsOf(Legality!Err("missing_required_field", Legality!Under(path, name)), root)
  <1> DEFINE under == Legality!Under(path, name)
             d == Legality!Err("missing_required_field", under)
  <1>1. d.path = under /\ d.code = "missing_required_field"
    BY ErrFacts
  <1>2. under = Append(path, Legality!Step(name)) /\ Legality!NodeAt(root, under) = Legality!NoNode
    BY ReachesBelow DEF Reaches, Legality!Under
  <1>3. node # Legality!NoNode /\ Legality!WordsOf(Legality!NoNode) = <<>>
    BY NoNodeFacts DEF Legality!WordsOf
  <1> HIDE DEF under, d
  <1>4. Legality!HasDefect(d, Legality!NoNode, node)
    BY <1>1, <1>3, DefectOfPlace
  <1>5. Legality!TellsOf(d, root)
    BY <1>1, <1>2, <1>4, Tells
  <1> QED BY <1>5 DEF d, under

-----------------------------------------------------------------------------
(* Diagnostics of packing lists                                             *)

LEMMA ToldHash ==
  ASSUME NEW N, IsTree(N), NEW root, NEW asset \in N, NEW path, Reaches(root, path, asset)
  PROVE  Told(PackingLists!HashDiagnostics(Legality!Child(asset, "Hash"), Legality!Under(path, "Hash")), root)
  <1> DEFINE hash == Legality!Child(asset, "Hash")
             under == Legality!Under(path, "Hash")
             ds == PackingLists!HashDiagnostics(hash, under)
  <1>1. hash \in N \cup {Legality!NoNode} /\ Reaches(root, under, hash) /\ under = Append(path, Legality!Step("Hash"))
    BY ChildFacts, ReachesBelow DEF Legality!Under
  <1>2. CASE hash = Legality!NoNode
    <2>1. ds = {Legality!Err("missing_required_field", under)}
      <3> HIDE DEF hash, under
      <3> QED BY <1>2, SameErrors, Zenon DEF PackingLists!HashDiagnostics
    <2>2. Legality!TellsOf(Legality!Err("missing_required_field", under), root)
      BY <1>2, ToldMissing
    <2> HIDE DEF ds, under
    <2>3. Told(ds, root)
      BY <2>1, <2>2, ToldFacts
    <2> QED BY <2>3 DEF ds, under
  <1>3. CASE hash # Legality!NoNode
    <2> DEFINE bytes == PackingLists!Algorithm(PackingLists!FindAttribute(hash, <<"", "Algorithm">>))
               fits == PackingLists!DigestFits(hash.words, bytes)
               step == PackingLists!AttributeStep(<<"", "Algorithm">>)
               d == Legality!Err("invalid_digest_algorithm", Append(under, step))
               e == Legality!Err("invalid_digest_value", under)
    <2>1. ds = Legality!Reports(bytes = 0, d) \cup Legality!Reports(~fits, e)
      <3>1. hash # PackingLists!NoNode
        BY <1>3, Zenon DEF PackingLists!NoNode, Legality!NoNode
      <3> QED BY <3>1, Zenon DEF PackingLists!HashDiagnostics, PackingLists!DigestDiagnostics,
                 PackingLists!Err, Legality!Err, PackingLists!Diagnostic, Legality!Diagnostic,
                 PackingLists!Reports, Legality!Reports
    <2>2. /\ d.path = Append(under, step) /\ d.code = "invalid_digest_algorithm"
          /\ e.path = under /\ e.code = "invalid_digest_value"
      BY ErrFacts, Zenon
    <2>3. hash \in N
      BY <1>1, <1>3
    <2> HIDE DEF bytes, fits, step, d, e, hash, under, ds
    <2>4. Legality!TellsOf(d, root)
      <3>1. Legality!HasDefect(d, Legality!NodeAt(root, Append(under, step)), hash)
        BY <1>3, <2>2, DefectOfPlace
      <3> QED BY <1>1, <2>2, <3>1, Tells
    <2>5. Legality!TellsOf(e, root)
      <3>1. "invalid_digest_value" \in OfNodes
        BY DEF OfNodes
      <3> QED BY <1>1, <2>2, <2>3, <3>1, ToldNode
    <2> DEFINE A == Legality!Reports(bytes = 0, d)
               B == Legality!Reports(~fits, e)
    <2>6. Told(A, root) /\ Told(B, root)
      BY <2>4, <2>5, ToldReports
    <2> HIDE DEF A, B
    <2>7. Told(A \cup B, root)
      BY <2>6, ToldFacts
    <2> QED BY <2>1, <2>7 DEF A, B, ds, hash, under
  <1> QED BY <1>2, <1>3

LEMMA ToldListed ==
  ASSUME NEW N, IsTree(N), NEW root, NEW asset \in N, NEW path, Reaches(root, path, asset)
  PROVE  Told(PackingLists!AssetDiagnostics(asset, path), root)
  <1> DEFINE text == PackingLists!TextOf(asset, "Size")
             legal == PackingLists!Positive(text, MaxUint64) # None
             hash == Legality!Child(asset, "Hash")
             A == Legality!RequiredId(asset, path)
             B == Legality!RequiredText(asset, path, "Type")
             C == Checked(text, Legality!Under(path, "Size"), legal, "invalid_integer")
             D == PackingLists!HashDiagnostics(hash, Legality!Under(path, "Hash"))
  <1>1. PackingLists!AssetDiagnostics(asset, path) = A \cup B \cup C \cup D
    <2>1. PackingLists!RequiredId(asset, path) = A /\ PackingLists!RequiredText(asset, path, "Type") = B
      BY SameRequired
    <2>2. PackingLists!Child(asset, "Hash") = hash /\ PackingLists!Under(path, "Hash") = Legality!Under(path, "Hash")
      BY SameLookups, SameErrors
    <2> DEFINE under == PackingLists!Under(path, "Size")
               E == IF text = <<>> THEN {PackingLists!Err("missing_required_field", under)}
                    ELSE PackingLists!Reports(~legal, PackingLists!Err("invalid_integer", under))
    <2>3. PackingLists!AssetDiagnostics(asset, path)
            = PackingLists!RequiredId(asset, path) \cup PackingLists!RequiredText(asset, path, "Type") \cup E
              \cup PackingLists!HashDiagnostics(PackingLists!Child(asset, "Hash"), PackingLists!Under(path, "Hash"))
      BY DEF PackingLists!AssetDiagnostics, PackingLists!Required, PackingLists!RequiredWords
    <2>4. E = C
      <3> HIDE DEF text, legal
      <3> QED BY Zenon DEF Checked, Legality!Reports, PackingLists!Reports, Legality!Err, PackingLists!Err,
              Legality!Diagnostic, PackingLists!Diagnostic, Legality!Under, PackingLists!Under, Legality!Step, PackingLists!Step
    <2> HIDE DEF A, B, C, E, hash
    <2> QED BY <2>1, <2>2, <2>3, <2>4 DEF D
  <1>2. Told(A, root) /\ Told(B, root)
    BY ToldId, ToldRequiredText
  <1>3. Told(C, root)
    <2>1. text = Legality!TextOf(asset, "Size")
      BY SameLookups
    <2> HIDE DEF legal
    <2>2. Told(Checked(Legality!TextOf(asset, "Size"), Legality!Under(path, "Size"), legal, "invalid_integer"), root)
      BY ToldText DEF Wrong
    <2> HIDE DEF text
    <2> QED BY <2>1, <2>2
  <1>4. Told(D, root)
    BY ToldHash
  <1> HIDE DEF A, B, C, D
  <1>5. Told(A \cup B \cup C \cup D, root)
    BY <1>2, <1>3, <1>4, ToldFacts
  <1> QED BY <1>1, <1>5

LEMMA ToldPackingList ==
  ASSUME NEW N, IsTree(N), NEW root \in N, root.name[2] = "PackingList"
  PROVE  Told(PackingLists!PackingListDiagnostics(root), root)
  <1> DEFINE path == <<Legality!Step("PackingList")>>
             list == <<PackingLists!Step("PackingList"), PackingLists!Step("AssetList")>>
             assets == Legality!Items(root, "AssetList", "Asset")
             missing == Legality!Child(root, "AssetList") = Legality!NoNode
             d == Legality!Err("missing_required_field", list)
             Each(i) == PackingLists!AssetDiagnostics(assets[i], PackingLists!Nth(list, "Asset", i))
             A == Legality!HeaderDiagnostics(root, "PackingList")
             B == Legality!Reports(missing, d)
             C == UNION {Each(i) : i \in DOMAIN assets}
             D == Legality!DuplicateIds(assets, list, "Asset", "duplicate_asset_id")
  <1>1. Reaches(root, path, root)
    BY ReachesRoot
  <1>2. list = Legality!Under(path, "AssetList")
    <2>1. list = <<Legality!Step("PackingList"), Legality!Step("AssetList")>>
      BY Zenon DEF Legality!Step, PackingLists!Step
    <2> HIDE DEF list
    <2> QED BY <2>1 DEF Legality!Under
  <1> HIDE DEF path, list
  <1>3. /\ assets \in Seq(N)
        /\ \A i \in DOMAIN assets : assets[i] \in N /\ Reaches(root, Legality!Nth(list, "Asset", i), assets[i])
    <2>1. LET items == Legality!Items(root, "AssetList", "Asset")
          IN /\ items \in Seq(N)
             /\ \A i \in DOMAIN items :
                  items[i] \in N /\ Reaches(root, Legality!Nth(Legality!Under(path, "AssetList"), "Asset", i), items[i])
      BY <1>1, ReachesItem
    <2> QED BY <1>2, <2>1
  <1>4. PackingLists!PackingListDiagnostics(root) = A \cup B \cup (C \cup D)
    <2>1. PackingLists!HeaderDiagnostics(root, "PackingList") = A
      BY SameRequired
    <2>2. PackingLists!Reports(PackingLists!Child(root, "AssetList") = PackingLists!NoNode,
                               PackingLists!Err("missing_required_field", list)) = B
      <3>1. PackingLists!Child(root, "AssetList") = Legality!Child(root, "AssetList")
        BY SameLookups
      <3> QED BY <3>1, Zenon DEF PackingLists!Reports, Legality!Reports, PackingLists!Err, Legality!Err,
              PackingLists!Diagnostic, Legality!Diagnostic, PackingLists!NoNode, Legality!NoNode
    <2>3. PackingLists!Assets(root) = assets
      BY SameLookups DEF PackingLists!Assets, Legality!Items
    <2>4. PackingLists!AssetListDiagnostics(assets, list) = C \cup PackingLists!DuplicateIds(assets, list, "Asset", "duplicate_asset_id")
      BY Zenon DEF PackingLists!AssetListDiagnostics
    <2>5. PackingLists!DuplicateIds(assets, list, "Asset", "duplicate_asset_id") = D
      BY SameDuplicates
    <2>6. PackingLists!PackingListDiagnostics(root)
            = PackingLists!HeaderDiagnostics(root, "PackingList")
              \cup PackingLists!Reports(PackingLists!Child(root, "AssetList") = PackingLists!NoNode,
                                        PackingLists!Err("missing_required_field", list))
              \cup PackingLists!AssetListDiagnostics(PackingLists!Assets(root), list)
      BY Zenon DEF PackingLists!PackingListDiagnostics, list
    <2> HIDE DEF A, B, C, D, assets
    <2> QED BY <2>1, <2>2, <2>3, <2>4, <2>5, <2>6
  <1>5. Told(A, root)
    BY ToldHeader
  <1>6. Told(B, root)
    <2>1. missing => Legality!TellsOf(d, root)
      BY <1>1, <1>2, ToldMissing
    <2> HIDE DEF missing, d
    <2> QED BY <2>1, ToldReports
  <1>7. Told(C, root)
    <2> DEFINE X == {Each(i) : i \in DOMAIN assets}
    <2> HIDE DEF assets
    <2>1. ASSUME NEW i \in DOMAIN assets PROVE Told(Each(i), root)
      <3>1. PackingLists!Nth(list, "Asset", i) = Legality!Nth(list, "Asset", i)
        BY Zenon DEF PackingLists!Nth, Legality!Nth
      <3> QED BY <1>3, <3>1, ToldListed
    <2>2. C = UNION X
      OBVIOUS
    <2> HIDE DEF C, Each
    <2>3. \A E \in X : Told(E, root)
      BY <2>1
    <2> HIDE DEF X
    <2> QED BY <2>2, <2>3, ToldFacts
  <1>8. Told(D, root)
    <2> HIDE DEF assets
    <2> QED BY <1>3, ToldIds DEF OfNodes
  <1> DEFINE last == C \cup D
  <1> HIDE DEF A, B, C, D
  <1>9. Told(last, root)
    BY <1>7, <1>8, ToldFacts
  <1> HIDE DEF last
  <1>10. Told(A \cup B \cup last, root)
    BY <1>5, <1>6, <1>9, ToldFacts
  <1> QED BY <1>4, <1>10 DEF last

-----------------------------------------------------------------------------
(* Diagnostics of asset maps                                                *)

LEMMA ToldAsked ==
  ASSUME NEW N, IsTree(N), NEW root, NEW node \in N, NEW path, Reaches(root, path, node), NEW name,
         NEW legal, NEW code,
         Legality!TextOf(node, name) # <<>> /\ ~legal => Wrong(code, Legality!TextOf(node, name))
  PROVE  Told(Asked(AssetMaps!TextOf(node, name), path, name, legal, code), root)
  <1> DEFINE text == Legality!TextOf(node, name)
  <1>1. AssetMaps!TextOf(node, name) = text
    BY SameLookups
  <1>2. Told(Checked(text, Legality!Under(path, name), legal, code), root)
    BY ToldText
  <1> HIDE DEF text
  <1>3. Asked(text, path, name, legal, code) = Checked(text, Legality!Under(path, name), legal, code)
    BY Zenon DEF Asked, Checked, AssetMaps!Reports, Legality!Err, AssetMaps!Err,
       Legality!Diagnostic, AssetMaps!Diagnostic, Legality!Under, AssetMaps!Under, Legality!Step, AssetMaps!Step
  <1> QED BY <1>1, <1>2, <1>3

LEMMA ToldChunk ==
  ASSUME NEW N, IsTree(N), NEW root, NEW chunk \in N, NEW path, Reaches(root, path, chunk), NEW volumes
  PROVE  Told(AssetMaps!ChunkDiagnostics(chunk, path, volumes), root)
  <1> DEFINE Text(name) == AssetMaps!TextOf(chunk, name)
             last == AssetMaps!Positive(Text("VolumeIndex"), MaxUint32)
             place == AssetMaps!NormalizedPath(Text("Path")) # None
             offset == AssetMaps!Unsigned(Text("Offset"), MaxUint64) # None
             length == AssetMaps!Positive(Text("Length"), MaxUint64) # None
             index == last # None /\ (volumes # None => last <= volumes)
             A == Asked(Text("Path"), path, "Path", place, "invalid_relative_path")
             B == Asked(Text("Offset"), path, "Offset", offset, "invalid_integer")
             C == Asked(Text("Length"), path, "Length", length, "invalid_integer")
             D == Asked(Text("VolumeIndex"), path, "VolumeIndex", index, "invalid_integer")
  <1>1. AssetMaps!ChunkDiagnostics(chunk, path, volumes) = A \cup B \cup C \cup D
    BY Zenon DEF AssetMaps!ChunkDiagnostics, AssetMaps!Required, AssetMaps!RequiredWords, Asked
  <1>2. Told(A, root)
    <2>1. IsText(Legality!TextOf(chunk, "Path")) /\ Text("Path") = Legality!TextOf(chunk, "Path")
      BY ChildFacts, SameLookups
    <2>2. ~place => Wrong("invalid_relative_path", Legality!TextOf(chunk, "Path"))
      <3> HIDE DEF Text
      <3> QED BY <2>1, PathFacts DEF Wrong
    <2> HIDE DEF place
    <2> QED BY <2>2, ToldAsked
  <1>3. Told(B, root)
    <2> HIDE DEF offset
    <2> QED BY ToldAsked DEF Wrong
  <1>4. Told(C, root)
    <2> HIDE DEF length
    <2> QED BY ToldAsked DEF Wrong
  <1>5. Told(D, root)
    <2> HIDE DEF index
    <2> QED BY ToldAsked DEF Wrong
  <1> HIDE DEF A, B, C, D
  <1>6. Told(A \cup B \cup C \cup D, root)
    BY <1>2, <1>3, <1>4, <1>5, ToldFacts
  <1> QED BY <1>1, <1>6

LEMMA ToldChunkList ==
  ASSUME NEW N, IsTree(N), NEW root, NEW asset \in N, NEW path, Reaches(root, path, asset), NEW volumes
  PROVE  Told(AssetMaps!ChunkListDiagnostics(Legality!Items(asset, "ChunkList", "Chunk"),
                                             Legality!Under(path, "ChunkList"), volumes), root)
  <1> DEFINE found == Legality!Child(asset, "ChunkList")
             under == Legality!Under(path, "ChunkList")
             chunks == Legality!Items(asset, "ChunkList", "Chunk")
             keys == AssetMaps!ChunkKeys(AssetMaps!ChunkEntries(chunks))
             d == Legality!Err("empty_chunk_list", under)
             Place(k) == Legality!Nth(under, "Chunk", k)
             Each(k) == AssetMaps!ChunkDiagnostics(chunks[k], AssetMaps!Nth(under, "Chunk", k), volumes)
             Again(k) == AssetMaps!Err("duplicate_chunk_entry", AssetMaps!Nth(under, "Chunk", k))
             A == Legality!Reports(chunks = <<>>, d)
             B == UNION {Each(k) : k \in DOMAIN chunks}
             C == {Again(k) : k \in AssetMaps!Repeats(keys)}
  <1>1. AssetMaps!ChunkListDiagnostics(chunks, under, volumes) = A \cup B \cup C
    <2> HIDE DEF chunks, under
    <2> QED BY Zenon DEF AssetMaps!ChunkListDiagnostics, AssetMaps!Reports, Legality!Reports, AssetMaps!Err, Legality!Err,
            AssetMaps!Diagnostic, Legality!Diagnostic
  <1>2. /\ chunks \in Seq(N)
        /\ \A k \in DOMAIN chunks : chunks[k] \in N /\ Reaches(root, Place(k), chunks[k])
    BY ReachesItem
  <1>3. Told(A, root)
    <2>1. d.path = under /\ d.code = "empty_chunk_list"
      BY ErrFacts
    <2>2. under = Append(path, Legality!Step("ChunkList")) /\ Legality!NodeAt(root, under) = found
      BY ReachesBelow DEF Reaches, Legality!Under
    <2>3. asset # Legality!NoNode
      BY NoNodeFacts
    <2>4. chunks = IF found = Legality!NoNode THEN <<>> ELSE Legality!Children(found, "Chunk")
      BY DEF Legality!Items, Legality!ItemsOf
    <2> HIDE DEF d, under, found, chunks
    <2>5. chunks = <<>> => Legality!Lacks(found, {"Chunk"})
      BY <2>4 DEF Legality!Lacks
    <2>6. chunks = <<>> => Legality!HasDefect(d, found, asset)
      BY <2>1, <2>3, <2>5 DEF Legality!HasDefect
    <2>7. chunks = <<>> => Legality!TellsOf(d, root)
      BY <2>1, <2>2, <2>6, Tells
    <2> QED BY <2>7, ToldReports
  <1> HIDE DEF under
  <1>4. Told(B, root)
    <2> DEFINE X == {Each(k) : k \in DOMAIN chunks}
    <2> HIDE DEF chunks
    <2>1. ASSUME NEW k \in DOMAIN chunks PROVE Told(Each(k), root)
      <3>1. AssetMaps!Nth(under, "Chunk", k) = Legality!Nth(under, "Chunk", k)
        BY Zenon DEF AssetMaps!Nth, Legality!Nth
      <3> QED BY <1>2, <3>1, ToldChunk
    <2>2. B = UNION X
      OBVIOUS
    <2> HIDE DEF B, Each
    <2>3. \A E \in X : Told(E, root)
      BY <2>1
    <2> HIDE DEF X
    <2> QED BY <2>2, <2>3, ToldFacts
  <1>5. Told(C, root)
    <2>1. DOMAIN keys = DOMAIN chunks
      <3> HIDE DEF chunks
      <3> QED BY DEF AssetMaps!ChunkKeys, AssetMaps!ChunkEntries
    <2> HIDE DEF keys, chunks
    <2>2. ASSUME NEW k \in AssetMaps!Repeats(keys) PROVE Legality!TellsOf(Again(k), root)
      <3>1. k \in DOMAIN chunks
        BY <2>1, <2>2 DEF AssetMaps!Repeats
      <3>2. Again(k) = Legality!Err("duplicate_chunk_entry", Place(k))
        BY Zenon DEF AssetMaps!Err, Legality!Err, AssetMaps!Diagnostic, Legality!Diagnostic, AssetMaps!Nth, Legality!Nth
      <3>3. Place(k) = Append(under, <<"", "Chunk", k>>)
        BY DEF Legality!Nth
      <3>4. "duplicate_chunk_entry" \in OfNodes
        BY DEF OfNodes
      <3>5. Reaches(root, Place(k), chunks[k]) /\ chunks[k] \in N
        BY <1>2, <3>1
      <3> HIDE DEF Again, Place
      <3>6. Again(k).path = Place(k) /\ Again(k).code = "duplicate_chunk_entry"
        BY <3>2, ErrFacts
      <3> QED BY <3>3, <3>4, <3>5, <3>6, ToldNode, Zenon
    <2> HIDE DEF Again
    <2> QED BY <2>2 DEF Told
  <1> HIDE DEF A, B, C
  <1>6. Told(A \cup B \cup C, root)
    BY <1>3, <1>4, <1>5, ToldFacts
  <1> QED BY <1>1, <1>6 DEF under

LEMMA ToldMapped ==
  ASSUME NEW N, IsTree(N), NEW root, NEW asset \in N, NEW path, Reaches(root, path, asset), NEW volumes
  PROVE  Told(AssetMaps!AssetDiagnostics(asset, path, volumes), root)
  <1> DEFINE A == Legality!RequiredId(asset, path)
             B == AssetMaps!ChunkListDiagnostics(Legality!Items(asset, "ChunkList", "Chunk"),
                                                 Legality!Under(path, "ChunkList"), volumes)
  <1>1. AssetMaps!AssetDiagnostics(asset, path, volumes) = A \cup B
    <2>1. AssetMaps!RequiredId(asset, path) = A
      BY SameRequired
    <2>2. AssetMaps!Chunks(asset) = Legality!Items(asset, "ChunkList", "Chunk")
      BY SameLookups DEF AssetMaps!Chunks, Legality!Items
    <2>3. AssetMaps!Under(path, "ChunkList") = Legality!Under(path, "ChunkList")
      BY SameErrors
    <2>4. AssetMaps!AssetDiagnostics(asset, path, volumes)
            = AssetMaps!RequiredId(asset, path)
              \cup AssetMaps!ChunkListDiagnostics(AssetMaps!Chunks(asset), AssetMaps!Under(path, "ChunkList"), volumes)
      BY Zenon DEF AssetMaps!AssetDiagnostics
    <2> QED BY <2>1, <2>2, <2>3, <2>4
  <1>2. Told(A, root) /\ Told(B, root)
    BY ToldId, ToldChunkList
  <1> HIDE DEF A, B
  <1>3. Told(A \cup B, root)
    BY <1>2, ToldFacts
  <1> QED BY <1>1, <1>3

LEMMA ToldAssetMap ==
  ASSUME NEW N, IsTree(N), NEW root \in N, root.name[2] = "AssetMap"
  PROVE  Told(AssetMaps!AssetMapDiagnostics(root), root)
  <1> DEFINE path == <<Legality!Step("AssetMap")>>
             list == Legality!Under(path, "AssetList")
             assets == Legality!Items(root, "AssetList", "Asset")
             missing == Legality!Child(root, "AssetList") = Legality!NoNode
             count == AssetMaps!VolumeCount(root)
             legal == AssetMaps!Positive(AssetMaps!TextOf(root, "VolumeCount"), MaxUint32) # None
             d == Legality!Err("missing_required_field", list)
             Each(i) == AssetMaps!AssetDiagnostics(assets[i], AssetMaps!AssetPath(i), count)
             A == Legality!HeaderDiagnostics(root, "AssetMap")
             B == Asked(AssetMaps!TextOf(root, "VolumeCount"), path, "VolumeCount", legal, "invalid_integer")
             C == Legality!Reports(missing, d)
             D == UNION {Each(i) : i \in DOMAIN assets}
             E == Legality!DuplicateIds(assets, list, "Asset", "duplicate_asset_id")
  <1>1. Reaches(root, path, root)
    BY ReachesRoot
  <1>2. /\ <<AssetMaps!Step("AssetMap")>> = path /\ AssetMaps!Under(path, "AssetList") = list
        /\ \A i : AssetMaps!AssetPath(i) = Legality!Nth(list, "Asset", i)
    <2>1. <<AssetMaps!Step("AssetMap")>> = path
      BY Zenon DEF AssetMaps!Step, Legality!Step
    <2>2. AssetMaps!Under(path, "AssetList") = list
      <3> HIDE DEF path
      <3> QED BY SameErrors
    <2>3. list = <<AssetMaps!Step("AssetMap"), AssetMaps!Step("AssetList")>>
      <3> DEFINE pair == <<AssetMaps!Step("AssetMap"), AssetMaps!Step("AssetList")>>
      <3>1. pair = <<Legality!Step("AssetMap"), Legality!Step("AssetList")>>
        BY Zenon DEF AssetMaps!Step, Legality!Step
      <3> HIDE DEF pair
      <3>2. pair = list
        BY <3>1 DEF Legality!Under
      <3> QED BY <3>2 DEF pair
    <2> HIDE DEF list
    <2>4. \A i : AssetMaps!AssetPath(i) = AssetMaps!Nth(list, "Asset", i)
      BY <2>3, Zenon DEF AssetMaps!AssetPath
    <2>5. \A i : AssetMaps!Nth(list, "Asset", i) = Legality!Nth(list, "Asset", i)
      BY Zenon DEF AssetMaps!Nth, Legality!Nth
    <2> QED BY <2>1, <2>2, <2>4, <2>5
  <1> HIDE DEF path
  <1>3. /\ assets \in Seq(N)
        /\ \A i \in DOMAIN assets : assets[i] \in N /\ Reaches(root, Legality!Nth(list, "Asset", i), assets[i])
    BY <1>1, ReachesItem
  <1>4. missing => Legality!TellsOf(d, root)
    BY <1>1, ToldMissing
  <1> HIDE DEF list
  <1>5. AssetMaps!AssetMapDiagnostics(root) = A \cup B \cup C \cup (D \cup E)
    <2>1. AssetMaps!HeaderDiagnostics(root, "AssetMap") = A
      BY SameRequired
    <2>2. AssetMaps!Reports(AssetMaps!Child(root, "AssetList") = AssetMaps!NoNode, AssetMaps!Err("missing_required_field", list)) = C
      <3>1. AssetMaps!Child(root, "AssetList") = Legality!Child(root, "AssetList")
        BY SameLookups
      <3> QED BY <3>1, Zenon DEF AssetMaps!Reports, Legality!Reports, AssetMaps!Err, Legality!Err,
              AssetMaps!Diagnostic, Legality!Diagnostic, AssetMaps!NoNode, Legality!NoNode
    <2>3. AssetMaps!Assets(root) = assets
      BY SameLookups DEF AssetMaps!Assets, Legality!Items
    <2>4. AssetMaps!AssetListDiagnostics(assets, list, count)
            = D \cup AssetMaps!DuplicateIds(assets, list, "Asset", "duplicate_asset_id")
      BY Zenon DEF AssetMaps!AssetListDiagnostics
    <2>5. AssetMaps!DuplicateIds(assets, list, "Asset", "duplicate_asset_id") = E
      BY SameDuplicates
    <2> DEFINE from == <<AssetMaps!Step("AssetMap")>>
               at == AssetMaps!Under(from, "AssetList")
    <2>6. AssetMaps!AssetMapDiagnostics(root)
            = AssetMaps!HeaderDiagnostics(root, "AssetMap")
              \cup Asked(AssetMaps!TextOf(root, "VolumeCount"), from, "VolumeCount", legal, "invalid_integer")
              \cup AssetMaps!Reports(AssetMaps!Child(root, "AssetList") = AssetMaps!NoNode,
                                     AssetMaps!Err("missing_required_field", at))
              \cup AssetMaps!AssetListDiagnostics(AssetMaps!Assets(root), at, AssetMaps!VolumeCount(root))
      BY Zenon DEF AssetMaps!AssetMapDiagnostics, AssetMaps!Required, AssetMaps!RequiredWords, Asked
    <2>7. from = path /\ AssetMaps!Under(path, "AssetList") = list
      BY <1>2
    <2> HIDE DEF A, C, D, E, assets, legal, from
    <2> QED BY <2>1, <2>2, <2>3, <2>4, <2>5, <2>6, <2>7
  <1>6. Told(A, root)
    BY ToldHeader
  <1>7. Told(B, root)
    <2> HIDE DEF legal
    <2> QED BY <1>1, ToldAsked DEF Wrong
  <1>8. Told(C, root)
    <2> HIDE DEF missing, d
    <2> QED BY <1>4, ToldReports
  <1>9. Told(D, root)
    <2> DEFINE X == {Each(i) : i \in DOMAIN assets}
    <2> HIDE DEF assets, count
    <2>1. ASSUME NEW i \in DOMAIN assets PROVE Told(Each(i), root)
      BY <1>2, <1>3, ToldMapped
    <2>2. D = UNION X
      OBVIOUS
    <2> HIDE DEF D, Each
    <2>3. \A F \in X : Told(F, root)
      BY <2>1
    <2> HIDE DEF X
    <2> QED BY <2>2, <2>3, ToldFacts
  <1>10. Told(E, root)
    <2> HIDE DEF assets
    <2> QED BY <1>3, ToldIds DEF OfNodes
  <1> DEFINE last == D \cup E
  <1> HIDE DEF A, B, C, D, E
  <1>11. Told(last, root)
    BY <1>9, <1>10, ToldFacts
  <1> HIDE DEF last
  <1>12. Told(A \cup B \cup C \cup last, root)
    BY <1>6, <1>7, <1>8, <1>11, ToldFacts
  <1> QED BY <1>5, <1>12 DEF last

-----------------------------------------------------------------------------
(* Diagnostics of composition playlists                                     *)

LEMMA ToldRate ==
  ASSUME NEW N, IsTree(N), NEW root, NEW node \in N, NEW path, Reaches(root, path, node)
  PROVE  Told(Cpls!RequiredEditRate(node, path), root)
  <1> DEFINE text == Legality!TextOf(node, "EditRate")
             t == Cpls!TextOf(node, "EditRate")
             legal == Cpls!EditRate(t) # None
  <1>1. Cpls!RequiredEditRate(node, path) = Checked(t, Legality!Under(path, "EditRate"), legal, "invalid_edit_rate")
    BY Zenon DEF Cpls!RequiredEditRate, Cpls!Required, Cpls!RequiredWords, Checked, Cpls!Reports, Legality!Err, Cpls!Err,
       Legality!Diagnostic, Cpls!Diagnostic, Legality!Under, Cpls!Under, Legality!Step, Cpls!Step
  <1>2. t = text /\ IsText(text)
    BY SameLookups, ChildFacts
  <1>3. ~legal => Wrong("invalid_edit_rate", text)
    <2> HIDE DEF t, text
    <2> QED BY <1>2, RateFacts DEF Wrong
  <1> HIDE DEF legal
  <1>4. Told(Checked(text, Legality!Under(path, "EditRate"), legal, "invalid_edit_rate"), root)
    BY <1>3, ToldText
  <1> HIDE DEF t, text
  <1> QED BY <1>1, <1>2, <1>4

LEMMA ToldTrack ==
  ASSUME NEW N, IsTree(N), NEW root, NEW track \in N, NEW path, Reaches(root, path, track)
  PROVE  Told(Cpls!TrackDiagnostics(track, path), root)
  <1> DEFINE A == Legality!RequiredId(track, path)
             B == Cpls!RequiredEditRate(track, path)
  <1>1. Cpls!TrackDiagnostics(track, path) = A \cup B
    <2>1. Cpls!RequiredId(track, path) = A
      BY SameRequired
    <2>2. Cpls!TrackDiagnostics(track, path) = Cpls!RequiredId(track, path) \cup B
      BY Zenon DEF Cpls!TrackDiagnostics
    <2> HIDE DEF A, B
    <2> QED BY <2>1, <2>2
  <1>2. Told(A, root) /\ Told(B, root)
    BY ToldId, ToldRate
  <1> HIDE DEF A, B
  <1>3. Told(A \cup B, root)
    BY <1>2, ToldFacts
  <1> QED BY <1>1, <1>3

LEMMA ToldLane ==
  ASSUME NEW N, IsTree(N), NEW root, NEW list \in N, NEW path, Reaches(root, path, list), NEW name
  PROVE  Told(Cpls!LaneDiagnostics(Legality!Children(list, name), path, name), root)
  <1> DEFINE found == Legality!Children(list, name)
             Again(k) == Cpls!Err("duplicate_track_type", Cpls!Nth(path, name, k))
             A == IF found = <<>> THEN {} ELSE Cpls!TrackDiagnostics(found[1], Cpls!Under(path, name))
             B == {Again(k) : k \in DOMAIN found \ {1}}
  <1>1. Cpls!LaneDiagnostics(found, path, name) = A \cup B
    BY Zenon DEF Cpls!LaneDiagnostics
  <1>2. found \in Seq(N)
    BY ChildFacts
  <1>3. Told(A, root)
    <2>1. Reaches(root, Legality!Under(path, name), Legality!Child(list, name))
      BY ReachesBelow
    <2>2. found # <<>> => Legality!Child(list, name) = found[1]
      BY DEF Legality!Child, Legality!First
    <2>3. Cpls!Under(path, name) = Legality!Under(path, name)
      BY SameErrors
    <2> HIDE DEF found
    <2>4. found # <<>> => found[1] \in N
      BY <1>2
    <2>5. CASE found = <<>>
      <3>1. A = {}
        BY <2>5
      <3> HIDE DEF A
      <3> QED BY <3>1, ToldFacts
    <2>6. CASE found # <<>>
      <3>1. A = Cpls!TrackDiagnostics(found[1], Legality!Under(path, name))
        BY <2>3, <2>6
      <3> HIDE DEF A
      <3> QED BY <2>1, <2>2, <2>4, <2>6, <3>1, ToldTrack
    <2> QED BY <2>5, <2>6
  <1>4. Told(B, root)
    <2>1. ASSUME NEW k \in DOMAIN found \ {1} PROVE Legality!TellsOf(Again(k), root)
      <3> DEFINE step == <<"", name, k>>
                 place == Append(path, step)
      <3>1. Again(k).path = place /\ Again(k).code = "duplicate_track_type"
        <4>1. Again(k) = Legality!Err("duplicate_track_type", place)
          BY Zenon DEF Cpls!Err, Legality!Err, Cpls!Diagnostic, Legality!Diagnostic, Cpls!Nth
        <4> HIDE DEF place, Again
        <4> QED BY <4>1, ErrFacts
      <3>2. Reaches(root, Legality!Nth(path, name, k), found[k])
        BY ReachesBelow
      <3>3. place = Legality!Nth(path, name, k)
        BY DEF Legality!Nth
      <3>4. Legality!Last(place) = step
        BY LongerPath, Zenon DEF Reaches
      <3> HIDE DEF found, Again
      <3>5. found[k] \in N /\ step[3] > 1
        BY <1>2
      <3>6. found[k] # Legality!NoNode
        BY <3>5, NoNodeFacts
      <3> HIDE DEF step, place
      <3>7. Legality!HasDefect(Again(k), found[k], list)
        BY <3>1, <3>4, <3>5, <3>6 DEF Legality!HasDefect
      <3> QED BY <3>1, <3>2, <3>3, <3>7, Tells DEF place, Reaches
    <2> HIDE DEF Again, found
    <2> QED BY <2>1 DEF Told
  <1> HIDE DEF A, B
  <1>5. Told(A \cup B, root)
    BY <1>3, <1>4, ToldFacts
  <1> QED BY <1>1, <1>5

LEMMA ToldList ==
  ASSUME NEW N, IsTree(N), NEW root, NEW list \in N, NEW path, NEW step, NEW above,
         Reaches(root, Append(path, step), list), Reaches(root, path, above)
  PROVE  Told(Cpls!ListDiagnostics(list, Append(path, step)), root)
  <1> DEFINE at == Append(path, step)
             Name(l) == Cpls!TrackName[Cpls!Lanes[l]]
             Found(l) == Cpls!Tracks(list, Cpls!Lanes[l])
             none == \A l \in DOMAIN Cpls!Lanes : Found(l) = <<>>
             keys == Cpls!LaneIds(list)
             d == Cpls!Err("reel_missing_track", at)
             Each(l) == Cpls!LaneDiagnostics(Found(l), at, Name(l))
             Again(l) == Cpls!Err("duplicate_asset_reference", Cpls!Under(Cpls!Under(at, Name(l)), "Id"))
             A == UNION {Each(l) : l \in DOMAIN Cpls!Lanes}
             B == Cpls!Reports(none, d)
             C == {Again(l) : l \in Cpls!Repeats(keys)}
  <1>1. Cpls!ListDiagnostics(list, at) = A \cup B \cup C
    BY Zenon DEF Cpls!ListDiagnostics
  <1>2. Reaches(root, at, list)
    OBVIOUS
  <1>3. \A l : Found(l) = Legality!Children(list, Name(l))
    BY SameLookups DEF Cpls!Tracks
  <1>4. Told(A, root)
    <2> DEFINE X == {Each(l) : l \in DOMAIN Cpls!Lanes}
    <2> HIDE DEF at, Found, Name
    <2>1. ASSUME NEW l \in DOMAIN Cpls!Lanes PROVE Told(Each(l), root)
      BY <1>2, <1>3, ToldLane
    <2>2. A = UNION X
      OBVIOUS
    <2> HIDE DEF A, Each
    <2>3. \A E \in X : Told(E, root)
      BY <2>1
    <2> HIDE DEF X
    <2> QED BY <2>2, <2>3, ToldFacts
  <1>5. Told(B, root)
    <2>1. d.path = at /\ d.code = "reel_missing_track"
      BY DEF Cpls!Err, Cpls!Diagnostic
    <2>2. list # Legality!NoNode
      BY NoNodeFacts
    <2>3. none => Legality!Lacks(list, Legality!TrackElements)
      <3>1. ASSUME none, NEW name \in Legality!TrackElements PROVE Legality!Children(list, name) = <<>>
        <4>1. PICK l \in 1 .. 3 : LaneName(l) = name
          BY LaneNames
        <4>2. Found(l) = <<>>
          BY <3>1, LaneNames
        <4>3. Name(l) = name
          BY <4>1 DEF LaneName
        <4> HIDE DEF Found, Name
        <4> QED BY <1>3, <4>2, <4>3
      <3> HIDE DEF none
      <3> QED BY <3>1 DEF Legality!Lacks
    <2> HIDE DEF d, at, none
    <2>4. none => Legality!HasDefect(d, list, above)
      BY <2>1, <2>2, <2>3 DEF Legality!HasDefect
    <2>5. none => Legality!TellsOf(d, root)
      <3>1. Legality!NodeAt(root, at) = list
        BY <1>2 DEF Reaches
      <3> QED BY <2>1, <2>4, <3>1, Tells DEF at
    <2>6. B = Legality!Reports(none, d)
      BY Zenon DEF Cpls!Reports, Legality!Reports
    <2> HIDE DEF B
    <2> QED BY <2>5, <2>6, ToldReports
  <1>6. Told(C, root)
    <2>1. ASSUME NEW l \in Cpls!Repeats(keys) PROVE Legality!TellsOf(Again(l), root)
      <3> DEFINE name == Name(l)
                 under == Legality!Under(at, name)
                 place == Legality!Under(under, "Id")
                 track == Legality!Child(list, name)
                 id == Legality!Child(track, "Id")
                 text == Legality!TextOf(track, "Id")
      <3>1. l \in DOMAIN Cpls!Lanes /\ keys[l] # None
        BY <2>1 DEF Cpls!Repeats, Cpls!LaneIds
      <3>2. keys[l] = Cpls!IdOf(Cpls!First(Found(l)))
        BY <3>1, Zenon DEF Cpls!LaneIds
      <3>3. Cpls!First(Found(l)) = track
        <4>1. Found(l) = Legality!Children(list, name)
          BY <1>3
        <4> HIDE DEF Found, name
        <4> QED BY <4>1, Zenon DEF Cpls!First, Legality!Child, Legality!First, Cpls!NoNode, Legality!NoNode
      <3>4. Cpls!TextOf(track, "Id") = text /\ Cpls!NoNode = Legality!NoNode
        BY SameLookups, SameErrors
      <3>5. track # Legality!NoNode /\ Legality!NormalizedUuid(text) # None
        <4> HIDE DEF track, text, keys, Found
        <4> QED BY <3>1, <3>2, <3>3, <3>4, SameTexts DEF Cpls!IdOf
      <3>6. text # <<>>
        <4> HIDE DEF text
        <4> QED BY <3>5 DEF Legality!NormalizedUuid, Legality!Is
      <3>7. id # Legality!NoNode
        BY <3>6 DEF Legality!TextOf, Legality!WordsOf
      <3>8. track \in N /\ Reaches(root, under, track)
        <4> HIDE DEF at, name
        <4> QED BY <1>2, <3>5, ChildFacts, ReachesBelow
      <3>9. id \in N /\ Reaches(root, place, id)
        <4> HIDE DEF track, under
        <4> QED BY <3>7, <3>8, ChildFacts, ReachesBelow
      <3>10. place = Append(under, Legality!Step("Id"))
        BY DEF Legality!Under
      <3>11. Again(l) = Legality!Err("duplicate_asset_reference", place)
        <4> HIDE DEF at
        <4> QED BY Zenon DEF Cpls!Err, Legality!Err, Cpls!Diagnostic, Legality!Diagnostic, Cpls!Under, Legality!Under,
                Cpls!Step, Legality!Step
      <3>12. "duplicate_asset_reference" \in OfNodes
        BY DEF OfNodes
      <3> HIDE DEF place, under, id, Again
      <3>13. Again(l).path = place /\ Again(l).code = "duplicate_asset_reference"
        BY <3>11, ErrFacts
      <3> QED BY <3>9, <3>10, <3>12, <3>13, ToldNode
    <2> HIDE DEF Again, keys
    <2> QED BY <2>1 DEF Told
  <1> HIDE DEF A, B, C
  <1>7. Told(A \cup B \cup C, root)
    BY <1>4, <1>5, <1>6, ToldFacts
  <1> QED BY <1>1, <1>7

LEMMA ToldReel ==
  ASSUME NEW N, IsTree(N), NEW root, NEW reel \in N, NEW path, Reaches(root, path, reel)
  PROVE  Told(Cpls!ReelDiagnostics(reel, path), root)
  <1> DEFINE list == Legality!Child(reel, "AssetList")
             under == Legality!Under(path, "AssetList")
             A == Legality!RequiredId(reel, path)
             B == Cpls!AssetListDiagnostics(list, under)
  <1>1. Cpls!ReelDiagnostics(reel, path) = A \cup B
    <2>1. Cpls!Child(reel, "AssetList") = list /\ Cpls!RequiredId(reel, path) = A /\ Cpls!Under(path, "AssetList") = under
      BY SameLookups, SameRequired, SameErrors
    <2>2. Cpls!ReelDiagnostics(reel, path)
            = Cpls!RequiredId(reel, path)
              \cup Cpls!AssetListDiagnostics(Cpls!Child(reel, "AssetList"), Cpls!Under(path, "AssetList"))
      BY Zenon DEF Cpls!ReelDiagnostics
    <2> HIDE DEF A, list, under
    <2> QED BY <2>1, <2>2
  <1>2. Told(A, root)
    BY ToldId
  <1>3. Told(B, root)
    <2>1. list \in N \cup {Legality!NoNode} /\ Cpls!NoNode = Legality!NoNode /\ Reaches(root, under, list)
      BY ChildFacts, SameErrors, ReachesBelow
    <2>2. CASE list = Legality!NoNode
      <3> DEFINE d == Legality!Err("missing_required_field", under)
      <3>1. B = {d}
        <4>1. Cpls!Err("missing_required_field", under) = d
          BY SameErrors
        <4> HIDE DEF list, under, d
        <4> QED BY <2>1, <2>2, <4>1 DEF Cpls!AssetListDiagnostics
      <3>2. Legality!TellsOf(d, root)
        BY <2>2, ToldMissing
      <3> HIDE DEF B, d
      <3> QED BY <3>1, <3>2, ToldFacts
    <2>3. CASE list # Legality!NoNode
      <3> DEFINE step == Legality!Step("AssetList")
      <3>1. under = Append(path, step)
        BY DEF Legality!Under
      <3> HIDE DEF list, under, step
      <3>2. B = Cpls!ListDiagnostics(list, under)
        BY <2>1, <2>3 DEF Cpls!AssetListDiagnostics
      <3> HIDE DEF B
      <3>3. Told(Cpls!ListDiagnostics(list, Append(path, step)), root)
        BY <2>1, <2>3, <3>1, ToldList
      <3> QED BY <3>1, <3>2, <3>3
    <2> QED BY <2>2, <2>3
  <1> HIDE DEF A, B
  <1>4. Told(A \cup B, root)
    BY <1>2, <1>3, ToldFacts
  <1> QED BY <1>1, <1>4

LEMMA ToldReels ==
  ASSUME NEW N, IsTree(N), NEW root, NEW node \in N, NEW path, Reaches(root, path, node)
  PROVE  Told(Cpls!ReelListDiagnostics(Legality!Items(node, "ReelList", "Reel"), Legality!Under(path, "ReelList")), root)
  <1> DEFINE found == Legality!Child(node, "ReelList")
             under == Legality!Under(path, "ReelList")
             reels == Legality!Items(node, "ReelList", "Reel")
             d == Legality!Err("empty_reel_list", under)
             Each(i) == Cpls!ReelDiagnostics(reels[i], Cpls!Nth(under, "Reel", i))
             A == Legality!Reports(reels = <<>>, d)
             B == UNION {Each(i) : i \in DOMAIN reels}
             C == Legality!DuplicateIds(reels, under, "Reel", "duplicate_reel_id")
  <1>1. Cpls!ReelListDiagnostics(reels, under) = A \cup B \cup C
    <2>1. Cpls!DuplicateIds(reels, under, "Reel", "duplicate_reel_id") = C
      BY SameDuplicates
    <2> HIDE DEF reels, under
    <2>2. Cpls!ReelListDiagnostics(reels, under) = A \cup B \cup Cpls!DuplicateIds(reels, under, "Reel", "duplicate_reel_id")
      BY Zenon DEF Cpls!ReelListDiagnostics, Cpls!Reports, Legality!Reports, Cpls!Err, Legality!Err, Cpls!Diagnostic, Legality!Diagnostic
    <2> HIDE DEF A, B, C
    <2> QED BY <2>1, <2>2
  <1>2. /\ reels \in Seq(N)
        /\ \A i \in DOMAIN reels : reels[i] \in N /\ Reaches(root, Legality!Nth(under, "Reel", i), reels[i])
    BY ReachesItem
  <1>3. Told(A, root)
    <2>1. d.path = under /\ d.code = "empty_reel_list"
      BY ErrFacts
    <2>2. under = Append(path, Legality!Step("ReelList")) /\ Legality!NodeAt(root, under) = found
      BY ReachesBelow DEF Reaches, Legality!Under
    <2>3. node # Legality!NoNode
      BY NoNodeFacts
    <2>4. reels = IF found = Legality!NoNode THEN <<>> ELSE Legality!Children(found, "Reel")
      BY DEF Legality!Items, Legality!ItemsOf
    <2> HIDE DEF d, under, found, reels
    <2>5. reels = <<>> => Legality!Lacks(found, {"Reel"})
      BY <2>4 DEF Legality!Lacks
    <2>6. reels = <<>> => Legality!HasDefect(d, found, node)
      BY <2>1, <2>3, <2>5 DEF Legality!HasDefect
    <2>7. reels = <<>> => Legality!TellsOf(d, root)
      BY <2>1, <2>2, <2>6, Tells
    <2> QED BY <2>7, ToldReports
  <1> HIDE DEF under, reels
  <1>4. Told(B, root)
    <2> DEFINE X == {Each(i) : i \in DOMAIN reels}
    <2>1. ASSUME NEW i \in DOMAIN reels PROVE Told(Each(i), root)
      <3>1. Cpls!Nth(under, "Reel", i) = Legality!Nth(under, "Reel", i)
        BY Zenon DEF Cpls!Nth, Legality!Nth
      <3> QED BY <1>2, <3>1, ToldReel
    <2>2. B = UNION X
      OBVIOUS
    <2> HIDE DEF B, Each
    <2>3. \A E \in X : Told(E, root)
      BY <2>1
    <2> HIDE DEF X
    <2> QED BY <2>2, <2>3, ToldFacts
  <1>5. Told(C, root)
    BY <1>2, ToldIds DEF OfNodes
  <1> HIDE DEF A, B, C
  <1>6. Told(A \cup B \cup C, root)
    BY <1>3, <1>4, <1>5, ToldFacts
  <1> QED BY <1>1, <1>6 DEF reels, under

LEMMA ToldCpl ==
  ASSUME NEW N, IsTree(N), NEW root \in N, root.name[2] = "CompositionPlaylist"
  PROVE  Told(Cpls!CplDiagnostics(root), root)
  <1> DEFINE path == <<Legality!Step("CompositionPlaylist")>>
             under == Legality!Under(path, "ReelList")
             reels == Legality!Items(root, "ReelList", "Reel")
             missing == Legality!Child(root, "ReelList") = Legality!NoNode
             d == Legality!Err("missing_required_field", under)
             A == Legality!HeaderDiagnostics(root, "CompositionPlaylist")
             B == Legality!RequiredText(root, path, "ContentTitleText")
             C == Cpls!RequiredEditRate(root, path)
             D == Cpls!ReelListDiagnostics(reels, under)
             E == IF missing THEN {d} ELSE D
  <1>1. Reaches(root, path, root)
    BY ReachesRoot
  <1>2. Cpls!CplDiagnostics(root) = A \cup B \cup C \cup E
    <2> DEFINE from == <<Cpls!Step("CompositionPlaylist")>>
               at == Cpls!Under(from, "ReelList")
               F == IF Cpls!Child(root, "ReelList") = Cpls!NoNode THEN {Cpls!Err("missing_required_field", at)}
                    ELSE Cpls!ReelListDiagnostics(Cpls!Reels(root), at)
    <2>1. from = path
      BY Zenon DEF Cpls!Step, Legality!Step
    <2>2. /\ Cpls!Reels(root) = reels /\ Cpls!Child(root, "ReelList") = Legality!Child(root, "ReelList")
          /\ Cpls!NoNode = Legality!NoNode
      BY SameLookups, SameErrors DEF Cpls!Reels, Legality!Items
    <2> HIDE DEF from, path
    <2>3. at = under
      BY <2>1, SameErrors
    <2>4. Cpls!HeaderDiagnostics(root, "CompositionPlaylist") = A /\ Cpls!RequiredText(root, path, "ContentTitleText") = B
      BY SameRequired
    <2>5. Cpls!Err("missing_required_field", under) = d
      BY SameErrors
    <2> HIDE DEF at, under, reels, d
    <2>6. F = E
      BY <2>2, <2>3, <2>5, Zenon
    <2>7. Cpls!CplDiagnostics(root)
            = Cpls!HeaderDiagnostics(root, "CompositionPlaylist") \cup Cpls!RequiredText(root, from, "ContentTitleText")
              \cup Cpls!RequiredEditRate(root, from) \cup F
      BY Zenon DEF Cpls!CplDiagnostics, from, at
    <2> HIDE DEF A, B, E, F
    <2> QED BY <2>1, <2>4, <2>6, <2>7
  <1>3. Told(A, root)
    BY ToldHeader
  <1>4. Told(B, root) /\ Told(C, root) /\ Told(D, root)
    BY <1>1, ToldRequiredText, ToldRate, ToldReels
  <1>5. missing => Legality!TellsOf(d, root)
    BY <1>1, ToldMissing
  <1> HIDE DEF missing, d, A, B, C, D
  <1>6. Told(E, root)
    <2>1. Told({d}, root) <=> Legality!TellsOf(d, root)
      BY ToldFacts
    <2> QED BY <1>4, <1>5, <2>1
  <1> HIDE DEF E
  <1>7. Told(A \cup B \cup C \cup E, root)
    BY <1>3, <1>4, <1>6, ToldFacts
  <1> QED BY <1>2, <1>7

-----------------------------------------------------------------------------
(* What parse reports                                                       *)

\* The diagnostics of a document whose root has the right name.
ToldOf(result, root, name) == root # Xml!NoNode /\ root.name[2] = name => Told(result.diagnostics, root)

LEMMA ParseAssetMapTells ==
  ASSUME NEW N, IsTree(N), NEW read, read.root # Xml!NoNode => read.root \in N
  PROVE  ToldOf(AssetMaps!ParseAssetMap(read), read.root, "AssetMap")
  <1> DEFINE root == read.root
             result == AssetMaps!ParseAssetMap(read)
             found == AssetMaps!AssetMapDiagnostics(root)
  <1> SUFFICES ASSUME root # Xml!NoNode, root.name[2] = "AssetMap" PROVE Told(result.diagnostics, root)
    BY DEF ToldOf
  <1>1. result.diagnostics = found
    <2>1. \A v, d : AssetMaps!Result(v, d).diagnostics = d
      BY DEF AssetMaps!Result
    <2>2. result = AssetMaps!Published(AssetMaps!AssetMap(root), found)
      BY Zenon DEF AssetMaps!ParseAssetMap, AssetMaps!Parsed, AssetMaps!NoNode, Xml!NoNode
    <2> HIDE DEF result, found, root
    <2> QED BY <2>1, <2>2, Zenon DEF AssetMaps!Published
  <1>2. root \in N
    OBVIOUS
  <1> HIDE DEF root, result
  <1> QED BY <1>1, <1>2, ToldAssetMap

LEMMA ParsePackingListTells ==
  ASSUME NEW N, IsTree(N), NEW read, read.root # Xml!NoNode => read.root \in N
  PROVE  ToldOf(PackingLists!ParsePackingList(read), read.root, "PackingList")
  <1> DEFINE root == read.root
             result == PackingLists!ParsePackingList(read)
             found == PackingLists!PackingListDiagnostics(root)
  <1> SUFFICES ASSUME root # Xml!NoNode, root.name[2] = "PackingList" PROVE Told(result.diagnostics, root)
    BY DEF ToldOf
  <1>1. result.diagnostics = found
    <2>1. \A v, d : PackingLists!Result(v, d).diagnostics = d
      BY DEF PackingLists!Result
    <2>2. result = PackingLists!Published(PackingLists!PackingList(root), found)
      BY Zenon DEF PackingLists!ParsePackingList, PackingLists!Parsed, PackingLists!NoNode, Xml!NoNode
    <2> HIDE DEF result, found, root
    <2> QED BY <2>1, <2>2, Zenon DEF PackingLists!Published
  <1>2. root \in N
    OBVIOUS
  <1> HIDE DEF root, result
  <1> QED BY <1>1, <1>2, ToldPackingList

LEMMA ParseCplTells ==
  ASSUME NEW N, IsTree(N), NEW read, read.root # Xml!NoNode => read.root \in N
  PROVE  ToldOf(Cpls!ParseCpl(read), read.root, "CompositionPlaylist")
  <1> DEFINE root == read.root
             result == Cpls!ParseCpl(read)
             found == Cpls!CplDiagnostics(root)
  <1> SUFFICES ASSUME root # Xml!NoNode, root.name[2] = "CompositionPlaylist" PROVE Told(result.diagnostics, root)
    BY DEF ToldOf
  <1>1. result.diagnostics = found
    <2>1. \A v, d : Cpls!Result(v, d).diagnostics = d
      BY DEF Cpls!Result
    <2>2. result = Cpls!Published(Cpls!CompositionPlaylist(root), found)
      BY Zenon DEF Cpls!ParseCpl, Cpls!Parsed, Cpls!NoNode, Xml!NoNode
    <2> HIDE DEF result, found, root
    <2> QED BY <2>1, <2>2, Zenon DEF Cpls!Published
  <1>2. root \in N
    OBVIOUS
  <1> HIDE DEF root, result
  <1> QED BY <1>1, <1>2, ToldCpl

\* A document is called malformed exactly if it has no root.
MalformedOf(result, root) == root = Xml!NoNode <=> \E d \in result.diagnostics : d.code = "xml_malformed"

LEMMA ReadOrMalformed ==
  ASSUME NEW result, NEW root, NEW name, ToldOf(result, root, name), NEW e, NEW m,
         root = Xml!NoNode => result.diagnostics = {e}, e.code = "xml_malformed",
         root # Xml!NoNode /\ root.name[2] # name => result.diagnostics = {m}, m.code = "missing_required_field"
  PROVE  MalformedOf(result, root)
  <1>1. CASE root = Xml!NoNode
    BY <1>1, Zenon DEF MalformedOf
  <1>2. CASE root # Xml!NoNode /\ root.name[2] # name
    <2>1. m.code # "xml_malformed"
      OBVIOUS
    <2> QED BY <1>2, <2>1, Zenon DEF MalformedOf
  <1>3. CASE root # Xml!NoNode /\ root.name[2] = name
    <2>1. ASSUME NEW d \in result.diagnostics PROVE d.code # "xml_malformed"
      <3>1. Legality!TellsOf(d, root)
        BY <1>3, Zenon DEF ToldOf, Told
      <3> QED BY <3>1 DEF Legality!TellsOf, Legality!HasDefect
    <2> QED BY <1>3, <2>1, Zenon DEF MalformedOf
  <1> QED BY <1>1, <1>2, <1>3

LEMMA ParseAssetMapMalformed ==
  ASSUME NEW N, IsTree(N), NEW read, read.root # Xml!NoNode => read.root \in N
  PROVE  MalformedOf(AssetMaps!ParseAssetMap(read), read.root)
  <1> DEFINE root == read.root
             result == AssetMaps!ParseAssetMap(read)
             e == AssetMaps!Err("xml_malformed", read.error)
             m == AssetMaps!Err("missing_required_field", <<AssetMaps!Step("AssetMap")>>)
  <1>1. \A v, d : AssetMaps!Result(v, d).diagnostics = d
    BY DEF AssetMaps!Result
  <1>2. root = Xml!NoNode => result.diagnostics = {e}
    BY <1>1, Zenon DEF AssetMaps!ParseAssetMap, AssetMaps!Parsed, AssetMaps!NoNode, Xml!NoNode
  <1>3. root # Xml!NoNode /\ root.name[2] # "AssetMap" => result.diagnostics = {m}
    BY <1>1, Zenon DEF AssetMaps!ParseAssetMap, AssetMaps!Parsed, AssetMaps!NoNode, Xml!NoNode
  <1>4. e.code = "xml_malformed" /\ m.code = "missing_required_field"
    BY DEF AssetMaps!Err, AssetMaps!Diagnostic
  <1>5. ToldOf(result, root, "AssetMap")
    BY ParseAssetMapTells
  <1> HIDE DEF root, result, e, m
  <1>6. MalformedOf(result, root)
    BY <1>2, <1>3, <1>4, <1>5, ReadOrMalformed
  <1> QED BY <1>6 DEF root, result

LEMMA ParsePackingListMalformed ==
  ASSUME NEW N, IsTree(N), NEW read, read.root # Xml!NoNode => read.root \in N
  PROVE  MalformedOf(PackingLists!ParsePackingList(read), read.root)
  <1> DEFINE root == read.root
             result == PackingLists!ParsePackingList(read)
             e == PackingLists!Err("xml_malformed", read.error)
             m == PackingLists!Err("missing_required_field", <<PackingLists!Step("PackingList")>>)
  <1>1. \A v, d : PackingLists!Result(v, d).diagnostics = d
    BY DEF PackingLists!Result
  <1>2. root = Xml!NoNode => result.diagnostics = {e}
    BY <1>1, Zenon DEF PackingLists!ParsePackingList, PackingLists!Parsed, PackingLists!NoNode, Xml!NoNode
  <1>3. root # Xml!NoNode /\ root.name[2] # "PackingList" => result.diagnostics = {m}
    BY <1>1, Zenon DEF PackingLists!ParsePackingList, PackingLists!Parsed, PackingLists!NoNode, Xml!NoNode
  <1>4. e.code = "xml_malformed" /\ m.code = "missing_required_field"
    BY DEF PackingLists!Err, PackingLists!Diagnostic
  <1>5. ToldOf(result, root, "PackingList")
    BY ParsePackingListTells
  <1> HIDE DEF root, result, e, m
  <1>6. MalformedOf(result, root)
    BY <1>2, <1>3, <1>4, <1>5, ReadOrMalformed
  <1> QED BY <1>6 DEF root, result

LEMMA ParseCplMalformed ==
  ASSUME NEW N, IsTree(N), NEW read, read.root # Xml!NoNode => read.root \in N
  PROVE  MalformedOf(Cpls!ParseCpl(read), read.root)
  <1> DEFINE root == read.root
             result == Cpls!ParseCpl(read)
             e == Cpls!Err("xml_malformed", read.error)
             m == Cpls!Err("missing_required_field", <<Cpls!Step("CompositionPlaylist")>>)
  <1>1. \A v, d : Cpls!Result(v, d).diagnostics = d
    BY DEF Cpls!Result
  <1>2. root = Xml!NoNode => result.diagnostics = {e}
    BY <1>1, Zenon DEF Cpls!ParseCpl, Cpls!Parsed, Cpls!NoNode, Xml!NoNode
  <1>3. root # Xml!NoNode /\ root.name[2] # "CompositionPlaylist" => result.diagnostics = {m}
    BY <1>1, Zenon DEF Cpls!ParseCpl, Cpls!Parsed, Cpls!NoNode, Xml!NoNode
  <1>4. e.code = "xml_malformed" /\ m.code = "missing_required_field"
    BY DEF Cpls!Err, Cpls!Diagnostic
  <1>5. ToldOf(result, root, "CompositionPlaylist")
    BY ParseCplTells
  <1> HIDE DEF root, result, e, m
  <1>6. MalformedOf(result, root)
    BY <1>2, <1>3, <1>4, <1>5, ReadOrMalformed
  <1> QED BY <1>6 DEF root, result

-----------------------------------------------------------------------------
(* What is loaded of a package                                              *)

LEMMA SomeTree ==
  ASSUME NEW tokens, IsDocument(tokens)
  PROVE  \E N : IsTree(N) /\ (RootOf(tokens) # Xml!NoNode => RootOf(tokens) \in N)
  <1>1. CASE RootOf(tokens) = Xml!NoNode
    <2>1. IsTree({})
      BY DEF IsTree
    <2> QED BY <1>1, <2>1
  <1>2. CASE RootOf(tokens) # Xml!NoNode
    BY <1>2, DocumentTree
  <1> QED BY <1>1, <1>2

\* A result says of its document whether it is well-formed.
Judged(result, tokens) ==
  ~Legality!WellFormed(tokens) <=> \E d \in result.diagnostics : d.code = "xml_malformed"

LEMMA JudgedFacts ==
  ASSUME NEW tokens, IsDocument(tokens), NEW result, MalformedOf(result, RootOf(tokens))
  PROVE  Judged(result, tokens)
  BY RootIffWellFormed, Zenon DEF MalformedOf, Judged

\* What is parsed of a package: asset_map, packing_list and playlist are None if
\* they are not reached.
IsParsed(read) ==
  LET documents == read.files
  IN /\ read = [files        |-> documents,
                asset_map    |-> read.asset_map,
                packing_list |-> read.packing_list,
                playlist     |-> read.playlist]
     /\ read.asset_map.value # None <=> RootOf(documents.assetmap) # Xml!NoNode /\ Legality!LegalAssetMap(RootOf(documents.assetmap))
     /\ read.asset_map.value # None =>
          /\ read.asset_map.value \in ParsedAssetMap /\ HasChunks(read.asset_map.value)
          /\ Legality!PathsAreKept(read.asset_map.value, RootOf(documents.assetmap))
     /\ ToldOf(read.asset_map, RootOf(documents.assetmap), "AssetMap")
     /\ Judged(read.asset_map, documents.assetmap)
     /\ read.packing_list # None =>
          /\ Got(read.asset_map)
          /\ read.packing_list.value # None <=> RootOf(documents.pkl) # Xml!NoNode /\ Legality!LegalPackingList(RootOf(documents.pkl))
          /\ read.packing_list.value # None => read.packing_list.value \in ParsedPackingList
          /\ ToldOf(read.packing_list, RootOf(documents.pkl), "PackingList")
          /\ Judged(read.packing_list, documents.pkl)
     /\ read.playlist # None =>
          /\ Got(read.packing_list) /\ documents.cpl # None
          /\ read.playlist.value # None <=> RootOf(documents.cpl) # Xml!NoNode /\ Legality!LegalCpl(RootOf(documents.cpl))
          /\ read.playlist.value # None =>
               read.playlist.value \in ParsedPlaylist /\ Playable(read.playlist.value.reels)
          /\ ToldOf(read.playlist, RootOf(documents.cpl), "CompositionPlaylist")
          /\ Judged(read.playlist, documents.cpl)

LEMMA ParsedFacts ==
  ASSUME NEW package, IsPackage(package)
  PROVE  IsParsed(Parse(package)) /\ Parse(package).files = package
  <1> DEFINE assetmap == Xml!ParseDocument(package.assetmap)
             pkl == Xml!ParseDocument(package.pkl)
             cpl == Xml!ParseDocument(package.cpl)
             first == AssetMaps!ParseAssetMap(assetmap)
             second == PackingLists!ParsePackingList(pkl)
             third == Cpls!ParseCpl(cpl)
             list == IF Got(first) THEN second ELSE None
             last == IF Got(list) /\ package.cpl # None THEN third ELSE None
  <1>1. Parse(package) = [files |-> package, asset_map |-> first, packing_list |-> list, playlist |-> last]
    <2>1. WithPackingList(package, first) = [asset_map |-> first, packing_list |-> list]
      BY DEF WithPackingList
    <2> HIDE DEF first, list
    <2>2. \A a, b : WithPlaylist(package, [asset_map |-> a, packing_list |-> b])
                      = [files |-> package, asset_map |-> a, packing_list |-> b,
                         playlist |-> IF Got(b) /\ package.cpl # None THEN third ELSE None]
      BY DEF WithPlaylist
    <2>3. Parse(package) = WithPlaylist(package, WithPackingList(package, first))
      BY DEF Parse, first
    <2> QED BY <2>1, <2>2, <2>3
  <1>2. /\ IsDocument(package.assetmap) /\ IsDocument(package.pkl)
        /\ package.cpl # None => IsDocument(package.cpl)
    BY DEF IsPackage
  <1>3. /\ first.value # None <=> RootOf(package.assetmap) # Xml!NoNode /\ Legality!LegalAssetMap(RootOf(package.assetmap))
        /\ first.value # None => /\ first.value \in ParsedAssetMap /\ HasChunks(first.value)
                                 /\ Legality!PathsAreKept(first.value, RootOf(package.assetmap))
        /\ ToldOf(first, RootOf(package.assetmap), "AssetMap")
        /\ Judged(first, package.assetmap)
    <2>1. assetmap.root = RootOf(package.assetmap)
      BY DEF RootOf
    <2>2. PICK N : IsTree(N) /\ (RootOf(package.assetmap) # Xml!NoNode => RootOf(package.assetmap) \in N)
      BY <1>2, SomeTree
    <2>3. Judged(first, package.assetmap)
      <3> HIDE DEF assetmap
      <3>1. MalformedOf(first, RootOf(package.assetmap))
        BY <2>1, <2>2, ParseAssetMapMalformed
      <3> QED BY <1>2, <3>1, JudgedFacts
    <2> HIDE DEF assetmap
    <2> QED BY <2>1, <2>2, <2>3, ParsedAssetMapFacts, ParseAssetMapTells
  <1>4. /\ second.value # None <=> RootOf(package.pkl) # Xml!NoNode /\ Legality!LegalPackingList(RootOf(package.pkl))
        /\ second.value # None => second.value \in ParsedPackingList
        /\ ToldOf(second, RootOf(package.pkl), "PackingList")
        /\ Judged(second, package.pkl)
    <2>1. pkl.root = RootOf(package.pkl)
      BY DEF RootOf
    <2>2. PICK N : IsTree(N) /\ (RootOf(package.pkl) # Xml!NoNode => RootOf(package.pkl) \in N)
      BY <1>2, SomeTree
    <2>3. Judged(second, package.pkl)
      <3> HIDE DEF pkl
      <3>1. MalformedOf(second, RootOf(package.pkl))
        BY <2>1, <2>2, ParsePackingListMalformed
      <3> QED BY <1>2, <3>1, JudgedFacts
    <2> HIDE DEF pkl
    <2> QED BY <2>1, <2>2, <2>3, ParsedPackingListFacts, ParsePackingListTells
  <1>5. package.cpl # None =>
          /\ third.value # None <=> RootOf(package.cpl) # Xml!NoNode /\ Legality!LegalCpl(RootOf(package.cpl))
          /\ third.value # None => third.value \in ParsedPlaylist /\ Playable(third.value.reels)
          /\ ToldOf(third, RootOf(package.cpl), "CompositionPlaylist")
          /\ Judged(third, package.cpl)
    <2>1. cpl.root = RootOf(package.cpl)
      BY DEF RootOf
    <2>2. ASSUME package.cpl # None PROVE \E N : IsTree(N) /\ (RootOf(package.cpl) # Xml!NoNode => RootOf(package.cpl) \in N)
      BY <1>2, <2>2, SomeTree
    <2>3. ASSUME package.cpl # None PROVE Judged(third, package.cpl)
      <3> HIDE DEF cpl
      <3>1. MalformedOf(third, RootOf(package.cpl))
        BY <2>1, <2>2, <2>3, ParseCplMalformed
      <3> QED BY <1>2, <2>3, <3>1, JudgedFacts
    <2> HIDE DEF cpl
    <2> QED BY <2>1, <2>2, <2>3, ParsedPlaylistFacts, ParseCplTells
  <1> HIDE DEF first, second, third
  <1>6. list # None => Got(first) /\ list = second
    OBVIOUS
  <1>7. last # None => Got(list) /\ package.cpl # None /\ last = third
    OBVIOUS
  <1> HIDE DEF list, last
  <1> DEFINE read == Parse(package)
  <1>8. /\ read.files = package /\ read.asset_map = first /\ read.packing_list = list /\ read.playlist = last
        /\ read = [files |-> read.files, asset_map |-> read.asset_map, packing_list |-> read.packing_list,
                   playlist |-> read.playlist]
    <2> HIDE DEF read
    <2> QED BY <1>1 DEF read
  <1> HIDE DEF read
  <1>9. IsParsed(read)
    BY <1>3, <1>4, <1>5, <1>6, <1>7, <1>8, Zenon DEF IsParsed
  <1> QED BY <1>8, <1>9 DEF read

\* The entry of an id, if there is one.
LEMMA EntryFacts ==
  ASSUME NEW S, NEW assets \in Seq(S), NEW id
  PROVE  /\ Entry(assets, id) \in Optional(S)
         /\ Entry(assets, id) # None => \E i \in DOMAIN assets : assets[i].asset_id = id
         /\ None \notin S /\ (\E i \in DOMAIN assets : assets[i].asset_id = id) => Entry(assets, id) # None
  <1> DEFINE at == {i \in DOMAIN assets : assets[i].asset_id = id}
             chosen == CHOOSE i \in at : TRUE
  <1>1. Entry(assets, id) = IF at = {} THEN None ELSE assets[chosen]
    BY DEF Entry
  <1>2. at # {} => chosen \in at
    OBVIOUS
  <1>3. \A i \in DOMAIN assets : assets[i] \in S
    OBVIOUS
  <1> HIDE DEF chosen
  <1> QED BY <1>1, <1>2, <1>3 DEF Optional

\* What resolve and apply see of a package that was accepted: a package of the
\* pipeline whose compositions have lanes. If it was compared, what it lists is
\* backed.
IsLoaded(package, compared) ==
  /\ package \in Package /\ HasLanes(package)
  /\ compared => \A u \in Uuid : package.pkl[u] # None => package.backing[u] # None

LEMMA LoadedPackage ==
  ASSUME NEW read, IsParsed(read), Accepted(read)
  PROVE  IsLoaded(PackageOf(read), read.files.compared)
  <1> DEFINE list == read.packing_list.value
             map == read.asset_map.value
             cpl == read.playlist.value
             Listed(u) == Entry(list.assets, u)
             Mapped(u) == Entry(map.assets, u)
             package == PackageOf(read)
  <1>1. list \in ParsedPackingList
    BY DEF IsParsed, Accepted, Got
  <1>2. map \in ParsedAssetMap /\ HasChunks(map)
    BY DEF IsParsed, Accepted, Got
  <1>3. read.playlist # None => cpl \in ParsedPlaylist /\ Playable(cpl.reels)
    BY DEF IsParsed, Accepted, Got
  <1>4. package = [pkl_id  |-> list.pkl_id,
                   pkl     |-> [u \in Uuid |-> IF Listed(u) = None THEN None ELSE Listed(u).asset_type],
                   backing |-> [u \in Uuid |-> IF Mapped(u) = None THEN None ELSE Mapped(u).chunk_list[1].path],
                   cpls    |-> [u \in Uuid |-> IF read.playlist # None /\ cpl.composition_id = u
                                               THEN cpl.reels ELSE None]]
    BY Zenon DEF PackageOf
  <1>5. ASSUME NEW u \in Uuid
        PROVE  /\ Listed(u) = None \/ Listed(u).asset_type \in AssetType
               /\ Listed(u) # None => \E i \in DOMAIN list.assets : list.assets[i].asset_id = u
    <2>1. list.assets \in Seq([asset_id : Uuid, asset_type : AssetType, size_bytes : Nat])
      BY <1>1 DEF ParsedPackingList
    <2> HIDE DEF list
    <2>2. /\ Listed(u) \in Optional([asset_id : Uuid, asset_type : AssetType, size_bytes : Nat])
          /\ Listed(u) # None => \E i \in DOMAIN list.assets : list.assets[i].asset_id = u
      BY <2>1, EntryFacts
    <2> HIDE DEF Listed
    <2> QED BY <2>2 DEF Optional
  <1>6. ASSUME NEW u \in Uuid
        PROVE  /\ Mapped(u) = None \/ Mapped(u).chunk_list[1].path \in Path
               /\ (\E i \in DOMAIN map.assets : map.assets[i].asset_id = u) => Mapped(u) # None
    <2>1. map.assets \in Seq(AssetEntry) /\ None \notin AssetEntry
      BY <1>2, ValuesAssumption DEF ParsedAssetMap
    <2>2. \A i \in DOMAIN map.assets : map.assets[i].chunk_list # <<>>
      BY <1>2 DEF HasChunks
    <2> DEFINE S == {entry \in AssetEntry : entry.chunk_list # <<>>}
    <2> HIDE DEF map
    <2>3. map.assets \in Seq(S)
      BY <2>1, <2>2
    <2>4. None \notin S
      BY <2>1
    <2> HIDE DEF S
    <2>5. Mapped(u) \in Optional(S) /\ ((\E i \in DOMAIN map.assets : map.assets[i].asset_id = u) => Mapped(u) # None)
      BY <2>3, <2>4, EntryFacts
    <2>6. ASSUME NEW entry \in S PROVE entry.chunk_list[1].path \in Path
      <3>1. entry.chunk_list \in Seq(ParsedChunk) /\ entry.chunk_list # <<>>
        BY DEF S, AssetEntry
      <3>2. entry.chunk_list[1] \in ParsedChunk
        BY <3>1
      <3> QED BY <3>2 DEF ParsedChunk
    <2> HIDE DEF Mapped
    <2> QED BY <2>5, <2>6 DEF Optional
  <1>7. read.files.compared => \A i \in DOMAIN list.assets : \E j \in DOMAIN map.assets : map.assets[j].asset_id = list.assets[i].asset_id
    <2>1. read.files.compared => PackingLists!ValidateAgainstAssetMap(list, map) = {}
      BY DEF Accepted
    <2> HIDE DEF list, map
    <2> QED BY <2>1 DEF PackingLists!ValidateAgainstAssetMap
  <1> DEFINE types == [u \in Uuid |-> IF Listed(u) = None THEN None ELSE Listed(u).asset_type]
             paths == [u \in Uuid |-> IF Mapped(u) = None THEN None ELSE Mapped(u).chunk_list[1].path]
             reels == [u \in Uuid |-> IF read.playlist # None /\ cpl.composition_id = u THEN cpl.reels ELSE None]
  <1>8. types \in [Uuid -> Optional(AssetType)] /\ paths \in [Uuid -> Optional(Path)]
    <2> HIDE DEF Listed, Mapped
    <2> QED BY <1>5, <1>6 DEF Optional
  <1>9. /\ reels \in [Uuid -> Optional(Seq(CplReel))]
        /\ \A u \in Uuid : reels[u] # None => Playable(reels[u])
    <2>1. read.playlist # None => cpl.reels \in Seq(CplReel) /\ Playable(cpl.reels)
      BY <1>3 DEF ParsedPlaylist
    <2> HIDE DEF cpl
    <2> QED BY <2>1 DEF Optional
  <1>10. list.pkl_id \in PklId
    BY <1>1 DEF ParsedPackingList
  <1>11. ASSUME NEW u \in Uuid, read.files.compared, types[u] # None PROVE paths[u] # None
    <2>1. Mapped(u) # None
      <3> HIDE DEF Mapped, list, map
      <3> QED BY <1>5, <1>6, <1>7, <1>11
    <2>2. Mapped(u).chunk_list[1].path \in Path
      BY <1>6, <2>1
    <2>3. None \notin Path
      BY NoneAssumption
    <2>4. paths[u] = Mapped(u).chunk_list[1].path
      <3> HIDE DEF Mapped
      <3> QED BY <2>1
    <2> QED BY <2>2, <2>3, <2>4
  <1>12. package = [pkl_id |-> list.pkl_id, pkl |-> types, backing |-> paths, cpls |-> reels]
    BY <1>4, Zenon
  <1> HIDE DEF types, paths, reels, list, map, package
  <1>13. package \in Package
    BY <1>8, <1>9, <1>10, <1>12 DEF Package
  <1>14. HasLanes(package)
    BY <1>9, <1>12 DEF HasLanes, Playable
  <1>15. read.files.compared => \A u \in Uuid : package.pkl[u] # None => package.backing[u] # None
    BY <1>11, <1>12
  <1>16. IsLoaded(package, read.files.compared)
    BY <1>13, <1>14, <1>15 DEF IsLoaded
  <1> QED BY <1>16 DEF package

LEMMA ParsedIsJudged == (parsed = None \/ IsParsed(parsed)) => ReaderAcceptsTheMarkup
  <1> SUFFICES ASSUME parsed # None, IsParsed(parsed) PROVE ReaderAcceptsTheMarkup
    BY DEF ReaderAcceptsTheMarkup
  <1>1. /\ Judged(parsed.asset_map, parsed.files.assetmap)
        /\ parsed.packing_list # None => Judged(parsed.packing_list, parsed.files.pkl)
        /\ parsed.playlist # None => Judged(parsed.playlist, parsed.files.cpl)
    BY DEF IsParsed
  <1> QED BY <1>1, Zenon DEF ReaderAcceptsTheMarkup, Judged

LEMMA ParsedIsLegal == (parsed = None \/ IsParsed(parsed)) => LoadedIffLegal
  <1> SUFFICES ASSUME parsed # None, IsParsed(parsed) PROVE LoadedIffLegal
    BY DEF LoadedIffLegal
  <1>1. /\ parsed.asset_map.value # None <=> RootOf(parsed.files.assetmap) # Xml!NoNode /\ Legality!LegalAssetMap(RootOf(parsed.files.assetmap))
        /\ parsed.asset_map.value # None => Legality!PathsAreKept(parsed.asset_map.value, RootOf(parsed.files.assetmap))
    BY DEF IsParsed
  <1>2. parsed.packing_list # None =>
          (parsed.packing_list.value # None <=> RootOf(parsed.files.pkl) # Xml!NoNode /\ Legality!LegalPackingList(RootOf(parsed.files.pkl)))
    BY DEF IsParsed
  <1>3. parsed.playlist # None =>
          (parsed.playlist.value # None <=> RootOf(parsed.files.cpl) # Xml!NoNode /\ Legality!LegalCpl(RootOf(parsed.files.cpl)))
    BY DEF IsParsed
  <1> QED BY <1>1, <1>2, <1>3, Zenon DEF LoadedIffLegal, Xml!NoNode

LEMMA ParsedTells == (parsed = None \/ IsParsed(parsed)) => DiagnosticsPointIntoTheDocument
  <1> SUFFICES ASSUME parsed # None, IsParsed(parsed) PROVE DiagnosticsPointIntoTheDocument
    BY DEF DiagnosticsPointIntoTheDocument
  <1>1. /\ ToldOf(parsed.asset_map, RootOf(parsed.files.assetmap), "AssetMap")
        /\ parsed.packing_list # None => ToldOf(parsed.packing_list, RootOf(parsed.files.pkl), "PackingList")
        /\ parsed.playlist # None => ToldOf(parsed.playlist, RootOf(parsed.files.cpl), "CompositionPlaylist")
    BY DEF IsParsed
  <1> QED BY <1>1, Zenon DEF DiagnosticsPointIntoTheDocument, ToldOf, Told

-----------------------------------------------------------------------------
(* The three stages                                                         *)

Resolving == INSTANCE OvVfResolver_proofs WITH
  Requests <- [composition_id : Uuid, packages : Seq(Package)],
  request <- r_request, pc <- r_pc, diagnostics <- r_diagnostics, graph <- r_graph

Merging == INSTANCE SupplementalMerge_proofs WITH
  Requests <- [base_graph : CompositionGraph, packages : Seq(Package), policies : Seq(Merge!MergePolicy)],
  request <- m_request, pc <- m_pc, reel_index <- m_reel_index, diagnostics <- m_diagnostics, graph <- m_graph

Building == INSTANCE PlaybackTimeline_proofs WITH
  Graphs <- CompositionGraph, pc <- t_pc, reel_index <- t_reel_index, diagnostics <- t_diagnostics

-----------------------------------------------------------------------------
(* The stages speak of the same data                                        *)

LEMMA ResolvingData ==
  /\ Resolving!AssetType = AssetType /\ Resolving!AssetReference = AssetReference
  /\ Resolving!CplReel = CplReel /\ Resolving!Package = Package /\ Resolving!TrackFile = TrackFile
  /\ Resolving!GraphReel = GraphReel /\ Resolving!CompositionGraph = CompositionGraph
  /\ Resolving!Request = [composition_id : Uuid, packages : Seq(Package)]
  <1>1. Resolving!AssetType = AssetType /\ Resolving!AssetReference = AssetReference
    BY DEF Resolving!AssetType, AssetType, Resolving!AssetReference, AssetReference
  <1>2. Resolving!CplReel = CplReel
    BY <1>1 DEF Resolving!CplReel, CplReel, Resolving!Lane, Lane, Resolving!Optional, Optional
  <1>3. Resolving!Package = Package
    BY <1>1, <1>2 DEF Resolving!Package, Package, Resolving!Optional, Optional
  <1>4. Resolving!TrackFile = TrackFile
    BY DEF Resolving!TrackFile, TrackFile, Resolving!Lane, Lane, Resolving!DependencyKind, DependencyKind
  <1>5. Resolving!GraphReel = GraphReel
    BY <1>4 DEF Resolving!GraphReel, GraphReel, Resolving!Lane, Lane, Resolving!Optional, Optional
  <1>6. Resolving!CompositionGraph = CompositionGraph
    BY <1>5 DEF Resolving!CompositionGraph, CompositionGraph, Resolving!CompositionKind, CompositionKind
  <1>7. Resolving!Request = [composition_id : Uuid, packages : Seq(Package)]
    BY <1>3 DEF Resolving!Request
  <1> QED BY <1>1, <1>2, <1>3, <1>4, <1>5, <1>6, <1>7

LEMMA MergingData ==
  /\ Merging!AssetType = AssetType /\ Merging!AssetReference = AssetReference
  /\ Merging!CplReel = CplReel /\ Merging!Package = Package /\ Merging!TrackFile = TrackFile
  /\ Merging!GraphReel = GraphReel /\ Merging!CompositionGraph = CompositionGraph
  /\ Merging!MergePolicy = Merge!MergePolicy
  /\ Merging!Request = [base_graph : CompositionGraph, packages : Seq(Package), policies : Seq(Merge!MergePolicy)]
  <1>1. Merging!AssetType = AssetType /\ Merging!AssetReference = AssetReference
    BY DEF Merging!AssetType, AssetType, Merging!AssetReference, AssetReference
  <1>2. Merging!CplReel = CplReel
    BY <1>1 DEF Merging!CplReel, CplReel, Merging!Lane, Lane, Merging!Optional, Optional
  <1>3. Merging!Package = Package
    BY <1>1, <1>2 DEF Merging!Package, Package, Merging!Optional, Optional
  <1>4. Merging!TrackFile = TrackFile
    BY DEF Merging!TrackFile, TrackFile, Merging!Lane, Lane, Merging!DependencyKind, DependencyKind
  <1>5. Merging!GraphReel = GraphReel
    BY <1>4 DEF Merging!GraphReel, GraphReel, Merging!Lane, Lane, Merging!Optional, Optional
  <1>6. Merging!CompositionGraph = CompositionGraph
    BY <1>5 DEF Merging!CompositionGraph, CompositionGraph, Merging!CompositionKind, CompositionKind
  <1>7. Merging!MergePolicy = Merge!MergePolicy
    BY DEF Merging!MergePolicy, Merge!MergePolicy, Merging!OverrideValue, Merge!OverrideValue, Merging!Lane, Merge!Lane
  <1>8. Merging!Request = [base_graph : CompositionGraph, packages : Seq(Package), policies : Seq(Merge!MergePolicy)]
    BY <1>3, <1>6, <1>7 DEF Merging!Request
  <1> QED BY <1>1, <1>2, <1>3, <1>4, <1>5, <1>6, <1>7, <1>8

LEMMA BuildingData ==
  /\ Building!AssetType = AssetType /\ Building!AssetReference = AssetReference
  /\ Building!TrackFile = TrackFile /\ Building!GraphReel = GraphReel
  /\ Building!CompositionGraph = CompositionGraph /\ Building!Timeline = Timeline!Timeline
  <1>1. Building!AssetType = AssetType /\ Building!AssetReference = AssetReference
    BY DEF Building!AssetType, AssetType, Building!AssetReference, AssetReference
  <1>2. Building!TrackFile = TrackFile
    BY DEF Building!TrackFile, TrackFile, Building!Lane, Lane, Building!DependencyKind, DependencyKind
  <1>3. Building!GraphReel = GraphReel
    BY <1>2 DEF Building!GraphReel, GraphReel, Building!Lane, Lane, Building!Optional, Optional
  <1>4. Building!CompositionGraph = CompositionGraph
    BY <1>3 DEF Building!CompositionGraph, CompositionGraph, Building!CompositionKind, CompositionKind
  <1>5. Timeline!TrackFile = TrackFile
    BY DEF Timeline!TrackFile, TrackFile, Timeline!Lane, Lane, Timeline!DependencyKind, DependencyKind
  <1>6. Building!TimelineEntry = Timeline!TimelineEntry
    BY <1>2, <1>5 DEF Building!TimelineEntry, Timeline!TimelineEntry, Building!Lane, Timeline!Lane,
                      Building!Optional, Timeline!Optional
  <1>7. Building!Timeline = Timeline!Timeline
    BY <1>6 DEF Building!Timeline, Timeline!Timeline, Building!Lane, Timeline!Lane,
                Building!CompositionKind, Timeline!CompositionKind
  <1> QED BY <1>1, <1>2, <1>3, <1>4, <1>7

-----------------------------------------------------------------------------
(* The assumptions of the stages                                            *)

LEMMA ResolvingAssumptions ==
  /\ None \notin Resolving!AssetType \cup Path \cup Resolving!AssetReference \cup Resolving!TrackFile
                   \cup Resolving!CompositionGraph
  /\ [composition_id : Uuid, packages : Seq(Package)] \subseteq Resolving!Request
  BY NoneAssumption, ResolvingData

LEMMA MergingAssumptions ==
  /\ None \notin Merging!AssetType \cup Path \cup Merging!AssetReference \cup Merging!TrackFile
                   \cup Merging!CompositionGraph
  /\ [base_graph : CompositionGraph, packages : Seq(Package), policies : Seq(Merge!MergePolicy)]
       \subseteq Merging!Request
  /\ PolicyId \subseteq Nat /\ UuidRank \in [Uuid -> Nat]
  /\ \A u, v \in Uuid : UuidRank[u] = UuidRank[v] => u = v
  BY NoneAssumption, MergingData, StagesAssumption

LEMMA BuildingAssumptions ==
  /\ None \notin Building!AssetType \cup Path \cup Building!AssetReference \cup Building!TrackFile
                   \cup Building!CompositionGraph
  /\ CompositionGraph \subseteq Building!CompositionGraph
  /\ Rate \subseteq Nat \X Nat
  /\ None \notin Building!Timeline
  <1>1. Rate \subseteq Nat \X Nat
    BY ParsersAssumption
  <1> QED BY <1>1, NoneAssumption, BuildingData, StagesAssumption

-----------------------------------------------------------------------------
(* Each call runs as its component does                                     *)

LEMMA ResolvingStarts == Resolving!Init => Resolving!TypeOK /\ Resolving!WalkIsDetermined
  <1>1. Resolving!Init => Resolving!TypeOK
    BY Resolving!InitTyped, ResolvingAssumptions
  <1>2. Resolving!Init => Resolving!WalkIsDetermined
    BY DEF Resolving!Init, Resolving!WalkIsDetermined
  <1> QED BY <1>1, <1>2

LEMMA ResolvingSteps ==
  ASSUME Resolving!TypeOK, Resolving!WalkIsDetermined, [Resolver!Next]_resolver_vars
  PROVE  (Resolving!TypeOK /\ Resolving!WalkIsDetermined)'
  <1>1. Resolver!Next => Resolving!Next
    BY Zenon DEF Resolver!Lane, Resolving!Lane, Resolver!Present, Resolving!Present, Resolver!Diagnostic,
           Resolving!Diagnostic, Resolver!MoreThanOne, Resolving!MoreThanOne, Resolver!Backed,
           Resolving!Backed, Resolver!OwnsComposition, Resolving!OwnsComposition, Resolver!OwnerCandidates,
           Resolving!OwnerCandidates, Resolver!ResolveInPackage, Resolving!ResolveInPackage,
           Resolver!BuildTrackFile, Resolving!BuildTrackFile, Resolver!ExternalIn, Resolving!ExternalIn,
           Resolver!ExternalOutcome, Resolving!ExternalOutcome, Resolver!ReferenceOutcome,
           Resolving!ReferenceOutcome, Resolver!Provider, Resolving!Provider, Resolver!Assigned,
           Resolving!Assigned, Resolver!UsesExternal, Resolving!UsesExternal, Resolver!BrokenDependency,
           Resolving!BrokenDependency, Resolver!DiagnosticFor, Resolving!DiagnosticFor,
           Resolver!AtComposition, Resolving!AtComposition, Resolver!BrokenDependencyDiagnostic,
           Resolving!BrokenDependencyDiagnostic, Resolver!Packages, Resolving!Packages, Resolver!Owners,
           Resolving!Owners, Resolver!OriginId, Resolving!OriginId, Resolver!CompositionReels,
           Resolving!CompositionReels, Resolver!Refs, Resolving!Refs, Resolver!Outcome, Resolving!Outcome,
           Resolver!ProviderOfLane, Resolving!ProviderOfLane, Resolver!LanesWith, Resolving!LanesWith,
           Resolver!LaneDiagnostic, Resolving!LaneDiagnostic, Resolver!ResolvedReel, Resolving!ResolvedReel,
           Resolver!RejectTarget, Resolving!RejectTarget, Resolver!TargetNotFound, Resolving!TargetNotFound,
           Resolver!ConflictingOwner, Resolving!ConflictingOwner, Resolver!SelectOwner, Resolving!SelectOwner,
           Resolver!ResolveReel, Resolving!ResolveReel, Resolver!CollectedGraph, Resolving!CollectedGraph,
           Resolver!Finish, Resolving!Finish, Resolver!Next, Resolving!Next
  <1>2. UNCHANGED resolver_vars => UNCHANGED Resolving!vars
    BY DEF resolver_vars, Resolving!vars
  <1>3. [Resolving!Next]_(Resolving!vars)
    BY <1>1, <1>2
  <1> QED BY <1>3, Resolving!StepTyped, Resolving!StepWalks, ResolvingAssumptions

LEMMA MergingStarts == Merging!Init => Merging!TypeOK /\ Merging!WalkIsDetermined
  <1>1. Merging!Init => Merging!TypeOK
    BY Merging!InitTyped, MergingAssumptions
  <1>2. Merging!Init => Merging!WalkIsDetermined
    BY Merging!InitFollows, MergingAssumptions
  <1> QED BY <1>1, <1>2

LEMMA MergingSteps ==
  ASSUME Merging!TypeOK, Merging!WalkIsDetermined, [Merge!Next]_merge_vars
  PROVE  (Merging!TypeOK /\ Merging!WalkIsDetermined)'
  <1>1. Merge!Next => Merging!Next
    BY Zenon DEF Merge!Lane, Merging!Lane, Merge!Present, Merging!Present, Merge!Diagnostic, Merging!Diagnostic,
           Merge!MoreThanOne, Merging!MoreThanOne, Merge!Backed, Merging!Backed, Merge!OwnsComposition,
           Merging!OwnsComposition, Merge!OwnerCandidates, Merging!OwnerCandidates, Merge!ResolveInPackage,
           Merging!ResolveInPackage, Merge!BuildTrackFile, Merging!BuildTrackFile, Merge!TracksOf,
           Merging!TracksOf, Merge!Precedes, Merging!Precedes, Merge!SortedCopies, Merging!SortedCopies,
           Merge!ValidatePolicy, Merging!ValidatePolicy, Merge!SupplementalOwners, Merging!SupplementalOwners,
           Merge!PolicyDiagnostics, Merging!PolicyDiagnostics, Merge!OverrideAllowed, Merging!OverrideAllowed,
           Merge!LaneOutcome, Merging!LaneOutcome, Merge!Conflicts, Merging!Conflicts, Merge!BaseReelIndices,
           Merging!BaseReelIndices, Merge!FirstReel, Merging!FirstReel, Merge!RecomputeTrack,
           Merging!RecomputeTrack, Merge!RecomputeGraphMetadata, Merging!RecomputeGraphMetadata,
           Merge!ApplyDecisions, Merging!ApplyDecisions, Merge!BaseReels, Merging!BaseReels,
           Merge!OverrideKeys, Merging!OverrideKeys, Merge!Policy, Merging!Policy, Merge!OwnerPackage,
           Merging!OwnerPackage, Merge!SupplementalReels, Merging!SupplementalReels, Merge!SupplementalReel,
           Merging!SupplementalReel, Merge!SortPolicies, Merging!SortPolicies, Merge!SkipPolicy,
           Merging!SkipPolicy, Merge!SelectSupplemental, Merging!SelectSupplemental, Merge!UnknownReel,
           Merging!UnknownReel, Merge!MergeReel, Merging!MergeReel, Merge!NextPolicy, Merging!NextPolicy,
           Merge!Finish, Merging!Finish, Merge!Next, Merging!Next
  <1>2. UNCHANGED merge_vars => UNCHANGED Merging!vars
    BY DEF merge_vars, Merging!vars
  <1>3. [Merging!Next]_(Merging!vars)
    BY <1>1, <1>2
  <1>4. Merging!Cursors
    BY DEF Merging!WalkIsDetermined
  <1> QED BY <1>3, <1>4, Merging!StepTyped, Merging!StepFollows, MergingAssumptions

LEMMA BuildingStarts == Building!Init => Building!TypeOK /\ Building!TurnsAreDetermined
  BY Building!InitTyped, Building!InitDetermined, BuildingAssumptions

LEMMA BuildingSteps ==
  ASSUME Building!TypeOK, Building!TurnsAreDetermined, [Timeline!Next]_timeline_vars
  PROVE  (Building!TypeOK /\ Building!TurnsAreDetermined)'
  <1>1. Timeline!Next => Building!Next
    BY Zenon DEF Timeline!Lane, Building!Lane, Timeline!Present, Building!Present, Timeline!Diagnostic,
           Building!Diagnostic, Timeline!MoreThanOne, Building!MoreThanOne, Timeline!IsPositiveEditRate,
           Building!IsPositiveEditRate, Timeline!At, Building!At, Timeline!Report, Building!Report,
           Timeline!UnsupportedShape, Building!UnsupportedShape, Timeline!ValidateGraphHeader,
           Building!ValidateGraphHeader, Timeline!ValidateLane, Building!ValidateLane, Timeline!Reel,
           Building!Reel, Timeline!Lanes, Building!Lanes, Timeline!EditRates, Building!EditRates,
           Timeline!LaneDiagnostics, Building!LaneDiagnostics, Timeline!HasExternalLane,
           Building!HasExternalLane, Timeline!ValidateHeader, Building!ValidateHeader, Timeline!ReelTurn,
           Building!ReelTurn, Timeline!SkipReel, Building!SkipReel, Timeline!AppendEntry,
           Building!AppendEntry, Timeline!Collected, Building!Collected, Timeline!AtCompositionKind,
           Building!AtCompositionKind, Timeline!Finish, Building!Finish, Timeline!Next, Building!Next
  <1>2. UNCHANGED timeline_vars => UNCHANGED Building!vars
    BY DEF timeline_vars, Building!vars
  <1>3. [Building!Next]_(Building!vars)
    BY <1>1, <1>2
  <1> QED BY <1>3, Building!StepTyped, Building!StepDetermined, BuildingAssumptions

-----------------------------------------------------------------------------
(* The inductive invariant                                                  *)

\* resolve is called on the packages of the show.
Resolved ==
  /\ r_request = [composition_id |-> show.composition_id, packages |-> show.packages]
  /\ Resolving!TypeOK /\ Resolving!WalkIsDetermined

\* apply is called on a graph that resolve has published, or not at all.
Merged ==
  IF m_pc = "idle"
  THEN /\ stage # "merge"
       /\ policies = <<>> /\ policy_index = 1 /\ owner = 0 /\ m_reel_index = 1
       /\ m_diagnostics = {} /\ m_graph = None
  ELSE /\ stage # "resolve"
       /\ r_graph # None
       /\ m_request = [base_graph |-> r_graph, packages |-> show.merge_packages, policies |-> show.policies]
       /\ Merging!TypeOK /\ Merging!WalkIsDetermined

\* build is called on one of the two published graphs, or not at all.
Timed ==
  IF t_pc = "idle"
  THEN /\ stage \notin {"timeline", "built"}
       /\ t_reel_index = 1 /\ entries = <<>> /\ lane_counts = [l \in Lane |-> 0]
       /\ graph_has_external_lane = FALSE /\ t_diagnostics = {} /\ playback_timeline = None
  ELSE /\ stage \in {"timeline", "built"}
       /\ composition_graph \in {r_graph, m_graph} /\ composition_graph # None
       /\ Building!TypeOK /\ Building!TurnsAreDetermined
       /\ stage = "built" => t_pc = "done"

\* What is played has lanes, whether it was given or read from documents.
IsShow ==
  show \in Show /\ \A i \in DOMAIN show.packages : HasLanes(show.packages[i])

Stages ==
  /\ IsShow
  /\ stage \in {"resolve", "merge", "timeline", "built", "rejected"}
  /\ Resolved /\ Merged /\ Timed

LEMMA ShowFacts ==
  ASSUME IsShow
  PROVE  /\ show.composition_id \in Uuid /\ show.packages \in Seq(Package) /\ show.merge_packages \in Seq(Package)
         /\ show.policies \in Seq(Merge!MergePolicy)
         /\ \A i \in DOMAIN show.packages : HasLanes(show.packages[i])
  BY DEF IsShow, Show

LEMMA StartStages == Start /\ IsShow => Stages
  <1> SUFFICES ASSUME Start, IsShow PROVE Stages
    OBVIOUS
  <1>1. [composition_id |-> show.composition_id, packages |-> show.packages]
          \in [composition_id : Uuid, packages : Seq(Package)]
    BY ShowFacts
  <1>2. Resolving!Init
    BY <1>1 DEF Start, Resolving!Init
  <1>3. Resolved
    BY <1>2, ResolvingStarts DEF Start, Resolved
  <1>4. Merged /\ Timed
    BY DEF Start, Merged, Timed
  <1> QED BY <1>3, <1>4 DEF Start, Stages

LEMMA InitStages == Init => Stages
  BY StartStages, ShowsAssumption DEF Init, IsShow

LEMMA ResolvedKept ==
  ASSUME Resolved, UNCHANGED show, [Resolver!Next]_resolver_vars
  PROVE  Resolved'
  <1>1. (Resolving!TypeOK /\ Resolving!WalkIsDetermined)'
    BY ResolvingSteps DEF Resolved
  <1>2. r_request' = r_request
    BY DEF resolver_vars, Resolver!Next, Resolver!TargetNotFound, Resolver!ConflictingOwner, Resolver!RejectTarget,
           Resolver!SelectOwner, Resolver!ResolveReel, Resolver!Finish
  <1> QED BY <1>1, <1>2 DEF Resolved

\* Once resolve has published, its graph stays while apply and build run.
LEMMA MergedKept ==
  ASSUME Merged, UNCHANGED <<show, r_graph>>, stage' # "resolve",
         \/ stage = "merge" /\ Merge!Next
         \/ stage' # "merge" /\ UNCHANGED merge_vars
  PROVE  Merged'
  <1>1. CASE m_pc = "idle"
    <2>1. stage' # "merge" /\ UNCHANGED merge_vars
      BY <1>1 DEF Merged
    <2> QED BY <1>1, <2>1 DEF Merged, merge_vars
  <1>2. CASE m_pc # "idle"
    <2>1. (Merging!TypeOK /\ Merging!WalkIsDetermined)'
      BY <1>2, MergingSteps DEF Merged
    <2>2. m_request' = m_request
      BY DEF merge_vars, Merge!Next, Merge!SortPolicies, Merge!SkipPolicy, Merge!SelectSupplemental,
             Merge!UnknownReel, Merge!MergeReel, Merge!NextPolicy, Merge!Finish
    <2>3. m_pc' # "idle"
      BY <2>1 DEF Merging!TypeOK
    <2> QED BY <1>2, <2>1, <2>2, <2>3 DEF Merged
  <1> QED BY <1>1, <1>2

LEMMA TimedKept ==
  ASSUME Timed, UNCHANGED <<r_graph, m_graph>>, stage \in {"timeline", "built"}, stage' \in {"timeline", "built"},
         \/ Timeline!Next /\ stage' = "timeline"
         \/ UNCHANGED timeline_vars /\ (stage' = "built" => t_pc = "done")
  PROVE  Timed'
  <1>1. t_pc # "idle"
    BY DEF Timed
  <1>2. (Building!TypeOK /\ Building!TurnsAreDetermined)'
    BY <1>1, BuildingSteps DEF Timed
  <1>3. composition_graph' = composition_graph
    BY Zenon DEF timeline_vars, Timeline!Next, Timeline!ValidateHeader, Timeline!SkipReel, Timeline!AppendEntry,
           Timeline!ReelTurn, Timeline!Finish
  <1>4. t_pc' # "idle"
    BY <1>2 DEF Building!TypeOK
  <1>5. stage' = "built" => t_pc' = "done"
    BY DEF timeline_vars
  <1> QED BY <1>1, <1>2, <1>3, <1>4, <1>5 DEF Timed

\* Before build is called, what it will work on does not matter.
LEMMA IdleTimelineKept ==
  ASSUME Timed, t_pc = "idle", UNCHANGED timeline_vars, stage' \notin {"timeline", "built"}
  PROVE  Timed'
  BY DEF Timed, timeline_vars

LEMMA CallApplyCalls ==
  ASSUME Stages, CallApply
  PROVE  Merged'
  <1>1. /\ m_pc = "idle" /\ policies' = <<>> /\ policy_index' = 1 /\ owner' = 0 /\ m_reel_index' = 1
        /\ m_diagnostics' = {} /\ m_graph' = None /\ m_pc' = "sort"
        /\ m_request' = [base_graph |-> r_graph, packages |-> show.merge_packages, policies |-> show.policies]
        /\ override_decisions' = [key \in (DOMAIN r_graph.resolved_reels) \X Lane |-> None]
        /\ r_graph # None /\ UNCHANGED <<show, r_graph>> /\ stage' = "merge"
    BY DEF CallApply, Stages, Merged, resolver_vars
  <1>2. r_graph \in CompositionGraph
    BY <1>1, ResolvingData DEF Stages, Resolved, Resolving!TypeOK, Resolving!Optional
  <1>3. m_request' \in [base_graph : CompositionGraph, packages : Seq(Package), policies : Seq(Merge!MergePolicy)]
    BY <1>1, <1>2, ShowFacts DEF Stages
  <1>4. Merging!OverrideKeys' = (DOMAIN r_graph.resolved_reels) \X Lane
    BY <1>1 DEF Merging!OverrideKeys, Merging!BaseReels, Merging!Lane, Lane
  <1>5. Merging!Init'
    BY <1>1, <1>3, <1>4 DEF Merging!Init
  <1>6. (Merging!Init => Merging!TypeOK /\ Merging!WalkIsDetermined)'
    BY MergingStarts, PTL
  <1> QED BY <1>1, <1>5, <1>6 DEF Merged

LEMMA CallBuildCalls ==
  ASSUME Stages, CallBuild
  PROVE  Timed'
  <1>1. PICK graph \in {r_graph, m_graph} : graph # None /\ StartTimeline(graph) /\ stage \in {"resolve", "merge"}
    BY DEF CallBuild
  <1>2. graph \in CompositionGraph
    BY <1>1, ResolvingData, MergingData
       DEF Stages, Resolved, Merged, Resolving!TypeOK, Resolving!Optional, Merging!TypeOK, Merging!Optional
  <1>3. /\ composition_graph' = graph /\ t_pc' = "header" /\ stage' = "timeline" /\ UNCHANGED <<r_graph, m_graph>>
        /\ t_reel_index' = 1 /\ entries' = <<>> /\ lane_counts' = [l \in Lane |-> 0]
        /\ graph_has_external_lane' = FALSE /\ t_diagnostics' = {} /\ playback_timeline' = None
    BY <1>1 DEF StartTimeline, Stages, Timed, resolver_vars, merge_vars
  <1>4. Building!Init'
    BY <1>2, <1>3 DEF Building!Init, Building!Lane, Lane
  <1>5. (Building!Init => Building!TypeOK /\ Building!TurnsAreDetermined)'
    BY BuildingStarts, PTL
  <1> QED BY <1>1, <1>3, <1>4, <1>5 DEF Timed

LEMMA StepStages ==
  ASSUME Stages, [Next]_vars
  PROVE  Stages'
  <1> USE DEF Stages, IsShow
  <1>1. CASE Resolve
    <2>1. Resolved' /\ UNCHANGED <<show, stage>> /\ stage = "resolve"
      BY <1>1, ResolvedKept DEF Resolve
    <2>2. Merged'
      BY <1>1 DEF Resolve, Merged, merge_vars
    <2>3. Timed'
      BY <1>1, IdleTimelineKept, Zenon DEF Resolve, Timed
    <2> QED BY <2>1, <2>2, <2>3
  <1>2. CASE Unresolved \/ Unmerged
    <2>1. /\ UNCHANGED <<show, resolver_vars, merge_vars, timeline_vars>> /\ stage' = "rejected"
          /\ stage \in {"resolve", "merge"}
      BY <1>2 DEF Unresolved, Unmerged
    <2>2. Resolved' /\ UNCHANGED r_graph
      BY <2>1, ResolvedKept DEF resolver_vars
    <2>3. Merged'
      BY <2>1, <2>2, MergedKept
    <2>4. Timed'
      BY <2>1, IdleTimelineKept, Zenon DEF Timed
    <2> QED BY <2>1, <2>2, <2>3, <2>4
  <1>3. CASE CallApply
    <2>1. Resolved'
      BY <1>3, ResolvedKept DEF CallApply
    <2>2. Timed'
      BY <1>3, IdleTimelineKept, Zenon DEF CallApply, Timed
    <2> QED BY <1>3, <2>1, <2>2, CallApplyCalls DEF CallApply
  <1>4. CASE Apply
    <2>1. Resolved' /\ UNCHANGED r_graph
      BY <1>4, ResolvedKept DEF Apply, resolver_vars
    <2>2. Merged'
      BY <1>4, <2>1, MergedKept DEF Apply
    <2>3. Timed'
      BY <1>4, IdleTimelineKept, Zenon DEF Apply, Timed
    <2> QED BY <1>4, <2>1, <2>2, <2>3 DEF Apply
  <1>5. CASE CallBuild
    <2>1. UNCHANGED <<show, resolver_vars, merge_vars>> /\ stage' = "timeline"
      BY <1>5 DEF CallBuild, StartTimeline
    <2>2. Resolved' /\ UNCHANGED r_graph
      BY <2>1, ResolvedKept DEF resolver_vars
    <2>3. Merged'
      BY <2>1, <2>2, MergedKept
    <2> QED BY <1>5, <2>1, <2>2, <2>3, CallBuildCalls
  <1>6. CASE Build \/ Built
    <2>1. /\ UNCHANGED <<show, resolver_vars, merge_vars>> /\ stage = "timeline" /\ stage' \in {"timeline", "built"}
          /\ \/ Timeline!Next /\ stage' = "timeline"
             \/ UNCHANGED timeline_vars /\ (stage' = "built" => t_pc = "done")
      BY <1>6 DEF Build, Built
    <2>2. Resolved' /\ UNCHANGED <<r_graph, m_graph>>
      BY <2>1, ResolvedKept DEF resolver_vars, merge_vars
    <2>3. Merged'
      BY <2>1, <2>2, MergedKept
    <2>4. Timed'
      BY <2>1, <2>2, TimedKept
    <2> QED BY <2>1, <2>2, <2>3, <2>4
  <1>7. CASE UNCHANGED vars
    <2>1. UNCHANGED <<show, stage, resolver_vars, merge_vars, timeline_vars>>
      BY <1>7 DEF vars
    <2>2. Resolved' /\ UNCHANGED <<r_graph, m_graph>>
      BY <2>1, ResolvedKept DEF resolver_vars, merge_vars
    <2>3. Merged'
      <3>1. CASE m_pc = "idle"
        BY <2>1, <3>1 DEF Merged, merge_vars
      <3>2. CASE m_pc # "idle"
        <4>1. (Merging!TypeOK /\ Merging!WalkIsDetermined)'
          BY <2>1, <3>2, MergingSteps DEF Merged
        <4> QED BY <2>1, <2>2, <3>2, <4>1 DEF Merged, merge_vars
      <3> QED BY <3>1, <3>2
    <2>4. Timed'
      <3>1. CASE t_pc = "idle"
        BY <2>1, <3>1 DEF Timed, timeline_vars
      <3>2. CASE t_pc # "idle"
        <4>1. stage \in {"timeline", "built"} /\ (stage = "built" => t_pc = "done")
          BY <3>2 DEF Timed
        <4> QED BY <2>1, <2>2, <4>1, TimedKept
      <3> QED BY <3>1, <3>2
    <2> QED BY <2>1, <2>2, <2>3, <2>4
  <1> QED BY <1>1, <1>2, <1>3, <1>4, <1>5, <1>6, <1>7 DEF Next

\* The stages together are inductive, for every set of shows.
LEMMA InductiveInvariant == Spec => []Stages
  <1>1. Stages /\ [Next]_vars => Stages'
    BY StepStages
  <1> QED BY InitStages, <1>1, PTL DEF Spec

-----------------------------------------------------------------------------
(* What the published graphs have in common                                 *)

Reels == Resolver!CompositionReels

\* The packages of the caller have the track under the names it carries.
Provided(t) ==
  \E packages \in {show.packages, show.merge_packages} : \E i \in DOMAIN packages :
    /\ packages[i].pkl_id = t.source_package_id
    /\ Backed(packages[i], t.asset_id, "track_file")
    /\ packages[i].backing[t.asset_id] = t.resolved_path

\* A graph of the composition: its reels and lanes are those of the CPL.
Sound(g) ==
  /\ g \in CompositionGraph /\ MetadataAgrees(g)
  /\ g.missing_assets = {} /\ g.origin_package_id = Resolver!OriginId
  /\ Len(g.resolved_reels) = Len(Reels)
  /\ \A k \in DOMAIN Reels :
       /\ g.resolved_reels[k].reel_id = Reels[k].reel_id
       /\ Present(g.resolved_reels[k].tracks) = Present(Reels[k].refs)
       /\ \A l \in Present(Reels[k].refs) : /\ g.resolved_reels[k].tracks[l].track_type = l
                                            /\ Provided(g.resolved_reels[k].tracks[l])

LEMMA ResolvingWords ==
  /\ Resolving!OriginId = Resolver!OriginId /\ Resolving!CompositionReels = Reels
  /\ \A k : Resolving!Refs(k) = Reels[k].refs
  /\ \A lanes : Resolving!Present(lanes) = Present(lanes)
  /\ \A g : Resolving!MetadataAgrees(g) <=> MetadataAgrees(g)
  /\ \A package, id, type : Resolving!Backed(package, id, type) <=> Backed(package, id, type)
  <1>1. Resolving!OriginId = Resolver!OriginId /\ Resolving!CompositionReels = Reels
    BY DEF Resolving!OriginId, Resolver!OriginId, Resolving!CompositionReels, Resolver!CompositionReels,
           Resolving!Packages, Resolver!Packages, Reels
  <1>2. \A k : Resolving!Refs(k) = Reels[k].refs
    BY <1>1 DEF Resolving!Refs
  <1>3. \A lanes : Resolving!Present(lanes) = Present(lanes)
    BY DEF Resolving!Present, Present, Resolving!Lane, Lane
  <1>4. \A g : Resolving!MetadataAgrees(g) <=> MetadataAgrees(g)
    BY <1>3 DEF Resolving!MetadataAgrees, MetadataAgrees, Resolving!TracksOf, TracksOf
  <1>5. \A package, id, type : Resolving!Backed(package, id, type) <=> Backed(package, id, type)
    BY DEF Resolving!Backed, Backed
  <1> QED BY <1>1, <1>2, <1>3, <1>4, <1>5

LEMMA MergingWords ==
  /\ \A lanes : Merging!Present(lanes) = Present(lanes)
  /\ \A g : Merging!MetadataAgrees(g) <=> MetadataAgrees(g)
  /\ \A package, id, type : Merging!Backed(package, id, type) <=> Backed(package, id, type)
  <1>1. \A lanes : Merging!Present(lanes) = Present(lanes)
    BY DEF Merging!Present, Present, Merging!Lane, Lane
  <1>2. \A g : Merging!MetadataAgrees(g) <=> MetadataAgrees(g)
    BY <1>1 DEF Merging!MetadataAgrees, MetadataAgrees, Merging!TracksOf, TracksOf
  <1>3. \A package, id, type : Merging!Backed(package, id, type) <=> Backed(package, id, type)
    BY DEF Merging!Backed, Backed
  <1> QED BY <1>1, <1>2, <1>3

LEMMA ResolvingFields ==
  ASSUME NEW l, NEW ref, NEW package, NEW id
  PROVE  LET t == Resolving!BuildTrackFile(l, ref, package, id)
         IN /\ t.track_type = l /\ t.asset_id = ref.asset_id /\ t.source_package_id = package.pkl_id
            /\ t.resolved_path = package.backing[ref.asset_id]
  BY DEF Resolving!BuildTrackFile

LEMMA MergingFields ==
  ASSUME NEW l, NEW ref, NEW package, NEW id
  PROVE  LET t == Merging!BuildTrackFile(l, ref, package, id)
         IN /\ t.track_type = l /\ t.asset_id = ref.asset_id /\ t.source_package_id = package.pkl_id
            /\ t.resolved_path = package.backing[ref.asset_id]
  BY DEF Merging!BuildTrackFile

\* What resolve publishes, in the words of this module.
LEMMA ResolverPublishes ==
  ASSUME Stages, r_graph # None
  PROVE  /\ r_graph \in CompositionGraph /\ MetadataAgrees(r_graph)
         /\ r_graph.origin_package_id = Resolver!OriginId /\ r_graph.missing_assets = {}
         /\ Resolving!Owners = {origin} /\ origin \in DOMAIN show.packages /\ Reels \in Seq(CplReel)
         /\ Len(r_graph.resolved_reels) = Len(Reels)
         /\ \A k \in DOMAIN Reels :
              /\ r_graph.resolved_reels[k].reel_id = Reels[k].reel_id
              /\ Present(r_graph.resolved_reels[k].tracks) = Present(Reels[k].refs)
              /\ \A l \in Present(Reels[k].refs) : \E i \in DOMAIN show.packages :
                   /\ r_graph.resolved_reels[k].tracks[l] =
                        Resolving!BuildTrackFile(l, Reels[k].refs[l], show.packages[i], Resolver!OriginId)
                   /\ Backed(show.packages[i], Reels[k].refs[l].asset_id, "track_file")
  <1>1. Resolving!TypeOK /\ Resolving!WalkIsDetermined /\ Resolving!Packages = show.packages
    BY DEF Stages, Resolved, Resolving!Packages
  <1>2. /\ r_graph \in Resolving!CompositionGraph /\ Resolving!MetadataAgrees(r_graph)
        /\ r_graph.origin_package_id = Resolving!OriginId /\ r_graph.missing_assets = {}
        /\ Resolving!Owners = {origin} /\ origin \in DOMAIN Resolving!Packages
        /\ Resolving!CompositionReels \in Seq(Resolving!CplReel)
        /\ Len(r_graph.resolved_reels) = Len(Resolving!CompositionReels)
        /\ \A k \in DOMAIN Resolving!CompositionReels :
             /\ r_graph.resolved_reels[k].reel_id = Resolving!CompositionReels[k].reel_id
             /\ Resolving!Present(r_graph.resolved_reels[k].tracks) = Resolving!Present(Resolving!Refs(k))
             /\ \A l \in Resolving!Present(Resolving!Refs(k)) : \E i \in DOMAIN Resolving!Packages :
                  /\ r_graph.resolved_reels[k].tracks[l] =
                       Resolving!BuildTrackFile(l, Resolving!Refs(k)[l], Resolving!Packages[i], Resolving!OriginId)
                  /\ Resolving!Backed(Resolving!Packages[i], Resolving!Refs(k)[l].asset_id, "track_file")
    BY <1>1, Resolving!PublishedGraph, ResolvingAssumptions
  <1> QED BY <1>1, <1>2, ResolvingWords, ResolvingData

\* The composition that was resolved has reels, and each of them a lane.
LEMMA CompositionFacts ==
  ASSUME Stages, r_graph # None
  PROVE  /\ Reels \in Seq(CplReel) /\ Reels # <<>>
         /\ \A k \in DOMAIN Reels : Present(Reels[k].refs) # {}
  <1>1. /\ Resolving!Owners = {origin} /\ origin \in DOMAIN show.packages /\ Reels \in Seq(CplReel)
    BY ResolverPublishes
  <1>2. Reels = show.packages[origin].cpls[show.composition_id]
    BY DEF Reels, Resolver!CompositionReels, Resolver!Packages, Stages, Resolved
  <1>3. Reels # None
    <2>1. Resolving!OwnsComposition(Resolving!Packages[origin], r_request.composition_id)
      BY <1>1 DEF Resolving!Owners, Resolving!OwnerCandidates
    <2> QED BY <1>2, <2>1 DEF Resolving!OwnsComposition, Resolving!Packages, Stages, Resolved
  <1>4. HasLanes(show.packages[origin]) /\ show.composition_id \in Uuid
    BY <1>1, ShowFacts DEF Stages
  <1> QED BY <1>1, <1>2, <1>3, <1>4 DEF HasLanes

LEMMA ResolvedIsSound ==
  ASSUME Stages, r_graph # None
  PROVE  Sound(r_graph)
  <1>1. ASSUME NEW k \in DOMAIN Reels, NEW l \in Present(Reels[k].refs)
        PROVE  /\ r_graph.resolved_reels[k].tracks[l].track_type = l
               /\ Provided(r_graph.resolved_reels[k].tracks[l])
    <2>1. PICK i \in DOMAIN show.packages :
            /\ r_graph.resolved_reels[k].tracks[l] =
                 Resolving!BuildTrackFile(l, Reels[k].refs[l], show.packages[i], Resolver!OriginId)
            /\ Backed(show.packages[i], Reels[k].refs[l].asset_id, "track_file")
      BY ResolverPublishes
    <2> QED BY <2>1, ResolvingFields DEF Provided
  <1> QED BY <1>1, ResolverPublishes DEF Sound

\* What apply publishes, in the words of this module.
LEMMA MergePublishes ==
  ASSUME Stages, m_graph # None
  PROVE  /\ r_graph # None
         /\ m_graph \in CompositionGraph /\ MetadataAgrees(m_graph)
         /\ m_graph.origin_package_id = r_graph.origin_package_id
         /\ m_graph.missing_assets = r_graph.missing_assets
         /\ Len(m_graph.resolved_reels) = Len(r_graph.resolved_reels)
         /\ \A k \in DOMAIN r_graph.resolved_reels :
              /\ m_graph.resolved_reels[k].reel_id = r_graph.resolved_reels[k].reel_id
              /\ Present(m_graph.resolved_reels[k].tracks) = Present(r_graph.resolved_reels[k].tracks)
              /\ \A l \in Present(r_graph.resolved_reels[k].tracks) :
                   \/ Merging!SameSource(m_graph.resolved_reels[k].tracks[l], r_graph.resolved_reels[k].tracks[l])
                   \/ \E i \in DOMAIN show.merge_packages : \E ref \in AssetReference :
                        /\ Backed(show.merge_packages[i], ref.asset_id, "track_file")
                        /\ Merging!SameSource(m_graph.resolved_reels[k].tracks[l],
                             Merging!BuildTrackFile(l, ref, show.merge_packages[i], r_graph.origin_package_id))
  <1>1. /\ r_graph # None /\ Merging!TypeOK /\ Merging!WalkIsDetermined
        /\ m_request = [base_graph |-> r_graph, packages |-> show.merge_packages, policies |-> show.policies]
    BY DEF Stages, Merged
  <1>2. /\ m_graph \in Merging!CompositionGraph /\ Merging!MetadataAgrees(m_graph)
        /\ m_graph.origin_package_id = r_graph.origin_package_id
        /\ m_graph.missing_assets = r_graph.missing_assets
        /\ Len(m_graph.resolved_reels) = Len(r_graph.resolved_reels)
        /\ \A k \in DOMAIN r_graph.resolved_reels :
             /\ m_graph.resolved_reels[k].reel_id = r_graph.resolved_reels[k].reel_id
             /\ Merging!Present(m_graph.resolved_reels[k].tracks) = Merging!Present(r_graph.resolved_reels[k].tracks)
             /\ \A l \in Merging!Present(r_graph.resolved_reels[k].tracks) :
                  \/ Merging!SameSource(m_graph.resolved_reels[k].tracks[l], r_graph.resolved_reels[k].tracks[l])
                  \/ \E i \in DOMAIN show.merge_packages : \E ref \in Merging!AssetReference :
                       /\ Merging!Backed(show.merge_packages[i], ref.asset_id, "track_file")
                       /\ Merging!SameSource(m_graph.resolved_reels[k].tracks[l],
                            Merging!BuildTrackFile(l, ref, show.merge_packages[i], r_graph.origin_package_id))
    <2>1. m_request.base_graph = r_graph /\ m_request.packages = show.merge_packages
      BY <1>1
    <2> QED BY <1>1, <2>1, Merging!PublishedGraph, MergingAssumptions
  <1> QED BY <1>1, <1>2, MergingWords, MergingData

LEMMA MergedIsSound ==
  ASSUME Stages, m_graph # None
  PROVE  Sound(m_graph)
  <1>1. r_graph # None /\ Sound(r_graph)
    BY MergePublishes, ResolvedIsSound
  <1>2. DOMAIN r_graph.resolved_reels = DOMAIN Reels
    BY <1>1, CompositionFacts DEF Sound, CompositionGraph
  <1>3. ASSUME NEW k \in DOMAIN Reels, NEW l \in Present(Reels[k].refs)
        PROVE  /\ m_graph.resolved_reels[k].tracks[l].track_type = l
               /\ Provided(m_graph.resolved_reels[k].tracks[l])
    <2> DEFINE merged == m_graph.resolved_reels[k].tracks[l]
               track == r_graph.resolved_reels[k].tracks[l]
    <2>1. CASE Merging!SameSource(merged, track)
      <3>1. track.track_type = l /\ Provided(track)
        BY <1>1 DEF Sound
      <3> QED BY <2>1, <3>1, Zenon DEF Merging!SameSource, Provided
    <2>2. CASE \E i \in DOMAIN show.merge_packages : \E ref \in AssetReference :
                 /\ Backed(show.merge_packages[i], ref.asset_id, "track_file")
                 /\ Merging!SameSource(merged,
                      Merging!BuildTrackFile(l, ref, show.merge_packages[i], r_graph.origin_package_id))
      <3>1. PICK i \in DOMAIN show.merge_packages : \E ref \in AssetReference :
              /\ Backed(show.merge_packages[i], ref.asset_id, "track_file")
              /\ Merging!SameSource(merged,
                   Merging!BuildTrackFile(l, ref, show.merge_packages[i], r_graph.origin_package_id))
        BY <2>2
      <3>2. PICK ref \in AssetReference :
              /\ Backed(show.merge_packages[i], ref.asset_id, "track_file")
              /\ Merging!SameSource(merged,
                   Merging!BuildTrackFile(l, ref, show.merge_packages[i], r_graph.origin_package_id))
        BY <3>1
      <3> HIDE DEF merged
      <3>3. /\ merged.track_type = l /\ merged.asset_id = ref.asset_id
            /\ merged.source_package_id = show.merge_packages[i].pkl_id
            /\ merged.resolved_path = show.merge_packages[i].backing[ref.asset_id]
        BY <3>2, MergingFields DEF Merging!SameSource
      <3> QED BY <3>2, <3>3 DEF Provided, merged
    <2>3. l \in Present(r_graph.resolved_reels[k].tracks)
      BY <1>1 DEF Sound
    <2> QED BY <1>2, <2>1, <2>2, <2>3, MergePublishes
  <1> QED BY <1>1, <1>2, <1>3, MergePublishes DEF Sound

-----------------------------------------------------------------------------
(* The properties                                                           *)

LEMMA StagesTyped == Stages => TypeOK
  <1> SUFFICES ASSUME Stages PROVE TypeOK
    OBVIOUS
  <1>1. r_graph \in Optional(CompositionGraph)
    BY ResolvingData DEF Stages, Resolved, Resolving!TypeOK, Resolving!Optional, Optional
  <1>2. m_graph \in Optional(CompositionGraph)
    BY MergingData DEF Stages, Merged, Merging!TypeOK, Merging!Optional, Optional
  <1>3. stage = "merge" => r_graph # None
    BY DEF Stages, Merged
  <1>4. stage \in {"timeline", "built"} => composition_graph \in CompositionGraph
    BY BuildingData DEF Stages, Timed, Building!TypeOK
  <1>5. show \in Show /\ \A i \in DOMAIN show.packages : HasLanes(show.packages[i])
    BY DEF Stages, IsShow
  <1> QED BY <1>1, <1>2, <1>3, <1>4, <1>5 DEF Stages, TypeOK

\* For every set of shows: each graph that is passed on is typed, and no stage
\* begins before the one that it needs has published.
THEOREM TypeCorrectness == Spec => []TypeOK
  BY InductiveInvariant, StagesTyped, PTL

\* What build is called on.
LEMMA BuiltFromSound ==
  ASSUME Stages, t_pc # "idle"
  PROVE  /\ Sound(composition_graph) /\ Building!TypeOK /\ Building!TurnsAreDetermined
         /\ Reels \in Seq(CplReel) /\ Reels # <<>> /\ DOMAIN composition_graph.resolved_reels = DOMAIN Reels
         /\ \A k \in DOMAIN Reels : Present(Reels[k].refs) # {}
  <1>1. /\ composition_graph \in {r_graph, m_graph} /\ composition_graph # None
        /\ Building!TypeOK /\ Building!TurnsAreDetermined
    BY DEF Stages, Timed
  <1>2. r_graph # None
    BY <1>1, MergePublishes
  <1>3. Sound(composition_graph)
    BY <1>1, ResolvedIsSound, MergedIsSound
  <1>4. /\ Reels \in Seq(CplReel) /\ Reels # <<>>
        /\ \A k \in DOMAIN Reels : Present(Reels[k].refs) # {}
    BY <1>2, CompositionFacts
  <1>5. DOMAIN composition_graph.resolved_reels = DOMAIN Reels
    BY <1>3, <1>4 DEF Sound, CompositionGraph
  <1> QED BY <1>1, <1>3, <1>4, <1>5

\* A lane of such a graph, as the timeline sees it.
LEMMA SoundLane ==
  ASSUME Sound(composition_graph), DOMAIN composition_graph.resolved_reels = DOMAIN Reels,
         NEW k \in DOMAIN Reels, NEW l \in Present(Reels[k].refs)
  PROVE  LET t == composition_graph.resolved_reels[k].tracks[l] IN
         /\ t \in TrackFile /\ t \in TracksOf(composition_graph.resolved_reels)
         /\ t.track_type = l /\ Provided(t)
         /\ t.dependency_kind = "local" <=> t.source_package_id = Resolver!OriginId
         /\ t.source_package_id \in composition_graph.source_packages
         /\ composition_graph.composition_kind = "ov" => t.dependency_kind # "external"
  <1> DEFINE g == composition_graph
             t == g.resolved_reels[k].tracks[l]
  <1>1. g.resolved_reels[k] \in GraphReel /\ l \in Present(g.resolved_reels[k].tracks)
    BY DEF Sound, CompositionGraph
  <1>2. t \in TrackFile
    BY <1>1 DEF GraphReel, Present, Optional
  <1>3. t \in TracksOf(g.resolved_reels)
    BY <1>1 DEF TracksOf
  <1>4. MetadataAgrees(g) /\ g.origin_package_id = Resolver!OriginId
    BY DEF Sound
  <1>5. t.track_type = l /\ Provided(t)
    BY DEF Sound
  <1> HIDE DEF t
  <1>6. /\ t.dependency_kind = "local" <=> t.source_package_id = Resolver!OriginId
        /\ t.source_package_id \in g.source_packages
        /\ g.composition_kind = "ov" => t.dependency_kind # "external"
    BY <1>3, <1>4 DEF MetadataAgrees
  <1> QED BY <1>2, <1>3, <1>5, <1>6 DEF t

LEMMA OnlyRatesFail == Stages => OnlyRatesFailTheTimeline
  <1> SUFFICES ASSUME Stages PROVE OnlyRatesFailTheTimeline
    OBVIOUS
  <1>1. CASE t_pc = "idle"
    BY <1>1 DEF Stages, Timed, OnlyRatesFailTheTimeline
  <1>2. CASE t_pc # "idle"
    <2> DEFINE g == composition_graph
    <2>1. /\ Sound(g) /\ Building!TypeOK /\ Building!TurnsAreDetermined
          /\ Reels \in Seq(CplReel) /\ Reels # <<>> /\ DOMAIN g.resolved_reels = DOMAIN Reels
          /\ \A k \in DOMAIN Reels : Present(Reels[k].refs) # {}
      BY <1>2, BuiltFromSound
    <2>2. g \in CompositionGraph /\ g.missing_assets = {} /\ g.origin_package_id \in g.source_packages
      BY <2>1 DEF Sound, MetadataAgrees
    <2>3. Building!CleanHeader(g)
      <3>1. g.composition_id # Empty /\ g.origin_package_id # Empty
        BY <2>2, ParsersAssumption DEF CompositionGraph
      <3>2. g.resolved_reels # <<>>
        BY <2>1
      <3> QED BY <2>2, <3>1, <3>2 DEF Building!CleanHeader
    <2>4. \A k : Building!TracksAt(g, k) = g.resolved_reels[k].tracks
      BY DEF Building!TracksAt
    <2>5. \A lanes : Building!Present(lanes) = Present(lanes)
      BY DEF Building!Present, Present, Building!Lane, Lane
    <2>6. ASSUME NEW k \in DOMAIN g.resolved_reels
          PROVE  /\ g.resolved_reels[k].reel_id # Empty
                 /\ Building!Present(Building!TracksAt(g, k)) # {}
                 /\ \A l \in Building!Present(Building!TracksAt(g, k)) :
                      Building!CleanLane(g, Building!TracksAt(g, k)[l], l)
      <3>1. g.resolved_reels[k].reel_id \in ReelId
        <4>1. g.resolved_reels[k] \in GraphReel
          BY <2>2 DEF CompositionGraph
        <4> QED BY <4>1 DEF GraphReel
      <3>2. Building!Present(Building!TracksAt(g, k)) = Present(Reels[k].refs)
        BY <2>1, <2>4, <2>5 DEF Sound
      <3>3. ASSUME NEW l \in Present(Reels[k].refs)
            PROVE  Building!CleanLane(g, Building!TracksAt(g, k)[l], l)
        <4> DEFINE t == g.resolved_reels[k].tracks[l]
        <4>1. /\ t \in TrackFile /\ t.track_type = l
              /\ t.dependency_kind = "local" <=> t.source_package_id = Resolver!OriginId
              /\ t.source_package_id \in g.source_packages
              /\ g.composition_kind = "ov" => t.dependency_kind # "external"
          BY <2>1, SoundLane
        <4>2. t.edit_rate[1] > 0 /\ t.edit_rate[2] > 0
          <5>1. t.edit_rate \in (Nat \ {0}) \X (Nat \ {0})
            BY <4>1, ParsersAssumption DEF TrackFile
          <5> QED BY <5>1
        <4>3. Empty \notin {t.asset_id, t.resolved_path, t.source_package_id}
          BY <4>1, ParsersAssumption DEF TrackFile
        <4>4. g.origin_package_id = Resolver!OriginId
          BY <2>1 DEF Sound
        <4> QED BY <2>4, <4>1, <4>2, <4>3, <4>4 DEF Building!CleanLane, Building!IsPositiveEditRate
      <3> QED BY <2>1, <3>1, <3>2, <3>3, ParsersAssumption
    <2>7. g.composition_kind = "vf" => \E k \in DOMAIN g.resolved_reels : Building!HasExternalAt(g, k)
      <3> SUFFICES ASSUME g.composition_kind = "vf"
                   PROVE  \E k \in DOMAIN g.resolved_reels : Building!HasExternalAt(g, k)
        OBVIOUS
      <3>1. PICK t \in TracksOf(g.resolved_reels) : t.dependency_kind = "external"
        BY <2>1 DEF Sound, MetadataAgrees
      <3>2. PICK k \in DOMAIN g.resolved_reels : \E l \in Present(g.resolved_reels[k].tracks) :
              t = g.resolved_reels[k].tracks[l]
        BY DEF TracksOf
      <3> QED BY <2>4, <2>5, <3>1, <3>2 DEF Building!HasExternalAt
    <2>8. \A d \in t_diagnostics : d.code = "timeline.entry_edit_rate_mismatch"
      BY <2>1, <2>3, <2>6, <2>7, Building!OnlyRatesReported, BuildingAssumptions
    <2>9. stage = "built" => (playback_timeline = None <=> t_diagnostics # {})
      <3> SUFFICES ASSUME t_pc = "done" PROVE playback_timeline = None <=> t_diagnostics # {}
        BY <1>2 DEF Stages, Timed
      <3>1. playback_timeline = IF t_diagnostics = {} THEN Building!Collected ELSE None
        BY <2>1 DEF Building!TurnsAreDetermined
      <3>2. Building!Collected \in Building!Timeline
        BY <2>1, Building!CollectedType, BuildingAssumptions
      <3> QED BY <3>1, <3>2, BuildingAssumptions
    <2> QED BY <2>8, <2>9 DEF OnlyRatesFailTheTimeline
  <1> QED BY <1>1, <1>2

\* For every show, whatever its packages and policies: build finds nothing to
\* report in a graph of resolve or apply but reels whose rates differ, although
\* it checks everything that a foreign graph could have wrong.
THEOREM HandoverCorrectness == Spec => []OnlyRatesFailTheTimeline
  BY InductiveInvariant, OnlyRatesFail, PTL

\* A published timeline and the composition, reel by reel.
LEMMA TimelineReels ==
  ASSUME Stages, playback_timeline # None
  PROVE  /\ t_pc # "idle"
         /\ Len(playback_timeline.reel_entries) = Len(Reels)
         /\ DOMAIN playback_timeline.reel_entries = DOMAIN Reels
         /\ \A k \in DOMAIN Reels :
              /\ playback_timeline.reel_entries[k].reel_id = Reels[k].reel_id
              /\ playback_timeline.reel_entries[k].lanes = composition_graph.resolved_reels[k].tracks
              /\ Present(playback_timeline.reel_entries[k].lanes) = Present(Reels[k].refs)
  <1>1. t_pc # "idle"
    BY DEF Stages, Timed
  <1>2. /\ Sound(composition_graph) /\ Building!TypeOK /\ Building!TurnsAreDetermined
        /\ Reels \in Seq(CplReel) /\ DOMAIN composition_graph.resolved_reels = DOMAIN Reels
    BY <1>1, BuiltFromSound
  <1>3. Building!TimelineIsTheGraph
    BY <1>2, Building!PublishedIsTheGraph, BuildingAssumptions
  <1>4. /\ Len(playback_timeline.reel_entries) = Len(composition_graph.resolved_reels)
        /\ \A k \in DOMAIN composition_graph.resolved_reels :
             /\ playback_timeline.reel_entries[k].reel_id = composition_graph.resolved_reels[k].reel_id
             /\ playback_timeline.reel_entries[k].lanes = composition_graph.resolved_reels[k].tracks
    BY <1>3 DEF Building!TimelineIsTheGraph
  <1>5. playback_timeline.reel_entries \in Seq(Building!TimelineEntry)
    BY <1>2 DEF Building!TypeOK, Building!Optional, Building!Timeline
  <1> QED BY <1>1, <1>2, <1>4, <1>5 DEF Sound

LEMMA TimelineFollows == Stages => TimelineFollowsTheCpl
  BY TimelineReels DEF TimelineFollowsTheCpl, Reels

\* For every show: a published timeline has the reels of the composition in the
\* order of its CPL and the same lanes in each, whether or not supplemental
\* policies were applied in between.
THEOREM StructureCorrectness == Spec => []TimelineFollowsTheCpl
  BY InductiveInvariant, TimelineFollows, PTL

LEMMA TimelineBacked == Stages => TimelineLanesAreBacked
  <1> SUFFICES ASSUME Stages, playback_timeline # None,
                      NEW k \in DOMAIN playback_timeline.reel_entries,
                      NEW l \in Present(playback_timeline.reel_entries[k].lanes)
               PROVE  LET lanes == playback_timeline.reel_entries[k].lanes IN
                      \E packages \in {show.packages, show.merge_packages} : \E i \in DOMAIN packages :
                        /\ packages[i].pkl_id = lanes[l].source_package_id
                        /\ Backed(packages[i], lanes[l].asset_id, "track_file")
                        /\ packages[i].backing[lanes[l].asset_id] = lanes[l].resolved_path
                        /\ lanes[l].dependency_kind = "local" <=> packages[i].pkl_id = Resolver!OriginId
    BY Zenon DEF TimelineLanesAreBacked
  <1> DEFINE t == playback_timeline.reel_entries[k].lanes[l]
  <1>1. /\ k \in DOMAIN Reels /\ l \in Present(Reels[k].refs) /\ t_pc # "idle"
        /\ t = composition_graph.resolved_reels[k].tracks[l]
    BY TimelineReels
  <1>2. Sound(composition_graph) /\ DOMAIN composition_graph.resolved_reels = DOMAIN Reels
    BY <1>1, BuiltFromSound
  <1>3. Provided(t) /\ (t.dependency_kind = "local" <=> t.source_package_id = Resolver!OriginId)
    BY <1>1, <1>2, SoundLane
  <1> QED BY <1>3, Zenon DEF Provided

\* For every show: every lane of a published timeline can be played from a
\* package that the caller gave, under the id and the path that the timeline
\* names, and it is marked local exactly if that package is the origin.
THEOREM BackingCorrectness == Spec => []TimelineLanesAreBacked
  BY InductiveInvariant, TimelineBacked, PTL

-----------------------------------------------------------------------------
(* From the documents on                                                    *)

\* What is still to be read is read from documents, and resolve has not begun
\* before the packages of the show are read.
Reading ==
  /\ files = [packages |-> files.packages, merge_packages |-> files.merge_packages]
  /\ \A documents \in {files.packages, files.merge_packages} :
       IsSeq(documents) /\ \A package \in Elements(documents) : IsPackage(package)
  /\ files.packages # <<>> => Start
  /\ parsed = None \/ IsParsed(parsed)
  /\ checked => \A i \in DOMAIN show.packages : IsLoaded(show.packages[i], TRUE)

Loading == Stages /\ Reading

LEMMA InitLoading == LoadInit => Loading
  <1> SUFFICES ASSUME LoadInit PROVE Loading
    OBVIOUS
  <1>1. Start /\ parsed = None
    BY Zenon DEF LoadInit
  <1>2. CASE /\ show \in Shows
             /\ files = [packages |-> <<>>, merge_packages |-> <<>>] /\ checked = FALSE
    <2>1. IsShow
      BY <1>2, ShowsAssumption DEF IsShow
    <2>2. IsSeq(<<>>) /\ Elements(<<>>) = {}
      BY DEF IsSeq, Elements
    <2>3. files.packages = <<>> /\ files.merge_packages = <<>>
      BY <1>2
    <2> QED BY <1>1, <1>2, <2>1, <2>2, <2>3, StartStages, Zenon DEF Loading, Reading
  <1>3. ASSUME NEW group \in Dcps, NEW dcp \in group,
               show = [dcp EXCEPT !.packages = <<>>, !.merge_packages = <<>>],
               files = [packages |-> dcp.packages, merge_packages |-> dcp.merge_packages], checked = TRUE
        PROVE  Loading
    <2>1. /\ dcp \in [composition_id : Uuid, packages : Seq(Elements(dcp.packages)),
                      merge_packages : Seq(Elements(dcp.merge_packages)), policies : Seq(Merge!MergePolicy)]
          /\ \A package \in Elements(dcp.packages) \cup Elements(dcp.merge_packages) : IsPackage(package)
      BY DocumentsAssumption
    <2>2. files.packages = dcp.packages /\ files.merge_packages = dcp.merge_packages
      BY <1>3
    <2>3. IsSeq(dcp.packages) /\ IsSeq(dcp.merge_packages)
      BY <2>1 DEF IsSeq
    <2>4. IsShow /\ show.packages = <<>>
      <3>1. /\ show.composition_id = dcp.composition_id /\ show.packages = <<>> /\ show.merge_packages = <<>>
            /\ show.policies = dcp.policies
            /\ show = [composition_id |-> show.composition_id, packages |-> show.packages,
                       merge_packages |-> show.merge_packages, policies |-> show.policies]
        <4> DEFINE first == [dcp EXCEPT !.packages = <<>>]
        <4>1. [dcp EXCEPT !.packages = <<>>, !.merge_packages = <<>>] = [first EXCEPT !.merge_packages = <<>>]
          OBVIOUS
        <4>2. first = [composition_id |-> dcp.composition_id, packages |-> <<>>,
                       merge_packages |-> dcp.merge_packages, policies |-> dcp.policies]
          BY <2>1
        <4> HIDE DEF first
        <4>3. show = [composition_id |-> dcp.composition_id, packages |-> <<>>,
                      merge_packages |-> <<>>, policies |-> dcp.policies]
          BY <1>3, <4>1, <4>2
        <4> QED BY <4>3
      <3>2. <<>> \in Seq(Package)
        OBVIOUS
      <3>3. dcp.composition_id \in Uuid /\ dcp.policies \in Seq(Merge!MergePolicy)
        BY <2>1
      <3>4. show \in Show
        BY <3>1, <3>2, <3>3 DEF Show
      <3> QED BY <3>1, <3>4 DEF IsShow
    <2> QED BY <1>1, <1>3, <2>1, <2>2, <2>3, <2>4, StartStages DEF Loading, Reading
  <1> QED BY <1>2, <1>3, Zenon DEF LoadInit

\* The documents that are left.
LEMMA TailFacts ==
  ASSUME NEW documents, documents # <<>>, IsSeq(documents), \A package \in Elements(documents) : IsPackage(package)
  PROVE  /\ IsPackage(Head(documents))
         /\ IsSeq(Tail(documents)) /\ \A package \in Elements(Tail(documents)) : IsPackage(package)
  <1> DEFINE S == Elements(documents)
             rest == Tail(documents)
  <1>1. documents \in Seq(S)
    BY DEF IsSeq
  <1>2. Head(documents) \in S /\ rest \in Seq(S)
    <2> HIDE DEF S
    <2> QED BY <1>1
  <1>3. Elements(rest) \subseteq S
    <2> HIDE DEF S
    <2> QED BY <1>2 DEF Elements
  <1>4. rest \in Seq(Elements(rest))
    <2>1. \A i \in 1 .. Len(rest) : rest[i] \in Elements(rest)
      <3> HIDE DEF S, rest
      <3> QED BY <1>2 DEF Elements
    <2> HIDE DEF S, rest
    <2> QED BY <1>2, <2>1
  <1> QED BY <1>2, <1>3, <1>4 DEF IsSeq

\* What one package that is read adds to those before it.
LEMMA LoadFacts ==
  ASSUME NEW package, IsPackage(package), Load(package), NEW packages \in Seq(Package)
  PROVE  /\ IsParsed(parsed')
         /\ AppendLoaded(packages) \in Seq(Package)
         /\ \A i \in DOMAIN AppendLoaded(packages) :
              \/ i \in DOMAIN packages /\ AppendLoaded(packages)[i] = packages[i]
              \/ IsLoaded(AppendLoaded(packages)[i], package.compared)
         /\ checked' = (checked /\ package.compared)
  <1>1. parsed' = Parse(package) /\ aborted' = ~Accepted(parsed') /\ checked' = (checked /\ package.compared)
    BY DEF Load
  <1>2. IsParsed(parsed') /\ parsed'.files = package
    BY <1>1, ParsedFacts
  <1> DEFINE loaded == PackageOf(parsed')
  <1>3. CASE aborted'
    BY <1>1, <1>2, <1>3 DEF AppendLoaded
  <1>4. CASE ~aborted'
    <2>1. IsLoaded(loaded, package.compared)
      BY <1>1, <1>2, <1>4, LoadedPackage
    <2> HIDE DEF loaded
    <2>2. AppendLoaded(packages) = Append(packages, loaded)
      BY <1>4 DEF AppendLoaded, loaded
    <2>3. loaded \in Package
      BY <2>1 DEF IsLoaded
    <2> QED BY <1>1, <1>2, <2>1, <2>2, <2>3
  <1> QED BY <1>3, <1>4

LEMMA StepReads ==
  ASSUME Loading, LoadPackage
  PROVE  Loading'
  <1> DEFINE package == Head(files.packages)
  <1>1. /\ files.packages # <<>> /\ Start /\ Load(package)
        /\ IsSeq(files.packages) /\ \A p \in Elements(files.packages) : IsPackage(p)
        /\ IsSeq(files.merge_packages) /\ \A p \in Elements(files.merge_packages) : IsPackage(p)
        /\ files = [packages |-> files.packages, merge_packages |-> files.merge_packages]
    BY DEF LoadPackage, Loading, Reading
  <1>2. /\ files' = [packages |-> Tail(files.packages), merge_packages |-> files.merge_packages]
        /\ files'.packages = Tail(files.packages) /\ files'.merge_packages = files.merge_packages
    BY <1>1, Zenon DEF LoadPackage
  <1>3. IsPackage(package) /\ IsSeq(files'.packages) /\ \A p \in Elements(files'.packages) : IsPackage(p)
    BY <1>1, <1>2, TailFacts
  <1>4. IsShow
    BY DEF Loading, Stages
  <1> HIDE DEF package
  <1> DEFINE packages == AppendLoaded(show.packages)
  <1>5. /\ IsParsed(parsed') /\ packages \in Seq(Package)
        /\ \A i \in DOMAIN packages : \/ i \in DOMAIN show.packages /\ packages[i] = show.packages[i]
                                      \/ IsLoaded(packages[i], package.compared)
        /\ checked' = (checked /\ package.compared)
    <2>1. show.packages \in Seq(Package)
      BY <1>4, ShowFacts, Zenon
    <2> QED BY <1>1, <1>3, <2>1, LoadFacts, Zenon
  <1>6. show' = [show EXCEPT !.packages = packages] /\ r_request' = [r_request EXCEPT !.packages = show'.packages]
    BY Zenon DEF LoadPackage
  <1> HIDE DEF packages
  <1>7. IsShow' /\ show'.packages = packages /\ show'.composition_id = show.composition_id
    <2>1. show' \in Show /\ show'.packages = packages /\ show'.composition_id = show.composition_id
      BY <1>4, <1>5, <1>6 DEF IsShow, Show
    <2>2. \A i \in DOMAIN packages : HasLanes(packages[i])
      BY <1>4, <1>5 DEF IsShow, IsLoaded
    <2> QED BY <2>1, <2>2 DEF IsShow
  <1>8. Start'
    <2>1. r_request' = [composition_id |-> show'.composition_id, packages |-> show'.packages]
      BY <1>1, <1>6, <1>7 DEF Start
    <2>2. UNCHANGED <<stage, r_pc, origin, resolved_reels, source_packages, missing_assets,
                      uses_external_dependency, has_broken_dependency, r_diagnostics, r_graph,
                      merge_vars, timeline_vars>>
      BY DEF LoadPackage
    <2> QED BY <1>1, <2>1, <2>2 DEF Start, merge_vars, timeline_vars
  <1>9. Stages'
    <2>1. (Start /\ IsShow => Stages)'
      BY StartStages, PTL
    <2> QED BY <1>7, <1>8, <2>1
  <1>10. checked' => \A i \in DOMAIN show'.packages : IsLoaded(show'.packages[i], TRUE)
    BY <1>5, <1>7, Zenon DEF Loading, Reading
  <1> QED BY <1>1, <1>2, <1>3, <1>5, <1>8, <1>9, <1>10, Zenon DEF Loading, Reading

\* resolve has returned and does not look at the packages of the policies.
LEMMA StepReadsMerge ==
  ASSUME Loading, LoadMergePackage
  PROVE  Loading'
  <1> DEFINE package == Head(files.merge_packages)
  <1>1. /\ files.merge_packages # <<>> /\ Load(package)
        /\ IsSeq(files.packages) /\ \A p \in Elements(files.packages) : IsPackage(p)
        /\ IsSeq(files.merge_packages) /\ \A p \in Elements(files.merge_packages) : IsPackage(p)
        /\ files = [packages |-> files.packages, merge_packages |-> files.merge_packages]
    BY DEF LoadMergePackage, ReadyToMerge, Loading, Reading
  <1>2. /\ files' = [packages |-> files.packages, merge_packages |-> Tail(files.merge_packages)]
        /\ files'.packages = files.packages /\ files'.merge_packages = Tail(files.merge_packages)
    BY <1>1, Zenon DEF LoadMergePackage
  <1>3. IsPackage(package) /\ IsSeq(files'.merge_packages) /\ \A p \in Elements(files'.merge_packages) : IsPackage(p)
    BY <1>1, <1>2, TailFacts
  <1>4. IsShow
    BY DEF Loading, Stages
  <1> HIDE DEF package
  <1> DEFINE packages == AppendLoaded(show.merge_packages)
  <1>5. IsParsed(parsed') /\ packages \in Seq(Package) /\ checked' = (checked /\ package.compared)
    <2>1. show.merge_packages \in Seq(Package)
      BY <1>4, ShowFacts, Zenon
    <2> QED BY <1>1, <1>3, <2>1, LoadFacts, Zenon
  <1>6. /\ show' = [show EXCEPT !.merge_packages = packages]
        /\ UNCHANGED <<stage, resolver_vars, merge_vars, timeline_vars>>
        /\ stage = "resolve" /\ r_pc = "done"
    BY DEF LoadMergePackage, ReadyToMerge
  <1> HIDE DEF packages
  <1>7. IsShow' /\ show'.packages = show.packages /\ show'.composition_id = show.composition_id
    <2>1. show' \in Show /\ show'.packages = show.packages /\ show'.composition_id = show.composition_id
      BY <1>4, <1>5, <1>6, Zenon DEF IsShow, Show
    <2> QED BY <1>4, <2>1 DEF IsShow
  <1>8. Resolved'
    <2>1. Resolved
      BY DEF Loading, Stages
    <2>2. (Resolving!TypeOK /\ Resolving!WalkIsDetermined)'
      BY <1>6, <2>1, ResolvingSteps DEF Resolved
    <2> QED BY <1>6, <1>7, <2>1, <2>2 DEF Resolved, resolver_vars
  <1>9. Merged'
    <2>1. Merged
      BY DEF Loading, Stages
    <2> QED BY <1>6, <2>1 DEF Merged, merge_vars
  <1>10. Timed'
    <2>1. Timed
      BY DEF Loading, Stages
    <2> QED BY <1>6, <2>1, IdleTimelineKept, Zenon DEF Timed
  <1>11. Stages'
    BY <1>6, <1>7, <1>8, <1>9, <1>10 DEF Loading, Stages
  <1>12. files'.packages = <<>>
    <2>1. files.packages # <<>> => r_pc = "find_owner"
      BY DEF Loading, Reading, Start
    <2> QED BY <1>2, <1>6, <2>1
  <1>13. checked' => \A i \in DOMAIN show'.packages : IsLoaded(show'.packages[i], TRUE)
    BY <1>5, <1>7, Zenon DEF Loading, Reading
  <1> QED BY <1>1, <1>2, <1>3, <1>5, <1>11, <1>12, <1>13, Zenon DEF Loading, Reading

LEMMA StepRuns ==
  ASSUME Loading, Run
  PROVE  Loading'
  <1>1. /\ files.packages = <<>> /\ Next /\ parsed' = None /\ UNCHANGED <<files, checked, aborted>>
    BY DEF Run
  <1>2. Stages'
    BY <1>1, StepStages DEF Loading
  <1>3. UNCHANGED show
    BY <1>1 DEF Next, Resolve, Unresolved, CallApply, Apply, Unmerged, CallBuild, StartTimeline, Build, Built
  <1> QED BY <1>1, <1>2, <1>3, Zenon DEF Loading, Reading

LEMMA StepLoading ==
  ASSUME Loading, [LoadNext]_load_vars
  PROVE  Loading'
  <1>1. CASE LoadPackage \/ LoadMergePackage \/ Run
    BY <1>1, StepReads, StepReadsMerge, StepRuns
  <1>2. CASE UNCHANGED load_vars
    <2>1. UNCHANGED <<vars, files, parsed, checked, aborted>>
      BY <1>2 DEF load_vars
    <2>2. Stages'
      BY <2>1, StepStages DEF Loading
    <2>3. files.packages # <<>> => Start'
      BY <2>1 DEF Loading, Reading, Start, vars, resolver_vars, merge_vars, timeline_vars
    <2>4. UNCHANGED show
      BY <2>1 DEF vars
    <2> QED BY <2>1, <2>2, <2>3, <2>4, Zenon DEF Loading, Reading
  <1> QED BY <1>1, <1>2 DEF LoadNext

\* Reading the packages and running the stages on them is inductive, for every
\* set of documents.
LEMMA LoadingInvariant == LoadSpec => []Loading
  <1>1. Loading /\ [LoadNext]_load_vars => Loading'
    BY StepLoading
  <1> QED BY InitLoading, <1>1, PTL DEF LoadSpec

\* For every document that a package may have: what the three parsers accept is
\* what the object specifications call legal, and nothing else is.
THEOREM LoadCorrectness == LoadSpec => []LoadedIffLegal
  <1>1. Loading => LoadedIffLegal
    BY ParsedIsLegal DEF Loading, Reading
  <1> QED BY <1>1, LoadingInvariant, PTL

\* For every document: a parser calls it malformed exactly if it is not
\* well-formed, and reads nothing of it then. The reader, which goes through the
\* tokens once with a stack, finds every tag that does not fit, and only those.
THEOREM ReaderCorrectness == LoadSpec => []ReaderAcceptsTheMarkup
  <1>1. Loading => ReaderAcceptsTheMarkup
    BY ParsedIsJudged DEF Loading, Reading
  <1> QED BY <1>1, LoadingInvariant, PTL

\* For every document, too: whatever a parser reports names a place of the
\* document, and the node there has the fault that the code of the diagnostic
\* means.
THEOREM LoadDiagnostics == LoadSpec => []DiagnosticsPointIntoTheDocument
  <1>1. Loading => DiagnosticsPointIntoTheDocument
    BY ParsedTells DEF Loading, Reading
  <1> QED BY <1>1, LoadingInvariant, PTL

\* Read from documents, a show passes through the pipeline as if it had been
\* given: each graph is typed and no stage begins too early.
THEOREM LoadTypeCorrectness == LoadSpec => []TypeOK
  <1>1. Loading => TypeOK
    BY StagesTyped DEF Loading
  <1> QED BY <1>1, LoadingInvariant, PTL

\* The same of what build reports: nothing but rates that differ.
THEOREM LoadHandoverCorrectness == LoadSpec => []OnlyRatesFailTheTimeline
  <1>1. Loading => OnlyRatesFailTheTimeline
    BY OnlyRatesFail DEF Loading
  <1> QED BY <1>1, LoadingInvariant, PTL

\* The same of the reels and lanes of the timeline: they are those of the
\* composition playlist that was read.
THEOREM LoadStructureCorrectness == LoadSpec => []TimelineFollowsTheCpl
  <1>1. Loading => TimelineFollowsTheCpl
    BY TimelineFollows DEF Loading
  <1> QED BY <1>1, LoadingInvariant, PTL

\* The same of the files that the timeline names: they are those that the asset
\* maps of the packages lead to.
THEOREM LoadBackingCorrectness == LoadSpec => []TimelineLanesAreBacked
  <1>1. Loading => TimelineLanesAreBacked
    BY TimelineBacked DEF Loading
  <1> QED BY <1>1, LoadingInvariant, PTL

\* A reference that breaks in packages that were compared.
LEMMA BrokenInPackage ==
  ASSUME NEW package \in Package, IsLoaded(package, TRUE), NEW id \in Uuid,
         Resolving!ResolveInPackage(package, id) = "broken"
  PROVE  package.pkl[id] \notin {None, "track_file"}
  BY DEF IsLoaded, Resolving!ResolveInPackage, Resolving!Backed

LEMMA CheckedBacked == Loading => CheckedPackagesAreBacked
  <1> SUFFICES ASSUME Loading, checked, NEW d \in r_diagnostics, d.code = "ov_vf.broken_reference"
               PROVE  \E i \in DOMAIN show.packages : \E u \in Uuid :
                        /\ show.packages[i].pkl[u] \notin {None, "track_file"}
                        /\ \E k \in DOMAIN Resolver!CompositionReels :
                           \E l \in Present(Resolver!CompositionReels[k].refs) :
                             Resolver!CompositionReels[k].refs[l].asset_id = u
    BY DEF CheckedPackagesAreBacked
  <1>1. /\ Resolving!TypeOK /\ Resolving!WalkIsDetermined /\ Resolving!Packages = show.packages
        /\ show.packages \in Seq(Package)
        /\ \A i \in DOMAIN show.packages : IsLoaded(show.packages[i], TRUE)
    BY ShowFacts, Zenon DEF Loading, Reading, Stages, Resolved, Resolving!Packages
  <1>2. origin # 0 /\ Resolving!Accumulated /\ Resolving!Owners = {origin}
    BY <1>1 DEF Resolving!WalkIsDetermined, Resolving!TargetCodes
  <1>3. PICK k \in DOMAIN resolved_reels : \E l \in Resolving!Present(Resolving!Refs(k)) :
          d = Resolving!LaneDiagnostic(k, l)
    BY <1>2 DEF Resolving!Accumulated, Resolving!BrokenDependencyDiagnostic, Resolving!Diagnostic
  <1>4. PICK l \in Resolving!Present(Resolving!Refs(k)) : d = Resolving!LaneDiagnostic(k, l)
    BY <1>3
  <1> DEFINE id == Resolving!Refs(k)[l].asset_id
  <1>5. Resolving!Outcome(k, l) \in {"local_broken", "external_broken"}
    <2>1. Resolving!DiagnosticFor(Resolving!Outcome(k, l)) = "ov_vf.broken_reference"
      BY <1>4 DEF Resolving!LaneDiagnostic, Resolving!Diagnostic
    <2> QED BY <2>1 DEF Resolving!DiagnosticFor
  <1>6. /\ r_request \in Resolving!Request /\ origin \in Resolving!Owners
        /\ origin \in DOMAIN show.packages /\ Resolving!CompositionReels \in Seq(Resolving!CplReel)
    <2>1. r_request \in Resolving!Request
      BY <1>1 DEF Resolving!TypeOK
    <2>2. /\ Resolving!Owners \subseteq DOMAIN Resolving!Packages
          /\ \A o \in Resolving!Owners : Resolving!Packages[o].cpls[r_request.composition_id] \in Seq(Resolving!CplReel)
      BY <2>1, Resolving!OwnersFacts, ResolvingAssumptions
    <2> QED BY <1>1, <1>2, <2>1, <2>2 DEF Resolving!CompositionReels
  <1>7. k \in 1 .. Len(Resolving!CompositionReels) /\ k \in DOMAIN Reels
    <2>1. Len(resolved_reels) <= Len(Resolving!CompositionReels) /\ resolved_reels \in Seq(Resolving!GraphReel)
      BY <1>1, <1>2, <1>6 DEF Resolving!TypeOK, Resolving!WalkIsDetermined
    <2>2. k \in 1 .. Len(Resolving!CompositionReels)
      BY <1>6, <2>1
    <2> QED BY <1>6, <2>2, ResolvingWords
  <1>8. id \in Uuid
    <2>1. Resolving!Refs(k)[l] \in Resolving!AssetReference
      BY <1>6, <1>7, Resolving!ReelFacts, ResolvingAssumptions
    <2> QED BY <2>1, ResolvingData DEF AssetReference
  <1>9. \E i \in DOMAIN show.packages : Resolving!ResolveInPackage(show.packages[i], id) = "broken"
    <2>1. Resolving!ReferenceOutcome(show.packages, origin, id) \in {"local_broken", "external_broken"}
      BY <1>1, <1>5 DEF Resolving!Outcome
    <2> HIDE DEF id
    <2> QED BY <1>6, <2>1 DEF Resolving!ReferenceOutcome, Resolving!ExternalOutcome, Resolving!ExternalIn
  <1>10. PICK i \in DOMAIN show.packages : Resolving!ResolveInPackage(show.packages[i], id) = "broken"
    BY <1>9
  <1>11. show.packages[i].pkl[id] \notin {None, "track_file"}
    <2>1. IsLoaded(show.packages[i], TRUE)
      BY <1>1, Zenon
    <2>2. show.packages[i] \in Package
      BY <2>1 DEF IsLoaded
    <2> HIDE DEF id
    <2> QED BY <1>8, <1>10, <2>1, <2>2, BrokenInPackage, Zenon
  <1>12. l \in Present(Reels[k].refs) /\ Reels[k].refs[l].asset_id = id
    BY <1>4, ResolvingWords
  <1> HIDE DEF id
  <1> QED BY <1>7, <1>8, <1>11, <1>12 DEF Reels

\* For every show that is read from documents and compared: a reference breaks
\* only because some package lists the asset under another type than that of a
\* track file; what a compared package lists, its asset map leads to.
THEOREM ComparisonCorrectness == LoadSpec => []CheckedPackagesAreBacked
  BY CheckedBacked, LoadingInvariant, PTL

=============================================================================
