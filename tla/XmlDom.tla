------------------------------- MODULE XmlDom -------------------------------
(***************************************************************************)
(* The XML reader of the DCP parsers (xml_dom): from a document to a tree  *)
(* of nodes, or to the path of the first error. A document is the sequence *)
(* of its tags, comments and texts. The token "cut" is a comment or a      *)
(* processing instruction without an end, "nameless" any other tag that    *)
(* does not begin with a name: a DOCTYPE, a CDATA section. A byte order    *)
(* mark is not a token.                                                    *)
(*                                                                         *)
(* A text is a sequence of words with whitespace between them, so that it  *)
(* is trimmed as it stands; the texts of one node that a tag or a comment  *)
(* separates have whitespace at their ends, too. A word is a record, whose *)
(* fields tell its kind. A name is a pair of a prefix, or "", and the rest.*)
(*                                                                         *)
(* A definition whose name starts with Mut is a plausible mistake in the   *)
(* definition after it.                                                    *)
(***************************************************************************)
EXTENDS Integers, SequencesExt

CONSTANT None

Token(kind, name, attributes, words) ==
  [kind |-> kind, name |-> name, attributes |-> attributes, words |-> words]

\* fault is "name" if there is no attribute name, "value" if there is no equals
\* sign or no quoted value after it, and else "".
Attribute(name, words, fault) == [name |-> name, words |-> words, fault |-> fault]

Node(name, attributes, words, children) ==
  [name |-> name, attributes |-> attributes, words |-> words, children |-> children]

\* What a lookup that finds no node returns, and the root where there is none.
NoNode == [missing |-> TRUE]

\* A path is a sequence of steps: a local name with the position that the parsers
\* put after it in brackets, 0 where they put none, or the name of an attribute.
Step(name)          == <<"", name, 0>>
AttributeStep(name) == <<name[1], name[2], -1>>

-----------------------------------------------------------------------------
(* Entities. The word [encoded |-> w] is w with characters of it written as *)
(* entities that can be read, [entity |-> digits, base |-> b] a numeric     *)
(* entity by itself and [unknown_entity |-> TRUE] one with an unknown name  *)
(* or without its semicolon.                                                *)

MaxCodePoint == 1114111

Controls == (0 .. 31) \ {9, 10, 13}

Shift(code, digit, base) ==
  IF code < 0 \/ digit >= base \/ code > (MaxCodePoint - digit) \div base THEN -1 ELSE code * base + digit

Character(code) == IF code \in 55296 .. 57343 \/ code \in Controls THEN -1 ELSE code

\* The code point of a numeric entity, -1 if it is refused. A digit that the
\* base does not have is 16.
CodePoint(digits, base) ==
  LET code[i \in 0 .. Len(digits)] == IF i = 0 THEN 0 ELSE Shift(code[i - 1], digits[i], base)
  IN IF digits = <<>> THEN -1 ELSE Character(code[Len(digits)])

Whitespace == {9, 10, 13, 32}

Refused(word) ==
  \/ "unknown_entity" \in DOMAIN word
  \/ "entity" \in DOMAIN word /\ CodePoint(word.entity, word.base) = -1

\* Whitespace that is written as an entity separates words like any other.
DecodedCharacter(code) == IF code \in Whitespace THEN <<>> ELSE <<[character |-> code]>>

DecodedWord(word) ==
  IF "encoded" \in DOMAIN word THEN <<word.encoded>>
  ELSE IF "entity" \in DOMAIN word THEN DecodedCharacter(CodePoint(word.entity, word.base))
  ELSE <<word>>

Decoded(words) == FlattenSeq([i \in DOMAIN words |-> DecodedWord(words[i])])

DecodesAll(words) == \A i \in DOMAIN words : ~Refused(words[i])

-----------------------------------------------------------------------------
(* Elements. open is the stack of the elements not yet closed.              *)

OpenPath(open) == [i \in DOMAIN open |-> Step(open[i].name[2])]

\* The first attribute that cannot be read, or 0.
Faulty(attributes) ==
  SelectInSeq(attributes, LAMBDA attribute : attribute.fault # "" \/ ~DecodesAll(attribute.words))

\* The path of the error in an attribute of an element.
FaultPath(path, attribute) ==
  IF attribute.fault = "name" THEN path ELSE Append(path, AttributeStep(attribute.name))

OpenNode(token) ==
  Node(token.name,
       [i \in DOMAIN token.attributes |-> [token.attributes[i] EXCEPT !.words = Decoded(@)]], <<>>, <<>>)

\* The reader stops at the first error and keeps its path.
Fail(read, path) == [read EXCEPT !.failed = TRUE, !.error = path]

\* An element that has ended goes to the one that holds it, or is the root.
Close(read, node, open) ==
  IF open = <<>> THEN [read EXCEPT !.open = <<>>, !.root = node]
  ELSE [read EXCEPT !.open = [open EXCEPT ![Len(open)].children = Append(@, node)]]

Skipped(token) ==
  \/ token.kind \in {"comment", "instruction"}
  \/ token.kind = "text" /\ token.words = <<>>

\* The mistake: any closing tag ends the open element.
MutReadClose(read, token) == Close(read, Last(read.open), Front(read.open))

ReadClose(read, token) ==
  IF token.name # Last(read.open).name THEN Fail(read, OpenPath(read.open))
  ELSE Close(read, Last(read.open), Front(read.open))

Enter(read, kind, node) ==
  IF kind = "empty" THEN Close(read, node, read.open) ELSE [read EXCEPT !.open = Append(@, node)]

ReadTag(read, token) ==
  LET path   == Append(OpenPath(read.open), Step(token.name[2]))
      faulty == Faulty(token.attributes)
  IN IF faulty # 0 THEN Fail(read, FaultPath(path, token.attributes[faulty]))
     ELSE Enter(read, token.kind, OpenNode(token))

ReadToken(read, token) ==
  LET inside == read.open # <<>>
  IN IF read.failed \/ Skipped(token) THEN read
     ELSE IF read.root = NoNode /\ token.kind \in {"open", "empty"} THEN ReadTag(read, token)
     ELSE IF inside /\ token.kind = "close" THEN ReadClose(read, token)
     ELSE IF inside /\ token.kind = "text" /\ DecodesAll(token.words)
          THEN [read EXCEPT !.open[Len(read.open)].words = @ \o Decoded(token.words)]
     ELSE Fail(read, OpenPath(read.open))

\* The root, or the path of the error.
Outcome(read) ==
  [root  |-> IF read.failed THEN NoNode ELSE read.root,
   error |-> IF read.failed THEN read.error ELSE OpenPath(read.open)]

Unread == [open |-> <<>>, root |-> NoNode, failed |-> FALSE, error |-> <<>>]

ParseDocument(tokens) ==
  LET after[i \in 0 .. Len(tokens)] == IF i = 0 THEN Unread ELSE ReadToken(after[i - 1], tokens[i])
  IN Outcome(after[Len(tokens)])

-----------------------------------------------------------------------------
(* Lookups in the tree *)

\* SelectSeq, written as a recursive function.
Select(s, Test(_)) ==
  LET kept[i \in 0 .. Len(s)] ==
        IF i = 0 THEN <<>> ELSE IF Test(s[i]) THEN Append(kept[i - 1], s[i]) ELSE kept[i - 1]
  IN kept[Len(s)]

Children(node, name) == Select(node.children, LAMBDA child : child.name[2] = name)

First(nodes) == IF nodes = <<>> THEN NoNode ELSE nodes[1]

Child(node, name) == First(Children(node, name))

\* The words of the first attribute with this name.
FindAttribute(node, name) ==
  LET i == SelectInSeq(node.attributes, LAMBDA attribute : attribute.name = name)
  IN IF i = 0 THEN None ELSE node.attributes[i].words

\* The namespace of an element, by its own attributes only. A prefix that they
\* do not declare counts as none.
NamespaceUri(node) ==
  LET prefix   == node.name[1]
      declared == IF prefix = "" THEN None ELSE FindAttribute(node, <<"xmlns", prefix>>)
  IN IF declared # None THEN declared ELSE FindAttribute(node, <<"", "xmlns">>)
=============================================================================
