----------------------------- MODULE JsonReader ------------------------------
(***************************************************************************)
(* JsonParser of secure_time: a recursive descent over a JSON text. A text *)
(* is a sequence of tokens, because the code skips the whitespace between  *)
(* them; a token of kind "junk" is anything that starts none of the others *)
(* (a misspelt literal, an unterminated string, a sign without digits).    *)
(* The reader keeps every member of an object in order, a repeated key     *)
(* included; find_field takes the first. Where an error is found is left   *)
(* out: every error gives the one diagnostic json_malformed.               *)
(*                                                                         *)
(* The characters of a string are glyphs: a run of plain characters, or    *)
(* one character by its code point. No glyph by code is used for a         *)
(* character that occurs in a run.                                         *)
(***************************************************************************)
EXTENDS Integers, SequencesExt

CONSTANTS
  MaxInt,   \* the largest std::int64_t
  Runs      \* the runs of plain characters, and "" for none

ASSUME MaxIntAssumption == MaxInt \in Nat
ASSUME RunsAssumption == "" \in Runs

-----------------------------------------------------------------------------
(* Values *)

Null       == [null |-> TRUE]
Boolean(b) == [boolean |-> b]
Number(n)  == [number |-> n]
String(t)  == [string |-> t]
Array(s)   == [array |-> s]
Object(s)  == [object |-> s]      \* a sequence of [key, value]

Is(type, v) == type \in DOMAIN v

\* What a lookup or a reading that fails returns.
Nothing == [nothing |-> TRUE]

FindField(v, key) ==
  LET at == SelectInSeq(v.object, LAMBDA member : member.key = key)
  IN IF at = 0 THEN Nothing ELSE v.object[at].value

Plain(run)   == [run |-> run, code |-> 0]
CodePoint(n) == [run |-> "", code |-> n]

-----------------------------------------------------------------------------
(* Strings. A piece of a string literal is a run, one raw character, an     *)
(* escape by the code of its letter, a unit of four hexadecimal digits or a *)
(* unit with other digits.                                                  *)

Escapes ==
  [letter \in {34, 92, 47, 98, 102, 110, 114, 116} |->
     CASE letter = 98 -> 8 [] letter = 102 -> 12 [] letter = 110 -> 10 [] letter = 114 -> 13
       [] letter = 116 -> 9 [] OTHER -> letter]

IsHigh(unit) == unit \in 55296 .. 56319
IsLow(unit)  == unit \in 56320 .. 57343

\* The character of a high and a low surrogate.
Paired(high, low) == CodePoint(65536 + (high - 55296) * 1024 + (low - 56320))

\* high is a high surrogate that waits for the low one that must follow it.
DecodePiece(read, piece) ==
  LET Take(glyph) == [read EXCEPT !.text = Append(@, glyph)]
      bad         == [read EXCEPT !.ok = FALSE]
  IN IF ~read.ok THEN read
     ELSE IF read.high # 0 THEN
       IF piece.form = "unit" /\ IsLow(piece.code)
       THEN [Take(Paired(read.high, piece.code)) EXCEPT !.high = 0]
       ELSE bad
     ELSE IF piece.form = "plain" THEN Take(Plain(piece.run))
     ELSE IF piece.form = "raw" /\ piece.code >= 32 THEN Take(CodePoint(piece.code))
     ELSE IF piece.form = "escape" /\ piece.code \in DOMAIN Escapes THEN Take(CodePoint(Escapes[piece.code]))
     ELSE IF piece.form = "unit" /\ IsHigh(piece.code) THEN [read EXCEPT !.high = piece.code]
     ELSE IF piece.form = "unit" /\ ~IsLow(piece.code) THEN Take(CodePoint(piece.code))
     ELSE bad

\* reading[n] is what has been read after n pieces.
DecodeString(pieces) ==
  LET reading[n \in 0 .. Len(pieces)] ==
        IF n = 0 THEN [text |-> <<>>, high |-> 0, ok |-> TRUE]
        ELSE DecodePiece(reading[n - 1], pieces[n])
      read == reading[Len(pieces)]
  IN IF read.ok /\ read.high = 0 THEN String(read.text) ELSE Nothing

\* What a piece may be, and a glyph.
Pieces ==
  [form : {"plain", "raw", "escape", "unit", "bad_unit"}, run : Runs, code : Nat]
Glyphs == {glyph \in [run : Runs, code : Nat] : glyph.run = "" \/ glyph.code = 0}

Piece(form, run, code) == [form |-> form, run |-> run, code |-> code]

\* json_escape, glyph by glyph. It never writes the escape of the slash.
Letters(code) == {letter \in DOMAIN Escapes \ {47} : Escapes[letter] = code}

\* The mistake: control characters without a letter are written as they are.
MutEscape(glyph) ==
  IF glyph.run # "" THEN Piece("plain", glyph.run, 0)
  ELSE IF Letters(glyph.code) # {} THEN Piece("escape", "", CHOOSE letter \in Letters(glyph.code) : TRUE)
  ELSE Piece("raw", "", glyph.code)

Escape(glyph) ==
  IF glyph.run # "" THEN Piece("plain", glyph.run, 0)
  ELSE IF Letters(glyph.code) # {} THEN Piece("escape", "", CHOOSE letter \in Letters(glyph.code) : TRUE)
  ELSE IF glyph.code < 32 THEN Piece("unit", "", glyph.code)
  ELSE Piece("raw", "", glyph.code)

-----------------------------------------------------------------------------
(* Tokens *)

Token(kind) == [kind |-> kind, pieces |-> <<>>, negative |-> FALSE, magnitude |-> 0, fraction |-> FALSE]

StringToken(pieces) == [Token("string") EXCEPT !.pieces = pieces]

Kinds == {"{", "}", "[", "]", ":", ",", "string", "number", "true", "false", "null", "junk"}

Tokens ==
  [kind : Kinds, pieces : Seq(Pieces), negative : BOOLEAN, magnitude : Nat, fraction : BOOLEAN]

\* A number with a fraction or an exponent has fraction set.
NumberToken(negative, magnitude, fraction) ==
  [Token("number") EXCEPT !.negative = negative, !.magnitude = magnitude, !.fraction = fraction]

\* parse_number: the least std::int64_t has a magnitude of one more than the
\* largest.
NumberValue(token) ==
  IF token.fraction \/ token.magnitude > MaxInt + (IF token.negative THEN 1 ELSE 0) THEN Nothing
  ELSE Number(IF token.negative THEN -token.magnitude ELSE token.magnitude)

Scalar(token) ==
  IF token.kind = "string" THEN DecodeString(token.pieces)
  ELSE IF token.kind = "number" THEN NumberValue(token)
  ELSE IF token.kind \in {"true", "false"} THEN Boolean(token.kind = "true")
  ELSE IF token.kind = "null" THEN Null
  ELSE Nothing

-----------------------------------------------------------------------------
(* Texts *)

\* What follows an entry of an object or an array that close ends.
\* The mistake: either bracket ends either of them.
MutAfterEntry(kind, close) ==
  IF kind \in {"}", "]"} THEN "ended" ELSE IF kind = "," THEN "another" ELSE "malformed"

AfterEntry(kind, close) ==
  IF kind = close THEN "ended" ELSE IF kind = "," THEN "another" ELSE "malformed"

\* A value that was found, or the rest of a list, and the position after it.
Found(value, next) == [value |-> value, next |-> next]

KindAt(text, i) == IF i \in DOMAIN text THEN text[i].kind ELSE "end"

KeyAt(text, i) == IF KindAt(text, i) = "string" THEN DecodeString(text[i].pieces) ELSE Nothing

ReadScalar(text, i) ==
  IF i \in DOMAIN text /\ Scalar(text[i]) # Nothing THEN Found(Scalar(text[i]), i + 1) ELSE Nothing

\* The object or the array of a list that was read, and a list with one more
\* entry before it.
Enclosed(part, rest) ==
  IF rest = Nothing THEN Nothing
  ELSE Found(IF part = "members" THEN Object(rest.value) ELSE Array(rest.value), rest.next)

Prefixed(entry, rest) == IF rest = Nothing THEN Nothing ELSE Found(<<entry>> \o rest.value, rest.next)

Keyed(key, found) ==
  IF key = Nothing \/ found = Nothing THEN Nothing
  ELSE Found([key |-> key.string, value |-> found.value], found.next)

\* In the next four definitions Parse is the function that Read defines.
ReadValue(text, i, Parse) ==
  IF KindAt(text, i) = "{" THEN
    IF KindAt(text, i + 1) = "}" THEN Found(Object(<<>>), i + 2) ELSE Enclosed("members", Parse[<<"members", i + 1>>])
  ELSE IF KindAt(text, i) = "[" THEN
    IF KindAt(text, i + 1) = "]" THEN Found(Array(<<>>), i + 2) ELSE Enclosed("items", Parse[<<"items", i + 1>>])
  ELSE ReadScalar(text, i)

ReadEntry(text, part, i, Parse) ==
  IF part = "items" THEN Parse[<<"value", i>>]
  ELSE Keyed(KeyAt(text, i), IF KindAt(text, i + 1) = ":" THEN Parse[<<"value", i + 2>>] ELSE Nothing)

Followed(part, entry, after, Parse) ==
  IF after = "ended" THEN Found(<<entry.value>>, entry.next + 1)
  ELSE IF after = "another" THEN Prefixed(entry.value, Parse[<<part, entry.next + 1>>])
  ELSE Nothing

ReadList(text, part, entry, Parse) ==
  IF entry = Nothing THEN Nothing
  ELSE Followed(part, entry, AfterEntry(KindAt(text, entry.next), IF part = "members" THEN "}" ELSE "]"), Parse)

\* The value that ends with the text.
WholeText(text, root) == IF root = Nothing \/ root.next # Len(text) + 1 THEN Nothing ELSE root.value

\* Parse finds at position i of the text a value, the rest of the members of an
\* object or the rest of the items of an array.
Read(text) ==
  LET Parse[at \in {"value", "members", "items"} \X Nat] ==
        IF at[1] = "value" THEN ReadValue(text, at[2], Parse)
        ELSE ReadList(text, at[1], ReadEntry(text, at[1], at[2], Parse), Parse)
  IN WholeText(text, Parse[<<"value", 1>>])
=============================================================================
