------------------------------ MODULE DcpFields ------------------------------
(***************************************************************************)
(* What the parsers of the asset map, the packing list and the composition *)
(* playlist have in common, each in its own copy: the reading of required  *)
(* and optional texts, ids, times and integers, the members that all three *)
(* documents have, and the frame of parse. A diagnostic code is without    *)
(* the prefix that names the document.                                     *)
(*                                                                         *)
(* The words of a document, by their fields:                               *)
(*   id, spelling       a UUID in lower case, in upper case, with urn:uuid:*)
(*                      before it or with a character missing              *)
(*   number             an unsigned decimal number                         *)
(*   time               a text of the form of a UTC time, see UtcTime      *)
(*   segments,          a relative or absolute path, cut at its slashes,   *)
(*     backslash        and whether it has a backslash                     *)
(*   marks              the parts of a type or an algorithm that the code  *)
(*                      looks for, in any case of letters                  *)
(*   hex                so many hexadecimal digits                         *)
(*   chars, pads        so many characters of base64, an equals sign at    *)
(*                      each of these positions                            *)
(*   namespace, flavor  a known namespace of a kind of document            *)
(*   plain              anything else                                      *)
(***************************************************************************)
EXTENDS XmlDom, UtcTime

CONSTANTS MaxUint32, MaxUint64   \* the limits of the two integer types

Diagnostic(code, severity, path) == [code |-> code, severity |-> severity, path |-> path]

Err(code, path) == Diagnostic(code, "error", path)

Reports(condition, diagnostic) == IF condition THEN {diagnostic} ELSE {}

Under(path, name)      == Append(path, Step(name))
Nth(path, name, index) == Append(path, <<"", name, index>>)

-----------------------------------------------------------------------------
(* Texts. A text of one word is that word. *)

\* A child that is missing and one without text are the same to the parsers.
WordsOf(node) == IF node = NoNode THEN <<>> ELSE node.words

TextOf(parent, name) == WordsOf(Child(parent, name))

\* The items of a list; none if the list is missing.
ItemsOf(list, item) == IF list = NoNode THEN <<>> ELSE Children(list, item)

Is(text, kind) == Len(text) = 1 /\ kind \in DOMAIN text[1]

\* required_text, and the check of the text that follows it.
RequiredWords(text, path, Legal(_), code) ==
  IF text = <<>> THEN {Err("missing_required_field", path)} ELSE Reports(~Legal(text), Err(code, path))

Required(parent, path, name, Legal(_), code) ==
  RequiredWords(TextOf(parent, name), Under(path, name), Legal, code)

RequiredText(parent, path, name) == Required(parent, path, name, LAMBDA text : TRUE, "")

NormalizedUuid(text) == IF Is(text, "id") /\ text[1].spelling # "cut" THEN text[1].id ELSE None

IsUuid(text) == NormalizedUuid(text) # None

IsValidUtcTimestamp(text) == Is(text, "time") /\ IsUtc(text[1].time)

Unsigned(text, max) == IF Is(text, "number") /\ text[1].number <= max THEN text[1].number ELSE None

Positive(text, max) == IF Unsigned(text, max) = 0 THEN None ELSE Unsigned(text, max)

\* The positions in a sequence of keys of those that were there before; None is
\* no key.
Repeats(keys) == {k \in DOMAIN keys : keys[k] # None /\ \E j \in 1 .. k - 1 : keys[j] = keys[k]}

Uuids(nodes) == [i \in DOMAIN nodes |-> NormalizedUuid(TextOf(nodes[i], "Id"))]

RequiredId(parent, path) == Required(parent, path, "Id", IsUuid, "invalid_uuid")

DuplicateIds(nodes, path, name, code) ==
  {Err(code, Under(Nth(path, name, k), "Id")) : k \in Repeats(Uuids(nodes))}

-----------------------------------------------------------------------------
(* Documents *)

FlavorOf(uri, document) ==
  IF uri # None /\ Is(uri, "namespace") /\ uri[1].namespace = document THEN uri[1].flavor ELSE "unknown"

SchemaFlavor(root, document) == FlavorOf(NamespaceUri(root), document)

HeaderDiagnostics(root, document) ==
  LET path == <<Step(root.name[2])>>
  IN Reports(SchemaFlavor(root, document) = "unknown", Diagnostic("unsupported_namespace", "warning", path))
     \union RequiredId(root, path)
     \union RequiredText(root, path, "Issuer")
     \union Required(root, path, "IssueDate", IsValidUtcTimestamp, "invalid_time")

Ok(diagnostics) == \A d \in diagnostics : d.severity # "error"

Result(value, diagnostics) == [value |-> value, diagnostics |-> diagnostics]

Published(value, diagnostics) == Result(IF Ok(diagnostics) THEN value ELSE None, diagnostics)

\* What parse returns of what the XML reader made of a document.
Parsed(read, name, DiagnosticsOf(_), Make(_)) ==
  IF read.root = NoNode THEN Result(None, {Err("xml_malformed", read.error)})
  ELSE IF read.root.name[2] # name THEN Result(None, {Err("missing_required_field", <<Step(name)>>)})
  ELSE Published(Make(read.root), DiagnosticsOf(read.root))
=============================================================================
