---------------------------- MODULE DcpLegality -----------------------------
(***************************************************************************)
(* Which documents are legal asset maps, packing lists and composition     *)
(* playlists, by the object specifications (specs/objects/AssetMap.md,     *)
(* PKL.md, CPL.md): a statement about the tree of the document, to which   *)
(* the parsers are compared. And what a path in a diagnostic leads to.     *)
(***************************************************************************)
EXTENDS DcpFields, FiniteSets

-----------------------------------------------------------------------------
(* Markup *)

LegalCharacter(code) ==
  code \in {9, 10, 13} \/ (32 <= code /\ code <= 55295) \/ (57344 <= code /\ code <= 1114111)

\* The number that digits stand for.
NumberOf(digits, base) ==
  LET number[i \in 0 .. Len(digits)] == IF i = 0 THEN 0 ELSE base * number[i - 1] + digits[i]
  IN number[Len(digits)]

WellFormedWord(word) ==
  /\ "unknown_entity" \notin DOMAIN word
  /\ "entity" \in DOMAIN word =>
       /\ word.entity # <<>> /\ \A i \in DOMAIN word.entity : word.entity[i] < word.base
       /\ LegalCharacter(NumberOf(word.entity, word.base))

WellFormedWords(words) == \A i \in DOMAIN words : WellFormedWord(words[i])

WellFormedToken(token) ==
  /\ token.kind \in {"open", "empty", "close", "text"}
  /\ token.kind = "text" => WellFormedWords(token.words)
  /\ token.kind \in {"open", "empty"} =>
       \A a \in DOMAIN token.attributes :
         token.attributes[a].fault = "" /\ WellFormedWords(token.attributes[a].words)

\* How many elements are open after i tokens.
Depth(tokens, i) ==
  LET Change(token) == IF token.kind = "open" THEN 1 ELSE IF token.kind = "close" THEN -1 ELSE 0
      depth[k \in 0 .. Len(tokens)] == IF k = 0 THEN 0 ELSE depth[k - 1] + Change(tokens[k])
  IN depth[i]

\* The tag i closes the tag j: it is the first to end at the depth before j.
Closes(tokens, i, j) ==
  /\ tokens[j].kind = "open" /\ tokens[j].name = tokens[i].name
  /\ Depth(tokens, j) = Depth(tokens, i - 1)
  /\ \A k \in j .. i - 1 : Depth(tokens, k) >= Depth(tokens, j)

Said(tokens) ==
  {i \in DOMAIN tokens : /\ tokens[i].kind \notin {"comment", "instruction"}
                        /\ ~(tokens[i].kind = "text" /\ tokens[i].words = <<>>)}

\* Without comments, instructions and blank texts there is one element, every
\* closing tag closes an opening tag of its name, and texts are inside.
WellFormed(tokens) ==
  LET said == Said(tokens)
  IN /\ said # {}
     /\ \A i \in said :
          /\ WellFormedToken(tokens[i])
          /\ (\A j \in said : i <= j) => tokens[i].kind \in {"open", "empty"}
          /\ Depth(tokens, i) > 0 <=> \E j \in said : i < j
          /\ tokens[i].kind = "close" => \E j \in 1 .. i - 1 : Closes(tokens, i, j)

-----------------------------------------------------------------------------
(* Texts *)

NoneTwice(keys) == \A i, j \in DOMAIN keys : keys[i] = keys[j] => i = j

Items(node, list, item) == ItemsOf(Child(node, list), item)

Texts(nodes, name) == [i \in DOMAIN nodes |-> TextOf(nodes[i], name)]

IdText(text) == Is(text, "id") /\ text[1].spelling \in {"lower", "upper", "urn"}

NumberText(text, numbers) == Is(text, "number") /\ text[1].number \in numbers

TimeText(text) == Is(text, "time") /\ IsUtc(text[1].time)

\* The ids of nodes, which must be legal and differ.
LegalIds(nodes) ==
  LET texts == Texts(nodes, "Id")
  IN /\ \A i \in DOMAIN texts : IdText(texts[i])
     /\ NoneTwice([i \in DOMAIN texts |-> texts[i][1].id])

LegalHeader(root, document) ==
  /\ root.name[2] = document
  /\ IdText(TextOf(root, "Id"))
  /\ TextOf(root, "Issuer") # <<>>
  /\ TimeText(TextOf(root, "IssueDate"))

-----------------------------------------------------------------------------
(* Asset maps *)

\* Where a walk along the segments of a relative path ends, as the segments from
\* the start; None if the walk leaves through the start.
Place(segments) ==
  LET Go(here, segment) ==
        IF here = None \/ segment \in {"", "."} THEN here
        ELSE IF segment # ".." THEN Append(here, segment)
        ELSE IF here = <<>> THEN None ELSE Front(here)
      after[i \in 0 .. Len(segments)] == IF i = 0 THEN <<>> ELSE Go(after[i - 1], segments[i])
  IN after[Len(segments)]

\* A path leads below the start and takes no step up on the way.
PathText(text) ==
  /\ Is(text, "segments")
  /\ ~text[1].backslash /\ text[1].segments[1] # ""
  /\ ".." \notin ToSet(text[1].segments)
  /\ Place(text[1].segments) # <<>>

LegalChunks(chunks, volumes) ==
  /\ chunks # <<>>
  /\ \A k \in DOMAIN chunks :
       /\ PathText(TextOf(chunks[k], "Path"))
       /\ NumberText(TextOf(chunks[k], "Offset"), 0 .. MaxUint64)
       /\ NumberText(TextOf(chunks[k], "Length"), 1 .. MaxUint64)
       /\ NumberText(TextOf(chunks[k], "VolumeIndex"), 1 .. volumes)
  /\ NoneTwice([k \in DOMAIN chunks |-> <<TextOf(chunks[k], "VolumeIndex")[1].number,
                                          Place(TextOf(chunks[k], "Path")[1].segments),
                                          TextOf(chunks[k], "Offset")[1].number>>])

LegalAssetMap(root) ==
  LET assets == Items(root, "AssetList", "Asset")
  IN /\ LegalHeader(root, "AssetMap")
     /\ NumberText(TextOf(root, "VolumeCount"), 1 .. MaxUint32)
     /\ Child(root, "AssetList") # NoNode
     /\ LegalIds(assets)
     /\ \A i \in DOMAIN assets :
          LegalChunks(Items(assets[i], "ChunkList", "Chunk"), TextOf(root, "VolumeCount")[1].number)

\* What is recorded of each chunk leads where the document says.
PathsAreKept(asset_map, root) ==
  LET assets == Items(root, "AssetList", "Asset")
  IN \A i \in DOMAIN assets :
       LET chunks == Items(assets[i], "ChunkList", "Chunk")
       IN \A k \in DOMAIN chunks :
            asset_map.assets[i].chunk_list[k].path = Place(TextOf(chunks[k], "Path")[1].segments)

-----------------------------------------------------------------------------
(* Packing lists *)

\* A digest of n bytes is 2n hexadecimal digits, or blocks of four characters of
\* base64: each stands for three bytes, less one if it has an equals sign and one
\* more if it has another. Where in its block a sign stands the document does not
\* say, nor that only the last block may have one.
Size(word) == IF "hex" \in DOMAIN word THEN word.hex ELSE word.chars
Pads(word) == IF "hex" \in DOMAIN word THEN {} ELSE word.pads

\* How many characters the first i words have.
SizeOf(text, i) ==
  LET size[k \in 0 .. Len(text)] == IF k = 0 THEN 0 ELSE size[k - 1] + Size(text[k]) IN size[i]

Signs(text) == UNION {{SizeOf(text, i - 1) + p : p \in Pads(text[i])} : i \in DOMAIN text}

Base64Text(text, n) ==
  LET size    == SizeOf(text, Len(text))
      blocks  == 1 .. size \div 4
      With(m) == {b \in blocks : Cardinality(Signs(text) \cap (4 * b - 3 .. 4 * b)) >= m}
  IN /\ \A i \in DOMAIN text : {"hex", "chars"} \cap DOMAIN text[i] # {}
     /\ size % 4 = 0
     /\ 3 * (size \div 4) - Cardinality(With(1)) - Cardinality(With(2)) = n

DigestText(text, n) == IF Is(text, "hex") THEN text[1].hex = 2 * n ELSE Base64Text(text, n)

\* An algorithm that names both is SHA-1.
LegalHash(hash) ==
  LET algorithm  == FindAttribute(hash, <<"", "Algorithm">>)
      Says(mark) == \E i \in DOMAIN algorithm : "marks" \in DOMAIN algorithm[i] /\ mark \in algorithm[i].marks
  IN /\ algorithm # None
     /\ \/ Says("sha1") /\ DigestText(hash.words, 20)
        \/ ~Says("sha1") /\ Says("sha256") /\ DigestText(hash.words, 32)

LegalPackingList(root) ==
  LET assets == Items(root, "AssetList", "Asset")
  IN /\ LegalHeader(root, "PackingList")
     /\ Child(root, "AssetList") # NoNode
     /\ LegalIds(assets)
     /\ \A i \in DOMAIN assets :
          /\ TextOf(assets[i], "Type") # <<>>
          /\ NumberText(TextOf(assets[i], "Size"), 1 .. MaxUint64)
          /\ Child(assets[i], "Hash") # NoNode
          /\ LegalHash(Child(assets[i], "Hash"))

-----------------------------------------------------------------------------
(* Composition playlists *)

TrackElements == {"MainPicture", "MainSound", "MainSubtitle"}

RateText(text) == Len(text) = 2 /\ \A i \in 1 .. 2 : NumberText(<<text[i]>>, 1 .. MaxUint32)

\* A reel has a track, and no two of one kind or of one asset.
LegalReel(reel) ==
  LET tracks == Select(Child(reel, "AssetList").children, LAMBDA child : child.name[2] \in TrackElements)
  IN /\ Child(reel, "AssetList") # NoNode
     /\ tracks # <<>>
     /\ NoneTwice([i \in DOMAIN tracks |-> tracks[i].name[2]])
     /\ LegalIds(tracks)
     /\ \A i \in DOMAIN tracks : RateText(TextOf(tracks[i], "EditRate"))

LegalCpl(root) ==
  LET reels == Items(root, "ReelList", "Reel")
  IN /\ LegalHeader(root, "CompositionPlaylist")
     /\ TextOf(root, "ContentTitleText") # <<>>
     /\ RateText(TextOf(root, "EditRate"))
     /\ reels # <<>>
     /\ LegalIds(reels)
     /\ \A i \in DOMAIN reels : LegalReel(reels[i])

-----------------------------------------------------------------------------
(* Diagnostics *)

\* The node that a path leads to; NoNode if there is none. A step without a
\* position leads to the first child of its name.
NodeAt(root, path) ==
  LET Go(node, step) ==
        IF node = NoNode THEN NoNode
        ELSE LET named == Children(node, step[2])
                 k     == IF step[3] = 0 THEN 1 ELSE step[3]
             IN IF k \in DOMAIN named THEN named[k] ELSE NoNode
      at[i \in 1 .. Len(path)] ==
        IF i = 1 THEN IF path[1] = Step(root.name[2]) THEN root ELSE NoNode
        ELSE Go(at[i - 1], path[i])
  IN IF path = <<>> THEN NoNode ELSE at[Len(path)]

Lacks(node, items) == node = NoNode \/ \A name \in items : Children(node, name) = <<>>

\* A diagnostic names a node with the defect that its code tells of, or the
\* place in an existing node where one is missing; a document that has nodes is
\* not called malformed.
HasDefect(d, node, parent) ==
  CASE d.code = "xml_malformed"            -> FALSE
    [] d.code = "missing_required_field"   -> parent # NoNode /\ (node = NoNode \/ node.words = <<>>)
    [] d.code = "empty_chunk_list"         -> parent # NoNode /\ Lacks(node, {"Chunk"})
    [] d.code = "empty_reel_list"          -> parent # NoNode /\ Lacks(node, {"Reel"})
    [] d.code = "reel_missing_track"       -> node # NoNode /\ Lacks(node, TrackElements)
    [] d.code = "invalid_digest_algorithm" -> parent # NoNode
    [] d.code = "invalid_uuid"             -> node # NoNode /\ ~IdText(node.words)
    [] d.code = "invalid_time"             -> node # NoNode /\ ~TimeText(node.words)
    [] d.code = "invalid_edit_rate"        -> node # NoNode /\ ~RateText(node.words)
    [] d.code = "invalid_relative_path"    -> node # NoNode /\ ~PathText(node.words)
    [] d.code = "duplicate_track_type"     -> node # NoNode /\ Last(d.path)[3] > 1
    [] OTHER                               -> node # NoNode

TellsOf(d, root) == HasDefect(d, NodeAt(root, d.path), NodeAt(root, Front(d.path)))
=============================================================================
