--------------------------- MODULE MCDcpPipeline ----------------------------
(***************************************************************************)
(* Shows for DcpLoad. Those for DcpPipeline are a composition of two reels *)
(* whose assets are spread over an origin and an OV package, possibly at   *)
(* two rates, and a supplemental package that overrides, repeats or adds   *)
(* lanes. The CPLs are such as the parser lets through: each reel has a    *)
(* lane, its assets differ, and the rates are positive.                    *)
(*                                                                         *)
(* The shows that are told by documents are one show with any one change   *)
(* in any one of its documents, and packages whose asset map is a short    *)
(* sequence of tags and texts.                                             *)
(***************************************************************************)
EXTENDS DcpLoad

LOCAL INSTANCE SequencesExt

CONSTANTS cpl, supp, a1, a2, x, p1, p2, p3, r1, r2, file1, file2

\* All ids are UUIDs.
Ids == {cpl, supp, a1, a2, x, p1, p2, p3, r1, r2}
MCUuid == Ids
MCPklId == Ids
MCReelId == Ids
Film == <<24, 1>>
Fast == <<48, 1>>
MCMaxUint32 == 99
MCRate == (1 .. MCMaxUint32) \X (1 .. MCMaxUint32)
MCMaxUint64 == 999
MCPath == {file1, file2, <<"cpl.xml">>, <<"pic.mxf">>, <<"snd.mxf">>, <<"sub", "pic.mxf">>}
MCPolicyId == {1}
MCUuidRank ==
  [u \in MCUuid |-> CASE u = cpl -> 1 [] u = supp -> 2 [] u = a1 -> 3 [] u = a2 -> 4 [] u = x -> 5
                      [] u = p1 -> 6 [] u = p2 -> 7 [] u = p3 -> 8 [] u = r1 -> 9 [] u = r2 -> 10]

Ref(a, rate) == [asset_id |-> a, edit_rate |-> rate]

Reel(id, picture, sound, subtitle) ==
  [reel_id |-> id,
   refs    |-> [l \in Lane |-> CASE l = "picture" -> picture [] l = "sound" -> sound
                                 [] l = "subtitle" -> subtitle]]

Compositions ==
  {<<Reel(r1, Ref(a1, Film), Ref(a2, rate), None), Reel(r2, None, Ref(a1, Film), None)>> : rate \in {Film, Fast}}

Supplementals ==
  {<<Reel(r1, Ref(x, Film), None, None)>>,
   <<Reel(r1, None, Ref(x, Fast), None)>>,
   <<Reel(r2, None, Ref(x, Film), Ref(a2, Film))>>,
   <<Reel(r1, Ref(a1, Film), Ref(x, Film), None), Reel(r2, None, Ref(a1, Film), None)>>}

MakePackage(id, own, reels, status) ==
  [pkl_id  |-> id,
   pkl     |-> [u \in Uuid |-> CASE u = own -> "composition_playlist"
                                 [] u # own /\ status[u] = "absent" -> None
                                 [] u # own /\ status[u] # "absent" -> "track_file"],
   backing |-> [u \in Uuid |-> IF u = own \/ status[u] = "backed" THEN (IF id = p1 THEN file1 ELSE file2) ELSE None],
   cpls    |-> [u \in Uuid |-> IF u = own THEN reels ELSE None]]

Statuses == {"absent", "unbacked", "backed"}

Status(sa1, sa2, sx) == [u \in Uuid |-> CASE u = a1 -> sa1 [] u = a2 -> sa2 [] u = x -> sx [] OTHER -> "absent"]

Allowed == {<<"picture", "sound">>, <<"sound">>}

MakePolicy(allowed) ==
  [policy_id |-> 1, base_composition_id |-> cpl, supplemental_composition_id |-> supp,
   merge_mode |-> "replace_lane", allowed_overrides |-> allowed]

MCShows ==
  {[composition_id |-> cpl,
    packages       |-> <<MakePackage(p1, cpl, reels, Status(s1, s2, "absent")),
                         MakePackage(ov, None, <<>>, Status(t1, t2, "absent"))>>,
    merge_packages |-> <<MakePackage(mp, supp, supp_reels, Status("absent", m2, sx))>>,
    policies       |-> ps] :
     reels \in Compositions, supp_reels \in Supplementals, ov \in {p1, p2}, mp \in {p2, p3},
     s1 \in Statuses, s2 \in {"absent", "backed"}, t1 \in {"absent", "backed"}, t2 \in Statuses,
     m2 \in {"absent", "backed"}, sx \in Statuses,
     ps \in {<<>>} \cup {<<MakePolicy(allowed)>> : allowed \in Allowed}}

-----------------------------------------------------------------------------
(* Documents. A tree is written as tags and texts.                          *)

Plain == [plain |-> TRUE]
Id(id, spelling) == [id |-> id, spelling |-> spelling]
Num(n) == [number |-> n]
Time(month, day, second) ==
  [time |-> [year |-> 2025, month |-> month, day |-> day, hour |-> 23, minute |-> 59, second |-> second]]
PathWord(segments, backslash) == [segments |-> segments, backslash |-> backslash]
TypeWord(marks) == [marks |-> marks]
Hex(n) == [hex |-> n]
Base64(n, pads) == [chars |-> n, pads |-> pads]
Entity(digits, base) == [entity |-> digits, base |-> base]
Namespace(document, flavor) == [namespace |-> document, flavor |-> flavor]

Element(name, children) == Legality!Node(<<"", name>>, <<>>, <<>>, children)
Leaf(name, words) == Legality!Node(<<"", name>>, <<>>, words, <<>>)

Xmlns(prefix, words) == Legality!Attribute(IF prefix = "" THEN <<"", "xmlns">> ELSE <<"xmlns", prefix>>, words, "")

Root(name, children) ==
  [Element(name, children) EXCEPT !.attributes = <<Xmlns("", <<Namespace(name, "interop")>>)>>]

Tag(kind, name, attributes) == Legality!Token(kind, name, attributes, <<>>)
TextToken(words) == Legality!Token("text", <<"", "">>, <<>>, words)

RECURSIVE Write(_)
Write(node) ==
  <<Tag("open", node.name, node.attributes)>>
  \o (IF node.words = <<>> THEN <<>> ELSE <<TextToken(node.words)>>)
  \o FlattenSeq([i \in DOMAIN node.children |-> Write(node.children[i])])
  \o <<Tag("close", node.name, <<>>)>>

Header(id) ==
  <<Leaf("Id", <<Id(id, "lower")>>), Leaf("Issuer", <<Plain>>), Leaf("IssueDate", <<Time(2, 28, 59)>>)>>

Chunk(file, offset) ==
  Element("Chunk", <<Leaf("Path", <<PathWord(<<file>>, FALSE)>>), Leaf("Offset", <<Num(offset)>>),
                     Leaf("Length", <<Num(5)>>), Leaf("VolumeIndex", <<Num(1)>>)>>)

Mapped(id, chunks) == Element("Asset", <<Leaf("Id", <<Id(id, "lower")>>), Element("ChunkList", chunks)>>)

MapDocument(id, assets) ==
  Root("AssetMap", Header(id) \o <<Leaf("VolumeCount", <<Num(2)>>), Element("AssetList", assets)>>)

Listed(id, type, algorithm, digest) ==
  Element("Asset", <<Leaf("Id", <<Id(id, "urn")>>), Leaf("Type", <<TypeWord(type)>>), Leaf("Size", <<Num(7)>>),
                     [Leaf("Hash", <<digest>>) EXCEPT
                        !.attributes = <<Legality!Attribute(<<"", "Algorithm">>, <<TypeWord({algorithm})>>, "")>>]>>)

ListDocument(id, assets) == Root("PackingList", Header(id) \o <<Element("AssetList", assets)>>)

Track(name, id) == Element(name, <<Leaf("Id", <<Id(id, "upper")>>), Leaf("EditRate", <<Num(24), Num(1)>>)>>)

ReelElement(id, tracks) == Element("Reel", <<Leaf("Id", <<Id(id, "lower")>>), Element("AssetList", tracks)>>)

CplDocument(id, reels) ==
  Root("CompositionPlaylist", Header(id) \o <<Leaf("ContentTitleText", <<Plain>>),
                                              Leaf("EditRate", <<Num(24), Num(1)>>), Element("ReelList", reels)>>)

\* The documents of three packages: the one of the composition, its OV package,
\* and one of a supplemental.
Playlist == {"asdcpkind=cpl", "xml"}
Mxf == {"application/mxf"}

CplMap == MapDocument(p1, <<Mapped(cpl, <<Chunk("cpl.xml", 0)>>),
                            Mapped(a1, <<Chunk("pic.mxf", 0), Chunk("pic.mxf", 5)>>)>>)
CplList == ListDocument(p1, <<Listed(cpl, Playlist, "sha1", Hex(40)),
                              Listed(a1, Mxf, "sha256", Base64(44, {44}))>>)
CplPlaylist == CplDocument(cpl, <<ReelElement(r1, <<Track("MainPicture", a1), Track("MainSound", a2)>>),
                                  ReelElement(r2, <<Track("MainSubtitle", a1)>>)>>)

OvMap == MapDocument(p2, <<Mapped(a2, <<Chunk("snd.mxf", 0)>>)>>)
OvList == ListDocument(p2, <<Listed(a2, Mxf, "sha1", Hex(40))>>)

SuppMap == MapDocument(p3, <<Mapped(supp, <<Chunk("cpl.xml", 0)>>), Mapped(x, <<Chunk("pic.mxf", 0)>>)>>)
SuppList == ListDocument(p3, <<Listed(supp, Playlist, "sha1", Hex(40)), Listed(x, Mxf, "sha1", Hex(40))>>)
SuppPlaylist == CplDocument(supp, <<ReelElement(r1, <<Track("MainPicture", x)>>)>>)

-----------------------------------------------------------------------------
(* Changes: another text of an element, other attributes, an element that   *)
(* is missing or occurs twice.                                              *)

Numbers == {<<>>, <<Plain>>, <<Num(1), Num(1)>>}
           \union {<<Num(n)>> : n \in {0, 1, 2, 3, MCMaxUint32, MCMaxUint32 + 1, MCMaxUint64, MCMaxUint64 + 1}}

Alternatives(name) ==
  CASE name = "Id" -> {<<>>, <<Plain>>, <<Id(x, "urn")>>, <<Id(a1, "upper")>>, <<Id(a1, "cut")>>,
                       <<Id(a1, "lower"), Id(a1, "lower")>>}
    [] name \in {"Issuer", "ContentTitleText"} ->
         {<<>>, <<Plain, Plain>>, <<[unknown_entity |-> TRUE]>>}
         \union {<<Entity(digits, 10)>> : digits \in {<<>>, <<0>>, <<9>>, <<3, 1>>, <<3, 2>>, <<3, 16>>,
                     <<5, 5, 2, 9, 5>>, <<5, 5, 2, 9, 6>>, <<5, 7, 3, 4, 3>>, <<5, 7, 3, 4, 4>>,
                     <<1, 1, 1, 4, 1, 1, 1>>, <<1, 1, 1, 4, 1, 1, 2>>, <<0, 0, 0, 0, 0, 0, 0, 6, 5>>}}
         \union {<<Entity(digits, 16)>> : digits \in {<<>>, <<2, 15>>, <<13, 7, 15, 15>>, <<13, 8, 0, 0>>,
                     <<1, 0, 15, 15, 15, 15>>, <<1, 1, 0, 0, 0, 0>>}}
    [] name = "IssueDate" -> {<<>>, <<Plain>>, <<Time(2, 29, 0)>>, <<Time(13, 1, 0)>>, <<Time(12, 31, 60)>>}
    [] name \in {"VolumeCount", "Offset", "Length", "VolumeIndex", "Size"} -> Numbers
    [] name = "Path" ->
         {<<>>, <<PathWord(<<"pic.mxf">>, TRUE)>>,
          <<[encoded |-> PathWord(<<"..", "pic.mxf">>, FALSE)]>>, <<[encoded |-> PathWord(<<".", "pic.mxf">>, FALSE)]>>}
         \union {<<PathWord(segments, FALSE)>> : segments \in {<<"..", "pic.mxf">>, <<"sub", "..", "pic.mxf">>,
                     <<"", "pic.mxf">>, <<".", "", "pic.mxf", "">>, <<".">>, <<"", "">>, <<"pic.mxf", "..">>}}
    [] name = "Type" -> {<<>>, <<Plain>>, <<TypeWord({})>>, <<TypeWord({"xml"})>>, <<Plain, TypeWord(Playlist)>>,
                         <<TypeWord({"asdcpkind=pkl", "xml"})>>, <<TypeWord(Mxf)>>}
    [] name = "Hash" -> {<<>>, <<Plain>>, <<Hex(39)>>, <<Hex(40)>>, <<Hex(64)>>, <<Hex(20), Hex(20)>>,
                         <<Base64(28, {28})>>, <<Base64(28, {})>>, <<Base64(28, {27})>>, <<Base64(28, {27, 28})>>,
                         <<Base64(27, {})>>, <<Base64(44, {44})>>, <<Base64(14, {}), Base64(14, {14})>>,
                         <<Hex(24), Base64(4, {4})>>, <<Base64(32, {4, 8, 12, 16})>>}
    [] name = "EditRate" -> {<<>>, <<Num(24)>>, <<Num(24), Num(0)>>, <<Num(0), Num(1)>>, <<Num(48), Num(1)>>,
                             <<Num(MCMaxUint32 + 1), Num(1)>>, <<Num(24), Plain>>, <<Num(24), Num(1), Num(1)>>}
    [] OTHER -> {}

\* Other attributes: the namespace of another document, with a prefix, without.
OtherAttributes(name) ==
  LET Algorithm(words, fault) == <<Legality!Attribute(<<"", "Algorithm">>, words, fault)>>
  IN CASE name \in {"AssetMap", "PackingList", "CompositionPlaylist"} ->
            {<<>>, <<Xmlns("", <<Plain>>)>>, <<Xmlns("", <<Namespace("other", "smpte")>>)>>,
             <<Xmlns("dcp", <<Namespace(name, "smpte")>>)>>}
       [] name = "Hash" ->
            {<<>>, Algorithm(<<>>, ""), Algorithm(<<Plain>>, ""), Algorithm(<<TypeWord({"sha1"})>>, ""),
             Algorithm(<<TypeWord({"sha256"})>>, ""), Algorithm(<<TypeWord({})>>, ""),
             Algorithm(<<TypeWord({"sha1", "sha256"})>>, ""),
             Algorithm(<<TypeWord({"sha1"})>>, "name"), Algorithm(<<TypeWord({"sha1"})>>, "value"),
             Algorithm(<<[unknown_entity |-> TRUE]>>, "")}
       [] OTHER -> {}

RECURSIVE Changed(_)
Changed(node) ==
  UNION ({{[node EXCEPT !.words = words] : words \in Alternatives(node.name[2])},
          {[node EXCEPT !.attributes = attributes] : attributes \in OtherAttributes(node.name[2])},
          {[node EXCEPT !.children = RemoveAt(@, i)] : i \in DOMAIN node.children},
          {[node EXCEPT !.children = InsertAt(@, i, node.children[i])] : i \in DOMAIN node.children}}
         \union {{[node EXCEPT !.children[i] = child] : child \in Changed(node.children[i])} :
                   i \in DOMAIN node.children})

\* The root with another name, or with a prefix that it declares.
Renamed(root) ==
  {[root EXCEPT !.name = <<"", "Other">>],
   [root EXCEPT !.name[1] = "dcp", !.attributes = <<Xmlns("dcp", <<Namespace(root.name[2], "smpte")>>)>>]}

Documents(root) == {Write(r) : r \in UNION {{root}, Renamed(root), Changed(root)}}

Comment     == Tag("comment", <<"", "">>, <<>>)
Instruction == Tag("instruction", <<"", "">>, <<>>)
Cut         == Tag("cut", <<"", "">>, <<>>)
Nameless    == Tag("nameless", <<"", "">>, <<>>)

\* A document with a part of it lost, or with something in it that may be
\* anywhere or nowhere.
Torn(tokens) ==
  UNION {{RemoveAt(tokens, i) : i \in DOMAIN tokens},
         {InsertAt(tokens, i, token) : i \in 1 .. Len(tokens) + 1,
                                       token \in {Comment, Instruction, Cut, Nameless, TextToken(<<Plain>>)}}}

MarkupBound == 6
MixedBound  == 4

Tags == {Tag(kind, <<prefix, "a">>, <<>>) : kind \in {"open", "close"}, prefix \in {"", "p"}}

Mixed == {Tag("open", <<"", "a">>, <<>>), Tag("close", <<"", "a">>, <<>>), Tag("empty", <<"", "a">>, <<>>),
          TextToken(<<>>), TextToken(<<Plain>>), TextToken(<<Entity(<<0>>, 10)>>), Comment, Cut, Nameless}

Markup == {SubSeq(tags, 1, n) : tags \in [1 .. MarkupBound -> Tags], n \in 0 .. MarkupBound}
MixedMarkup == {SubSeq(tokens, 1, n) : tokens \in [1 .. MixedBound -> Mixed], n \in 1 .. MixedBound}

MapText  == Write(CplMap)
ListText == Write(CplList)
PlaylistText == Write(CplPlaylist)

Ov == Files(Write(OvMap), Write(OvList), None, TRUE)

Main(map, list, playlist, compared) == Dcp(cpl, <<Files(map, list, playlist, compared), Ov>>, <<>>, <<>>)

Alone(map) == Dcp(cpl, <<Files(map, <<>>, None, FALSE)>>, <<>>, <<>>)

With(map, playlist, compared) ==
  Dcp(cpl, <<Files(MapText, ListText, PlaylistText, TRUE), Ov>>, <<Files(map, Write(SuppList), playlist, compared)>>,
      <<MakePolicy(<<"picture", "sound">>)>>)

ShowsOfMaps      == {Main(m, ListText, PlaylistText, compared) : m \in Documents(CplMap), compared \in BOOLEAN}
ShowsOfLists     == {Main(MapText, l, PlaylistText, compared) : l \in Documents(CplList), compared \in BOOLEAN}
ShowsOfPlaylists == {Main(MapText, ListText, p, TRUE) : p \in Documents(CplPlaylist)}
ShowsOfTornMaps  == {Main(m, ListText, PlaylistText, TRUE) : m \in Torn(MapText)}
ShowsOfMergeMaps == {With(m, Write(SuppPlaylist), TRUE) : m \in Documents(SuppMap)}
ShowsOfMergePlaylists == {With(Write(SuppMap), p, FALSE) : p \in Documents(SuppPlaylist)}
ShowsOfMarkup      == {Alone(m) : m \in Markup}
ShowsOfMixedMarkup == {Alone(m) : m \in MixedMarkup}

MCDcps ==
  {ShowsOfMaps, ShowsOfLists, ShowsOfPlaylists, ShowsOfTornMaps, ShowsOfMergeMaps, ShowsOfMergePlaylists,
   ShowsOfMarkup, ShowsOfMixedMarkup, {Main(MapText, ListText, None, TRUE)}}

=============================================================================
