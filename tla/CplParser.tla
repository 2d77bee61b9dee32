------------------------------ MODULE CplParser ------------------------------
(***************************************************************************)
(* cpl::parse: a composition playlist from its document. The optional      *)
(* texts, which nothing reads, are left out.                               *)
(***************************************************************************)
EXTENDS DcpFields

\* The order of the lanes in a reel, with their elements.
Lanes     == <<"picture", "sound", "subtitle">>
TrackName == [picture |-> "MainPicture", sound |-> "MainSound", subtitle |-> "MainSubtitle"]

\* parse_edit_rate: two words, each a positive number.
RateOf(numerator, denominator) ==
  IF numerator = None \/ denominator = None THEN None ELSE <<numerator, denominator>>

EditRate(text) ==
  IF Len(text) # 2 THEN None
  ELSE RateOf(Positive(<<text[1]>>, MaxUint32), Positive(<<text[2]>>, MaxUint32))

RequiredEditRate(parent, path) ==
  Required(parent, path, "EditRate", LAMBDA text : EditRate(text) # None, "invalid_edit_rate")

Reels(root) == ItemsOf(Child(root, "ReelList"), "Reel")

Tracks(list, lane) == Children(list, TrackName[lane])

\* The id of the first track of each lane; None if there is none that is legal.
IdOf(track) == IF track = NoNode THEN None ELSE NormalizedUuid(TextOf(track, "Id"))

LaneIds(list) == [l \in DOMAIN Lanes |-> IdOf(First(Tracks(list, Lanes[l])))]

\* The first track of a lane is read, the others are reported.
TrackDiagnostics(track, path) == RequiredId(track, path) \union RequiredEditRate(track, path)

LaneDiagnostics(tracks, path, name) ==
  (IF tracks = <<>> THEN {} ELSE TrackDiagnostics(tracks[1], Under(path, name)))
  \union {Err("duplicate_track_type", Nth(path, name, k)) : k \in DOMAIN tracks \ {1}}

ListDiagnostics(list, path) ==
  (UNION {LaneDiagnostics(Tracks(list, Lanes[l]), path, TrackName[Lanes[l]]) : l \in DOMAIN Lanes})
  \union Reports(\A l \in DOMAIN Lanes : Tracks(list, Lanes[l]) = <<>>, Err("reel_missing_track", path))
  \union {Err("duplicate_asset_reference", Under(Under(path, TrackName[Lanes[l]]), "Id")) :
            l \in Repeats(LaneIds(list))}

AssetListDiagnostics(list, path) ==
  IF list = NoNode THEN {Err("missing_required_field", path)} ELSE ListDiagnostics(list, path)

ReelDiagnostics(reel, path) ==
  RequiredId(reel, path) \union AssetListDiagnostics(Child(reel, "AssetList"), Under(path, "AssetList"))

ReelListDiagnostics(reels, path) ==
  Reports(reels = <<>>, Err("empty_reel_list", path))
  \union (UNION {ReelDiagnostics(reels[i], Nth(path, "Reel", i)) : i \in DOMAIN reels})
  \union DuplicateIds(reels, path, "Reel", "duplicate_reel_id")

CplDiagnostics(root) ==
  LET path == <<Step("CompositionPlaylist")>>
      list == Under(path, "ReelList")
  IN HeaderDiagnostics(root, "CompositionPlaylist")
     \union RequiredText(root, path, "ContentTitleText")
     \union RequiredEditRate(root, path)
     \union (IF Child(root, "ReelList") = NoNode THEN {Err("missing_required_field", list)}
             ELSE ReelListDiagnostics(Reels(root), list))

Reference(track) ==
  IF track = NoNode THEN None
  ELSE [asset_id |-> IdOf(track), edit_rate |-> EditRate(TextOf(track, "EditRate"))]

ReelEntry(reel, list) ==
  [reel_id |-> NormalizedUuid(TextOf(reel, "Id")),
   refs    |-> [lane \in DOMAIN TrackName |-> Reference(First(Tracks(list, lane)))]]

ReelEntries(reels) == [i \in DOMAIN reels |-> ReelEntry(reels[i], Child(reels[i], "AssetList"))]

CompositionPlaylist(root) ==
  [composition_id |-> NormalizedUuid(TextOf(root, "Id")),
   schema_flavor  |-> SchemaFlavor(root, "CompositionPlaylist"),
   edit_rate      |-> EditRate(TextOf(root, "EditRate")),
   reels          |-> ReelEntries(Reels(root))]

ParseCpl(read) == Parsed(read, "CompositionPlaylist", CplDiagnostics, CompositionPlaylist)
=============================================================================
