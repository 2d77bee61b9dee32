--------------------------- MODULE AssetMapParser ---------------------------
(***************************************************************************)
(* assetmap::parse: an asset map from its document. The hints about an     *)
(* asset (packing_list_hint, is_text_xml) are left out, because nothing    *)
(* reads them. The text of a Path is a path.                               *)
(***************************************************************************)
EXTENDS DcpFields

NonEmpty(segments) == IF segments = <<>> THEN None ELSE segments

\* normalize_relative_path: the segments that are kept.
\* The mistake: segments that lead up are dropped like those that lead nowhere.
MutNormalizedPath(text) ==
  LET Kept(segments) == Select(segments, LAMBDA segment : segment \notin {"", ".", ".."})
  IN IF Is(text, "segments") /\ ~text[1].backslash /\ Head(text[1].segments) # ""
     THEN NonEmpty(Kept(text[1].segments)) ELSE None

NormalizedPath(text) ==
  LET Kept(segments) == Select(segments, LAMBDA segment : segment \notin {"", "."})
  IN IF Is(text, "segments") /\ ~text[1].backslash /\ Head(text[1].segments) # ""
        /\ \A i \in DOMAIN text[1].segments : text[1].segments[i] # ".."
     THEN NonEmpty(Kept(text[1].segments)) ELSE None

Assets(root) == ItemsOf(Child(root, "AssetList"), "Asset")

Chunks(asset) == ItemsOf(Child(asset, "ChunkList"), "Chunk")

\* The count against which the volumes of the chunks are checked: none if the
\* document gives no legal one.
VolumeCount(root) == Positive(TextOf(root, "VolumeCount"), MaxUint32)

\* What is recorded of a chunk; None is a member that could not be read. A
\* malformed offset is recorded as 0.
ChunkEntry(chunk) ==
  LET OrZero(offset) == IF offset = None THEN 0 ELSE offset
  IN [path         |-> NormalizedPath(TextOf(chunk, "Path")),
      offset       |-> OrZero(Unsigned(TextOf(chunk, "Offset"), MaxUint64)),
      length       |-> Positive(TextOf(chunk, "Length"), MaxUint64),
      volume_index |-> Positive(TextOf(chunk, "VolumeIndex"), MaxUint32)]

ChunkEntries(chunks) == [k \in DOMAIN chunks |-> ChunkEntry(chunks[k])]

ChunkKey(entry) ==
  IF entry.path = None \/ entry.length = None \/ entry.volume_index = None THEN None
  ELSE <<entry.volume_index, entry.path, entry.offset>>

ChunkKeys(entries) == [k \in DOMAIN entries |-> ChunkKey(entries[k])]

ChunkDiagnostics(chunk, path, volume_count) ==
  Required(chunk, path, "Path", LAMBDA text : NormalizedPath(text) # None, "invalid_relative_path")
  \union Required(chunk, path, "Offset", LAMBDA text : Unsigned(text, MaxUint64) # None, "invalid_integer")
  \union Required(chunk, path, "Length", LAMBDA text : Positive(text, MaxUint64) # None, "invalid_integer")
  \union Required(chunk, path, "VolumeIndex",
                  LAMBDA text : LET index == Positive(text, MaxUint32)
                                IN index # None /\ (volume_count # None => index <= volume_count),
                  "invalid_integer")

ChunkListDiagnostics(chunks, path, volume_count) ==
  Reports(chunks = <<>>, Err("empty_chunk_list", path))
  \union (UNION {ChunkDiagnostics(chunks[k], Nth(path, "Chunk", k), volume_count) : k \in DOMAIN chunks})
  \union {Err("duplicate_chunk_entry", Nth(path, "Chunk", k)) : k \in Repeats(ChunkKeys(ChunkEntries(chunks)))}

AssetDiagnostics(asset, path, volume_count) ==
  RequiredId(asset, path)
  \union ChunkListDiagnostics(Chunks(asset), Under(path, "ChunkList"), volume_count)

\* The positions in the paths count the children of one name.
\* The mistake: they count from 0.
MutAssetPath(i) == Nth(<<Step("AssetMap"), Step("AssetList")>>, "Asset", i - 1)

AssetPath(i) == Nth(<<Step("AssetMap"), Step("AssetList")>>, "Asset", i)

AssetListDiagnostics(assets, path, volume_count) ==
  (UNION {AssetDiagnostics(assets[i], AssetPath(i), volume_count) : i \in DOMAIN assets})
  \union DuplicateIds(assets, path, "Asset", "duplicate_asset_id")

AssetMapDiagnostics(root) ==
  LET path == <<Step("AssetMap")>>
  IN HeaderDiagnostics(root, "AssetMap")
     \union Required(root, path, "VolumeCount", LAMBDA text : Positive(text, MaxUint32) # None, "invalid_integer")
     \union Reports(Child(root, "AssetList") = NoNode, Err("missing_required_field", Under(path, "AssetList")))
     \union AssetListDiagnostics(Assets(root), Under(path, "AssetList"), VolumeCount(root))

AssetEntries(assets) ==
  [i \in DOMAIN assets |-> [asset_id   |-> NormalizedUuid(TextOf(assets[i], "Id")),
                            chunk_list |-> ChunkEntries(Chunks(assets[i]))]]

AssetMap(root) ==
  [asset_map_id  |-> NormalizedUuid(TextOf(root, "Id")),
   schema_flavor |-> SchemaFlavor(root, "AssetMap"),
   volume_count  |-> VolumeCount(root),
   assets        |-> AssetEntries(Assets(root))]

ParseAssetMap(read) == Parsed(read, "AssetMap", AssetMapDiagnostics, AssetMap)
=============================================================================
