-------------------------- MODULE PackingListParser -------------------------
(***************************************************************************)
(* pkl::parse: a packing list from its document, and its comparison with   *)
(* an asset map (validate_against_asset_map), which a caller may run after *)
(* both are parsed. Optional texts, which nothing reads, are left out.     *)
(***************************************************************************)
EXTENDS DcpFields

Assets(root) == ItemsOf(Child(root, "AssetList"), "Asset")

\* The parts of a text that are looked for, in whichever of its words they are.
Marks(text) == UNION {text[i].marks : i \in {i \in DOMAIN text : "marks" \in DOMAIN text[i]}}

AssetTypeFor(marks) ==
  IF "asdcpkind=pkl" \in marks THEN "packing_list"
  ELSE IF "asdcpkind=cpl" \in marks THEN "composition_playlist"
  ELSE IF "application/mxf" \in marks THEN "track_file"
  ELSE IF "xml" \in marks THEN "text_xml"
  ELSE "unknown"

\* The number of bytes of each algorithm, 0 for none that is supported.
DigestBytes(marks) == IF "sha1" \in marks THEN 20 ELSE IF "sha256" \in marks THEN 32 ELSE 0

-----------------------------------------------------------------------------
(* Digests. The characters of a text of base64 are those of its words.      *)

ReadWord(all, word) ==
  IF "hex" \in DOMAIN word THEN [all EXCEPT !.chars = @ + word.hex]
  ELSE IF "chars" \in DOMAIN word
  THEN [all EXCEPT !.chars = @ + word.chars, !.pads = @ \union {all.chars + p : p \in word.pads}]
  ELSE [all EXCEPT !.ok = FALSE]

Characters(text) ==
  LET all[i \in 0 .. Len(text)] ==
        IF i = 0 THEN [chars |-> 0, pads |-> {}, ok |-> TRUE] ELSE ReadWord(all[i - 1], text[i])
  IN all[Len(text)]

\* The bytes of a block of four characters. Where its equals signs stand is not
\* asked.
BlockBytes(pads) == IF pads = 0 THEN 3 ELSE IF pads = 1 THEN 2 ELSE 1

\* The number of bytes that decode_base64 returns, 0 if it refuses the text.
Base64Bytes(all) ==
  LET Pads(block) == Cardinality(all.pads \cap (4 * block - 3 .. 4 * block))
      bytes[block \in 0 .. all.chars \div 4] ==
        IF block = 0 THEN 0 ELSE bytes[block - 1] + BlockBytes(Pads(block))
  IN IF ~all.ok \/ all.chars % 4 # 0 THEN 0 ELSE bytes[all.chars \div 4]

\* A text of hexadecimal digits alone is never read as base64.
DigestFits(text, bytes) ==
  /\ bytes # 0
  /\ IF Is(text, "hex") THEN text[1].hex = 2 * bytes ELSE Base64Bytes(Characters(text)) = bytes

Algorithm(words) == IF words = None THEN 0 ELSE DigestBytes(Marks(words))

DigestDiagnostics(text, bytes, path) ==
  Reports(bytes = 0, Err("invalid_digest_algorithm", Append(path, AttributeStep(<<"", "Algorithm">>))))
  \union Reports(~DigestFits(text, bytes), Err("invalid_digest_value", path))

HashDiagnostics(hash, path) ==
  IF hash = NoNode THEN {Err("missing_required_field", path)}
  ELSE DigestDiagnostics(hash.words, Algorithm(FindAttribute(hash, <<"", "Algorithm">>)), path)

-----------------------------------------------------------------------------
(* Packing lists *)

AssetDiagnostics(asset, path) ==
  RequiredId(asset, path)
  \union RequiredText(asset, path, "Type")
  \union Required(asset, path, "Size", LAMBDA text : Positive(text, MaxUint64) # None, "invalid_integer")
  \union HashDiagnostics(Child(asset, "Hash"), Under(path, "Hash"))

AssetListDiagnostics(assets, path) ==
  (UNION {AssetDiagnostics(assets[i], Nth(path, "Asset", i)) : i \in DOMAIN assets})
  \union DuplicateIds(assets, path, "Asset", "duplicate_asset_id")

PackingListDiagnostics(root) ==
  LET list == <<Step("PackingList"), Step("AssetList")>>
  IN HeaderDiagnostics(root, "PackingList")
     \union Reports(Child(root, "AssetList") = NoNode, Err("missing_required_field", list))
     \union AssetListDiagnostics(Assets(root), list)

AssetEntries(assets) ==
  [i \in DOMAIN assets |-> [asset_id   |-> NormalizedUuid(TextOf(assets[i], "Id")),
                            asset_type |-> AssetTypeFor(Marks(TextOf(assets[i], "Type"))),
                            size_bytes |-> Positive(TextOf(assets[i], "Size"), MaxUint64)]]

PackingList(root) ==
  [pkl_id        |-> NormalizedUuid(TextOf(root, "Id")),
   schema_flavor |-> SchemaFlavor(root, "PackingList"),
   assets        |-> AssetEntries(Assets(root))]

ParsePackingList(read) == Parsed(read, "PackingList", PackingListDiagnostics, PackingList)

\* The mistake: it is the assets of the asset map that must be listed.
MutValidateAgainstAssetMap(packing_list, asset_map) ==
  LET ids == {packing_list.assets[i].asset_id : i \in DOMAIN packing_list.assets}
  IN {Err("asset_missing_in_assetmap", Under(Nth(<<Step("PackingList"), Step("AssetList")>>, "Asset", i), "Id")) :
        i \in {i \in DOMAIN asset_map.assets : asset_map.assets[i].asset_id \notin ids}}

ValidateAgainstAssetMap(packing_list, asset_map) ==
  LET ids == {asset_map.assets[i].asset_id : i \in DOMAIN asset_map.assets}
  IN {Err("asset_missing_in_assetmap", Under(Nth(<<Step("PackingList"), Step("AssetList")>>, "Asset", i), "Id")) :
        i \in {i \in DOMAIN packing_list.assets : packing_list.assets[i].asset_id \notin ids}}
=============================================================================
