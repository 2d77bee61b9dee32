---------------------------- MODULE DcpDocuments ----------------------------
(***************************************************************************)
(* The documents of a package: what they can say, and what the parsers of  *)
(* the asset map, the packing list and the composition playlist make of    *)
(* them, one after another as a caller runs them.                          *)
(***************************************************************************)
EXTENDS DcpModel

CONSTANTS MaxUint32, MaxUint64    \* the limits of the integer types of the parsers

ASSUME LimitsAssumption == MaxUint32 \in Nat /\ MaxUint64 \in Nat /\ MaxUint32 <= MaxUint64

Xml          == INSTANCE XmlDom
AssetMaps    == INSTANCE AssetMapParser
PackingLists == INSTANCE PackingListParser
Cpls         == INSTANCE CplParser
Legality     == INSTANCE DcpLegality

-----------------------------------------------------------------------------
(* Documents                                                                *)

\* A package: its documents, without a composition playlist if cpl is None, and
\* whether the caller compares the first two.
Files(assetmap, pkl, cpl, compared) == [assetmap |-> assetmap, pkl |-> pkl, cpl |-> cpl, compared |-> compared]

Elements(s) == {s[i] : i \in DOMAIN s}

IsSeq(s) == s \in Seq(Elements(s))

\* The words of DcpFields. The sets of the pipeline have what the parsers make of
\* them: the ids, which are of one kind here, and the paths.
IsWord(word) ==
  /\ "id" \in DOMAIN word => /\ word.id \in Uuid \cap PklId \cap ReelId
                             /\ word.spelling \in {"lower", "upper", "urn", "cut"}
  /\ "number" \in DOMAIN word => word.number \in Nat
  /\ "segments" \in DOMAIN word => /\ word.segments \in Seq(STRING) \ {<<>>}
                                   /\ AssetMaps!NormalizedPath(<<word>>) \in Optional(Path)
  /\ "hex" \in DOMAIN word => word.hex \in Nat
  /\ "entity" \in DOMAIN word => word.entity \in Seq(Nat) /\ word.base \in {10, 16}
  /\ "chars" \in DOMAIN word => word.chars \in Nat /\ word.pads \subseteq 1 .. word.chars
  /\ "namespace" \in DOMAIN word => word.flavor \in {"interop", "smpte"}

IsWritten(words) ==
  /\ IsSeq(words)
  /\ \A word \in Elements(words) : IsWord(word) /\ ("encoded" \in DOMAIN word => IsWord(word.encoded))

IsAttribute(attribute) == DOMAIN attribute = {"name", "words", "fault"} /\ IsWritten(attribute.words)

IsDocument(tokens) ==
  /\ IsSeq(tokens)
  /\ \A token \in Elements(tokens) :
       /\ IsWritten(token.words)
       /\ IsSeq(token.attributes) /\ \A attribute \in Elements(token.attributes) : IsAttribute(attribute)

IsPackage(package) ==
  IsDocument(package.assetmap) /\ IsDocument(package.pkl) /\ (package.cpl # None => IsDocument(package.cpl))

-----------------------------------------------------------------------------
(* What the parsers return                                                  *)

RootOf(tokens) == Xml!ParseDocument(tokens).root

\* What the parsers return of a legal document.
SchemaFlavor == {"interop", "smpte", "unknown"}

ParsedChunk == [path : Path, offset : Nat, length : Nat, volume_index : Nat]

AssetEntry == [asset_id : Uuid, chunk_list : Seq(ParsedChunk)]

ParsedAssetMap ==
  [asset_map_id : Uuid, schema_flavor : SchemaFlavor, volume_count : Nat, assets : Seq(AssetEntry)]

ParsedPackingList ==
  [pkl_id : PklId, schema_flavor : SchemaFlavor,
   assets : Seq([asset_id : Uuid, asset_type : AssetType, size_bytes : Nat])]

ParsedPlaylist == [composition_id : Uuid, schema_flavor : SchemaFlavor, edit_rate : Rate, reels : Seq(CplReel)]

\* The rates of the pipeline have those that the parser of a CPL lets through.
\* None is none of the values that it is a choice with.
ASSUME ValuesAssumption ==
  /\ (1 .. MaxUint32) \X (1 .. MaxUint32) \subseteq Rate
  /\ None \notin Uuid \cup Nat \cup Rate \cup Path \cup Seq(STRING) \cup (Nat \X Path \X Nat)
  /\ None \notin AssetEntry \cup ParsedAssetMap \cup ParsedPackingList \cup ParsedPlaylist

\* parse on each document in turn, each only if those before it were accepted.
Got(result) == result # None /\ result.value # None

WithPackingList(package, asset_map) ==
  [asset_map    |-> asset_map,
   packing_list |-> IF Got(asset_map) THEN PackingLists!ParsePackingList(Xml!ParseDocument(package.pkl)) ELSE None]

WithPlaylist(package, read) ==
  [files        |-> package,
   asset_map    |-> read.asset_map,
   packing_list |-> read.packing_list,
   playlist     |-> IF Got(read.packing_list) /\ package.cpl # None
                    THEN Cpls!ParseCpl(Xml!ParseDocument(package.cpl)) ELSE None]

Parse(package) ==
  WithPlaylist(package,
               WithPackingList(package, AssetMaps!ParseAssetMap(Xml!ParseDocument(package.assetmap))))
=============================================================================
