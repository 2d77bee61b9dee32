------------------------------ MODULE DcpModel ------------------------------
(***************************************************************************)
(* The data that the composition pipeline of dcplayer passes between its   *)
(* stages: parsed packages (AssetMap + PKL + CPLs), the CompositionGraph   *)
(* built by ov_vf_resolver and changed by supplemental, and the lookups in *)
(* one package that both of these stages perform.                          *)
(*                                                                         *)
(* None is the value of an empty std::optional and of a failed lookup.     *)
(* Identifiers are atoms, because the code only compares them; names,      *)
(* annotations, digests and sizes are left out, because no stage of the    *)
(* pipeline reads them.                                                    *)
(***************************************************************************)
EXTENDS Naturals, Sequences

CONSTANTS
  Uuid,      \* ids of compositions and assets (one id space in the PKL)
  PklId,     \* PKL ids, the identity of a package
  ReelId,    \* reel ids
  Rate,      \* edit rates: pairs <<numerator, denominator>>
  Path,      \* relative paths of AssetMap chunks
  None

Optional(S) == S \cup {None}

Lane == {"picture", "sound", "subtitle"}
AssetType == {"packing_list", "composition_playlist", "track_file", "text_xml", "unknown"}
DependencyKind == {"local", "external"}
CompositionKind == {"ov", "vf"}

AssetReference == [asset_id : Uuid, edit_rate : Rate]

CplReel == [reel_id : ReelId, refs : [Lane -> Optional(AssetReference)]]

\* pkl gives the type of each listed id, backing the path of the first chunk
\* of each AssetMap entry that has chunks, cpls the reels of each parsed CPL.
Package == [pkl_id  : PklId,
            pkl     : [Uuid -> Optional(AssetType)],
            backing : [Uuid -> Optional(Path)],
            cpls    : [Uuid -> Optional(Seq(CplReel))]]

TrackFile == [asset_id          : Uuid,
              track_type        : Lane,
              edit_rate         : Rate,
              resolved_path     : Path,
              source_package_id : PklId,
              dependency_kind   : DependencyKind]

GraphReel == [reel_id : ReelId, tracks : [Lane -> Optional(TrackFile)]]

CompositionGraph == [composition_id    : Uuid,
                     origin_package_id : PklId,
                     composition_kind  : CompositionKind,
                     source_packages   : SUBSET PklId,
                     resolved_reels    : Seq(GraphReel),
                     missing_assets    : SUBSET Uuid]

ASSUME NoneAssumption ==
  None \notin AssetType \cup Path \cup AssetReference \cup TrackFile \cup CompositionGraph

\* The lanes that are present in lanes, the refs or tracks of a reel.
Present(lanes) == {l \in Lane : lanes[l] # None}

Diagnostic(code, where) == [code |-> code, where |-> where]

MoreThanOne(S) == \E x, y \in S : x # y

-----------------------------------------------------------------------------
(* Lookups in one package *)

Backed(package, id, type) == package.pkl[id] = type /\ package.backing[id] # None

\* A package owns a composition when its CPL is parsed and is backed.
OwnsComposition(package, composition_id) ==
  /\ package.cpls[composition_id] # None
  /\ Backed(package, composition_id, "composition_playlist")

OwnerCandidates(packages, composition_id) ==
  {i \in DOMAIN packages : OwnsComposition(packages[i], composition_id)}

\* A definition whose name starts with Mut is a plausible mistake in the
\* definition after it, used to see that a property notices the mistake.
MutResolveInPackage(package, asset_id) ==
  IF package.pkl[asset_id] = None THEN "absent"
  ELSE IF package.pkl[asset_id] = "track_file" THEN "resolved" ELSE "broken"

ResolveInPackage(package, asset_id) ==
  IF package.pkl[asset_id] = None THEN "absent"
  ELSE IF Backed(package, asset_id, "track_file") THEN "resolved" ELSE "broken"

BuildTrackFile(lane, ref, package, origin_package_id) ==
  [asset_id          |-> ref.asset_id,
   track_type        |-> lane,
   edit_rate         |-> ref.edit_rate,
   resolved_path     |-> package.backing[ref.asset_id],
   source_package_id |-> package.pkl_id,
   dependency_kind   |-> IF package.pkl_id = origin_package_id THEN "local" ELSE "external"]

-----------------------------------------------------------------------------
(* Facts about a graph that its consumers rely on *)

TracksOf(reels) ==
  UNION {{reels[k].tracks[l] : l \in Present(reels[k].tracks)} : k \in DOMAIN reels}

\* The metadata of a graph is what its tracks say: kinds are relative to the
\* origin package, vf means that some track is external, and source_packages
\* are the packages really used.
MetadataAgrees(g) ==
  /\ \A t \in TracksOf(g.resolved_reels) :
        t.dependency_kind = "local" <=> t.source_package_id = g.origin_package_id
  /\ g.composition_kind = "vf" <=>
        \E t \in TracksOf(g.resolved_reels) : t.dependency_kind = "external"
  /\ g.source_packages = {g.origin_package_id} \cup
        {t.source_package_id : t \in TracksOf(g.resolved_reels)}
=============================================================================
