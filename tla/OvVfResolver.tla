---------------------------- MODULE OvVfResolver ----------------------------
(***************************************************************************)
(* ov_vf_resolver::resolve: one call on a request chosen in Init. The call *)
(* selects the package that owns the target composition, walks its reels   *)
(* (one step per turn of the loop, which resolves the three lanes of the   *)
(* reel), and publishes a CompositionGraph when it collected no diagnostic.*)
(*                                                                         *)
(* Every diagnostic of this component has severity error, so the           *)
(* validation status is error iff diagnostics is not empty. Diagnostics    *)
(* are a set: the code sorts them before it returns. A definition whose    *)
(* name starts with Mut is a plausible mistake in the definition after it; *)
(* it is used only to see that a property notices the mistake.             *)
(***************************************************************************)
EXTENDS DcpModel

CONSTANT Requests

Request == [composition_id : Uuid, packages : Seq(Package)]

ASSUME RequestsAssumption == Requests \subseteq Request

VARIABLES
  request,          \* the argument
  pc,               \* "find_owner", "resolve_reels" or "done"
  origin,           \* index of origin_package in request.packages, 0 before
  resolved_reels,
  source_packages,
  missing_assets,
  uses_external_dependency,
  has_broken_dependency,
  diagnostics,
  graph             \* result.composition_graph

vars == <<request, pc, origin, resolved_reels, source_packages, missing_assets,
          uses_external_dependency, has_broken_dependency, diagnostics, graph>>

-----------------------------------------------------------------------------
(* How one reference resolves *)

\* The other packages (by pkl_id) in which the asset resolves to state.
ExternalIn(packages, o, asset_id, state) ==
  {i \in DOMAIN packages : /\ packages[i].pkl_id # packages[o].pkl_id
                           /\ ResolveInPackage(packages[i], asset_id) = state}

MutExternalOutcome(packages, o, asset_id) ==
  IF ExternalIn(packages, o, asset_id, "resolved") # {} THEN "external"
  ELSE IF ExternalIn(packages, o, asset_id, "broken") # {} THEN "external_broken"
  ELSE "missing"

ExternalOutcome(packages, o, asset_id) ==
  IF MoreThanOne(ExternalIn(packages, o, asset_id, "resolved")) THEN "conflicting"
  ELSE IF ExternalIn(packages, o, asset_id, "resolved") # {} THEN "external"
  ELSE IF ExternalIn(packages, o, asset_id, "broken") # {} THEN "external_broken"
  ELSE "missing"

MutReferenceOutcome(packages, o, asset_id) ==
  IF ResolveInPackage(packages[o], asset_id) = "resolved" THEN "local"
  ELSE ExternalOutcome(packages, o, asset_id)

ReferenceOutcome(packages, o, asset_id) ==
  IF ResolveInPackage(packages[o], asset_id) = "resolved" THEN "local"
  ELSE IF ResolveInPackage(packages[o], asset_id) = "broken" THEN "local_broken"
  ELSE ExternalOutcome(packages, o, asset_id)

\* The package the asset is taken from, when the outcome is local or external.
Provider(packages, o, asset_id) ==
  IF ResolveInPackage(packages[o], asset_id) = "resolved" THEN o
  ELSE CHOOSE i \in ExternalIn(packages, o, asset_id, "resolved") : TRUE

Assigned == {"local", "external"}

MutUsesExternal == {"external_broken", "missing", "conflicting"}

UsesExternal == {"external", "external_broken", "missing", "conflicting"}

MutBrokenDependency == {"local_broken", "external_broken", "missing", "conflicting"}

BrokenDependency == {"external_broken", "missing", "conflicting"}

DiagnosticFor(outcome) ==
  IF outcome \in {"local_broken", "external_broken"} THEN "ov_vf.broken_reference"
  ELSE IF outcome = "missing" THEN "ov_vf.missing_asset_id"
  ELSE "ov_vf.conflicting_asset_resolution"

\* Where a diagnostic points: reel and lane, or the composition as a whole.
AtComposition == <<0, "composition">>

BrokenDependencyDiagnostic == Diagnostic("ov_vf.broken_dependency", AtComposition)

-----------------------------------------------------------------------------
(* The call *)

Packages == request.packages

Owners == OwnerCandidates(Packages, request.composition_id)

OriginId == Packages[origin].pkl_id

CompositionReels == Packages[origin].cpls[request.composition_id]

Refs(k) == CompositionReels[k].refs

Outcome(k, l) == ReferenceOutcome(Packages, origin, Refs(k)[l].asset_id)

ProviderOfLane(k, l) == Packages[Provider(Packages, origin, Refs(k)[l].asset_id)]

LanesWith(k, outcomes) == {l \in Present(Refs(k)) : Outcome(k, l) \in outcomes}

LaneDiagnostic(k, l) == Diagnostic(DiagnosticFor(Outcome(k, l)), <<k, l>>)

\* assign_track: a lane that did not resolve stays empty.
ResolvedReel(k) ==
  [reel_id |-> CompositionReels[k].reel_id,
   tracks  |-> [l \in Lane |->
                  IF l \in LanesWith(k, Assigned)
                  THEN BuildTrackFile(l, Refs(k)[l], ProviderOfLane(k, l), OriginId)
                  ELSE None]]

Init ==
  /\ request \in Requests
  /\ pc = "find_owner"
  /\ origin = 0
  /\ resolved_reels = <<>>
  /\ source_packages = {}
  /\ missing_assets = {}
  /\ uses_external_dependency = FALSE
  /\ has_broken_dependency = FALSE
  /\ diagnostics = {}
  /\ graph = None

RejectTarget(code) ==
  /\ diagnostics' = {Diagnostic(code, AtComposition)}
  /\ pc' = "done"
  /\ UNCHANGED <<request, origin, resolved_reels, source_packages, missing_assets,
                 uses_external_dependency, has_broken_dependency, graph>>

TargetNotFound ==
  /\ pc = "find_owner"
  /\ Owners = {}
  /\ RejectTarget("ov_vf.target_composition_not_found")

ConflictingOwner ==
  /\ pc = "find_owner"
  /\ MoreThanOne(Owners)
  /\ RejectTarget("ov_vf.conflicting_composition_owner")

MutSelectOwner ==
  /\ pc = "find_owner"
  /\ \E o \in Owners :
       /\ origin' = o
       /\ source_packages' = {Packages[o].pkl_id}
  /\ pc' = "resolve_reels"
  /\ UNCHANGED <<request, resolved_reels, missing_assets, uses_external_dependency,
                 has_broken_dependency, diagnostics, graph>>

SelectOwner ==
  /\ pc = "find_owner"
  /\ \E o \in Owners :
       /\ Owners = {o}
       /\ origin' = o
       /\ source_packages' = {Packages[o].pkl_id}
  /\ pc' = "resolve_reels"
  /\ UNCHANGED <<request, resolved_reels, missing_assets, uses_external_dependency,
                 has_broken_dependency, diagnostics, graph>>

\* One turn of the reel loop: the optional picture, sound and subtitle
\* references of the next reel.
ResolveReel ==
  LET k == Len(resolved_reels) + 1 IN
  /\ pc = "resolve_reels"
  /\ k <= Len(CompositionReels)
  /\ resolved_reels' = Append(resolved_reels, ResolvedReel(k))
  /\ source_packages' = source_packages \cup
       {ProviderOfLane(k, l).pkl_id : l \in LanesWith(k, {"external"})}
  /\ missing_assets' = missing_assets \cup
       {Refs(k)[l].asset_id : l \in LanesWith(k, {"missing"})}
  /\ uses_external_dependency' = (uses_external_dependency \/ LanesWith(k, UsesExternal) # {})
  /\ has_broken_dependency' = (has_broken_dependency \/ LanesWith(k, BrokenDependency) # {})
  /\ diagnostics' = diagnostics \cup
       {LaneDiagnostic(k, l) : l \in Present(Refs(k)) \ LanesWith(k, Assigned)}
  /\ UNCHANGED <<request, pc, origin, graph>>

CollectedGraph ==
  [composition_id    |-> request.composition_id,
   origin_package_id |-> OriginId,
   composition_kind  |-> IF uses_external_dependency THEN "vf" ELSE "ov",
   source_packages   |-> source_packages,
   resolved_reels    |-> resolved_reels,
   missing_assets    |-> missing_assets]

MutFinish ==
  /\ pc = "resolve_reels"
  /\ Len(resolved_reels) = Len(CompositionReels)
  /\ diagnostics' = diagnostics \cup
       IF has_broken_dependency THEN {BrokenDependencyDiagnostic} ELSE {}
  /\ graph' = IF has_broken_dependency THEN None ELSE CollectedGraph
  /\ pc' = "done"
  /\ UNCHANGED <<request, origin, resolved_reels, source_packages, missing_assets,
                 uses_external_dependency, has_broken_dependency>>

Finish ==
  /\ pc = "resolve_reels"
  /\ Len(resolved_reels) = Len(CompositionReels)
  /\ diagnostics' = diagnostics \cup
       IF has_broken_dependency THEN {BrokenDependencyDiagnostic} ELSE {}
  /\ graph' = IF diagnostics' = {} THEN CollectedGraph ELSE None
  /\ pc' = "done"
  /\ UNCHANGED <<request, origin, resolved_reels, source_packages, missing_assets,
                 uses_external_dependency, has_broken_dependency>>

Next == TargetNotFound \/ ConflictingOwner \/ SelectOwner \/ ResolveReel \/ Finish

\* The call is one sequential function: it never waits, so it keeps stepping.
Spec == Init /\ [][Next]_vars /\ WF_vars(Next)

-----------------------------------------------------------------------------
(* Properties *)

\* Every variable keeps its type, and the cursor stays inside the composition.
TypeOK ==
  /\ request \in Request
  /\ pc \in {"find_owner", "resolve_reels", "done"}
  /\ origin \in {0} \cup DOMAIN Packages
  /\ resolved_reels \in Seq(GraphReel)
  /\ source_packages \subseteq PklId
  /\ missing_assets \subseteq Uuid
  /\ uses_external_dependency \in BOOLEAN
  /\ has_broken_dependency \in BOOLEAN
  /\ graph \in Optional(CompositionGraph)
  /\ pc = "resolve_reels" => /\ Owners = {origin}
                             /\ Len(resolved_reels) <= Len(CompositionReels)

\* What the walk has accumulated is a function of the reels it has passed.
Accumulated ==
  LET walked == DOMAIN resolved_reels IN
  /\ \A k \in walked : resolved_reels[k] = ResolvedReel(k)
  /\ \A p \in PklId : p \in source_packages <=>
       \/ p = OriginId
       \/ \E k \in walked : \E l \in LanesWith(k, {"external"}) : p = ProviderOfLane(k, l).pkl_id
  /\ \A a \in Uuid : a \in missing_assets <=>
       \E k \in walked : \E l \in LanesWith(k, {"missing"}) : a = Refs(k)[l].asset_id
  /\ uses_external_dependency <=> \E k \in walked : LanesWith(k, UsesExternal) # {}
  /\ has_broken_dependency <=> \E k \in walked : LanesWith(k, BrokenDependency) # {}
  /\ \A d \in diagnostics :
       \/ d = BrokenDependencyDiagnostic /\ pc = "done" /\ has_broken_dependency
       \/ \E k \in walked : \E l \in Present(Refs(k)) \ LanesWith(k, Assigned) : d = LaneDiagnostic(k, l)
  /\ \A k \in walked : \A l \in Present(Refs(k)) \ LanesWith(k, Assigned) :
       LaneDiagnostic(k, l) \in diagnostics
  /\ pc = "done" /\ has_broken_dependency => BrokenDependencyDiagnostic \in diagnostics

TargetCodes == {"ov_vf.target_composition_not_found", "ov_vf.conflicting_composition_owner"}

\* The inductive invariant: at each control point, what resolve has collected is
\* exactly what the reels behind it and the packages determine.
WalkIsDetermined ==
  /\ pc = "find_owner" => /\ origin = 0 /\ resolved_reels = <<>> /\ missing_assets = {}
                          /\ ~uses_external_dependency /\ ~has_broken_dependency
                          /\ diagnostics = {} /\ graph = None
  /\ pc = "resolve_reels" => origin # 0 /\ graph = None
  /\ origin = 0 => /\ graph = None /\ resolved_reels = <<>> /\ missing_assets = {}
                   /\ pc = "done" => ~\E o \in DOMAIN Packages : Owners = {o}
                   /\ \A d \in diagnostics : d.code \in TargetCodes
  /\ origin # 0 => Owners = {origin} /\ Accumulated
  /\ (origin # 0 /\ pc = "done") =>
       /\ Len(resolved_reels) = Len(CompositionReels)
       /\ graph = IF diagnostics = {} THEN CollectedGraph ELSE None

\* A published graph describes itself correctly: the kind, the source packages
\* and the dependency kinds, which resolve accumulates in separate flags and
\* sets while it walks the reels, agree with the tracks it assigned, and no
\* asset is reported missing.
PublishedMetadataAgrees ==
  graph # None => MetadataAgrees(graph) /\ graph.missing_assets = {}

\* A published graph is show-ready: it has every reel and lane of the CPL and
\* each lane is backed in the package it names; a lane whose asset the owner
\* lists is never taken from another package.
PublishedGraphIsShowReady ==
  graph # None =>
    /\ Len(graph.resolved_reels) = Len(CompositionReels)
    /\ \A k \in DOMAIN CompositionReels :
         /\ Present(graph.resolved_reels[k].tracks) = Present(Refs(k))
         /\ \A l \in Present(Refs(k)) :
              LET t == graph.resolved_reels[k].tracks[l] IN
              \E i \in DOMAIN Packages :
                /\ t = BuildTrackFile(l, Refs(k)[l], Packages[i], OriginId)
                /\ Backed(Packages[i], t.asset_id, "track_file")
                /\ Packages[origin].pkl[t.asset_id] # None => i = origin

\* A rejection names its causes: when resolve has walked the composition and
\* publishes nothing, some lane carries a diagnostic, and the summary
\* broken_dependency is there iff a lane the owner does not list at all failed
\* (a reference broken inside the owner is not an OV/VF dependency).
RejectionIsExplained ==
  (pc = "done" /\ origin # 0) =>
    /\ graph = None <=> \E k \in DOMAIN CompositionReels : \E l \in Present(Refs(k)) :
                        \E d \in diagnostics : d.where = <<k, l>>
    /\ BrokenDependencyDiagnostic \in diagnostics <=>
         \E k \in DOMAIN CompositionReels : \E l \in Present(Refs(k)) :
           /\ Packages[origin].pkl[Refs(k)[l].asset_id] = None
           /\ \E d \in diagnostics : d.where = <<k, l>>

\* resolve implements CompositionResolution: whatever the order of the packages,
\* it answers, and its answer is the declarative one.
Resolution == INSTANCE CompositionResolution WITH Requests <- Request, answered <- pc = "done"
ImplementsResolution == Resolution!Spec

\* docs/IMPLEMENT.md: missing_asset_id is for a reference that no package lists.
MissingAssetIsListedNowhere ==
  \A a \in missing_assets : \A i \in DOMAIN Packages : Packages[i].pkl[a] = None
=============================================================================
