-------------------------- MODULE SupplementalMerge --------------------------
(***************************************************************************)
(* supplemental::apply: one call on a request chosen in Init. The call     *)
(* sorts the policies, walks them, and for each one walks the reels of its *)
(* supplemental composition (one step per turn of each loop), collecting   *)
(* lane overrides of the base graph. It applies the overrides only when no *)
(* policy produced a diagnostic, all of which have severity error.         *)
(***************************************************************************)
EXTENDS DcpModel

CONSTANTS
  Requests,
  UuidRank,   \* the lexicographic order of the ids
  PolicyId    \* policy ids, as naturals in their lexicographic order

\* std::vector<TrackType> may hold a value outside the enumeration.
OverrideValue == Lane \cup {"invalid"}

MergePolicy == [policy_id                   : PolicyId,
                base_composition_id         : Uuid,
                supplemental_composition_id : Uuid,
                merge_mode                  : {"replace_lane", "unsupported"},
                allowed_overrides           : Seq(OverrideValue)]

Request == [base_graph : CompositionGraph, packages : Seq(Package), policies : Seq(MergePolicy)]

ASSUME MergeAssumption ==
  /\ Requests \subseteq Request
  /\ PolicyId \subseteq Nat
  /\ UuidRank \in [Uuid -> Nat]
  /\ \A u, v \in Uuid : UuidRank[u] = UuidRank[v] => u = v

VARIABLES
  request,
  pc,           \* "sort", "policies", "reels" or "done"
  policies,     \* the sorted copy
  policy_index,
  owner,        \* index of the package that owns the supplemental composition
  reel_index,
  override_decisions,
  diagnostics,
  graph

vars == <<request, pc, policies, policy_index, owner, reel_index, override_decisions,
          diagnostics, graph>>

-----------------------------------------------------------------------------
(* Policies *)

\* The order of the tuples (base id, supplemental id, policy id).
Precedes(p, q) ==
  LET b(x) == UuidRank[x.base_composition_id]
      s(x) == UuidRank[x.supplemental_composition_id]
  IN \/ b(p) < b(q)
     \/ b(p) = b(q) /\ s(p) < s(q)
     \/ b(p) = b(q) /\ s(p) = s(q) /\ p.policy_id < q.policy_id

\* std::sort leaves the order of equivalent policies open.
SortedCopies(ps) ==
  {[i \in DOMAIN ps |-> ps[f[i]]] :
     f \in {f \in [DOMAIN ps -> DOMAIN ps] :
              \A i, j \in DOMAIN ps : i < j => f[i] # f[j] /\ ~Precedes(ps[f[j]], ps[f[i]])}}

ValidatePolicy(p, index) ==
  (IF p.merge_mode = "replace_lane" THEN {}
   ELSE {Diagnostic("supplemental.unsupported_merge_mode", <<index, "MergeMode">>)})
  \cup {Diagnostic("supplemental.invalid_allowed_override", <<index, "AllowedOverrides", j>>) :
          j \in {j \in DOMAIN p.allowed_overrides : p.allowed_overrides[j] = "invalid"}}
  \cup {Diagnostic("supplemental.duplicate_allowed_override", <<index, "AllowedOverrides", j>>) :
          j \in {j \in DOMAIN p.allowed_overrides :
                   /\ p.allowed_overrides[j] # "invalid"
                   /\ \E i \in 1 .. j - 1 : p.allowed_overrides[i] = p.allowed_overrides[j]}}

SupplementalOwners(r, p) == OwnerCandidates(r.packages, p.supplemental_composition_id)

MutPolicyDiagnostics(r, p, index) ==
  IF ValidatePolicy(p, index) # {} THEN ValidatePolicy(p, index)
  ELSE IF SupplementalOwners(r, p) = {}
  THEN {Diagnostic("supplemental.target_composition_not_found", <<index, "SupplementalCompositionId">>)}
  ELSE IF MoreThanOne(SupplementalOwners(r, p))
  THEN {Diagnostic("supplemental.conflicting_composition_owner", <<index, "SupplementalCompositionId">>)}
  ELSE {}

\* Why a policy is skipped before its composition is looked at; {} if it is not.
PolicyDiagnostics(r, p, index) ==
  LET found == SupplementalOwners(r, p) IN
  CASE ValidatePolicy(p, index) # {} -> ValidatePolicy(p, index)
    [] ValidatePolicy(p, index) = {} ->
         IF p.base_composition_id # r.base_graph.composition_id
         THEN {Diagnostic("supplemental.base_composition_mismatch", <<index, "BaseCompositionId">>)}
         ELSE IF found = {}
         THEN {Diagnostic("supplemental.target_composition_not_found", <<index, "SupplementalCompositionId">>)}
         ELSE IF MoreThanOne(found)
         THEN {Diagnostic("supplemental.conflicting_composition_owner", <<index, "SupplementalCompositionId">>)}
         ELSE {}

-----------------------------------------------------------------------------
(* One supplemental reference against the base lane *)

OverrideAllowed(p, lane) == \E j \in DOMAIN p.allowed_overrides : p.allowed_overrides[j] = lane

MutLaneOutcome(p, package, base_track, lane, ref) ==
  CASE ResolveInPackage(package, ref.asset_id) = "resolved" ->
         IF OverrideAllowed(p, lane) THEN "override" ELSE "supplemental.override_not_allowed"
    [] ResolveInPackage(package, ref.asset_id) = "broken" -> "supplemental.asset_without_valid_backing"
    [] ResolveInPackage(package, ref.asset_id) = "absent" ->
         IF base_track # None /\ base_track.asset_id = ref.asset_id THEN "inherited"
         ELSE "supplemental.broken_base_dependency"

LaneOutcome(p, package, base_track, lane, ref) ==
  LET local == ResolveInPackage(package, ref.asset_id) IN
  CASE base_track = None -> "supplemental.broken_base_dependency"
    [] base_track # None /\ local = "resolved" ->
         IF OverrideAllowed(p, lane) THEN "override" ELSE "supplemental.override_not_allowed"
    [] base_track # None /\ local = "broken" -> "supplemental.asset_without_valid_backing"
    [] base_track # None /\ local = "absent" ->
         IF base_track.asset_id # ref.asset_id THEN "supplemental.broken_base_dependency"
         ELSE IF base_track.edit_rate # ref.edit_rate THEN "supplemental.base_edit_rate_mismatch"
         ELSE "inherited"

MutConflicts(existing, track) == existing # None /\ existing.asset_id # track.asset_id

\* record_override: the first override of a lane stays, an equal one is ignored.
Conflicts(existing, track) == existing # None /\ existing # track

\* find_reel: the first base reel with this id.
BaseReelIndices(g, reel_id) == {i \in DOMAIN g.resolved_reels : g.resolved_reels[i].reel_id = reel_id}

FirstReel(g, reel_id) ==
  CHOOSE i \in BaseReelIndices(g, reel_id) : \A j \in BaseReelIndices(g, reel_id) : i <= j

-----------------------------------------------------------------------------
(* The merged graph *)

RecomputeTrack(track, origin_id) ==
  [track EXCEPT !.dependency_kind = IF track.source_package_id = origin_id THEN "local" ELSE "external"]

MutRecomputeGraphMetadata(g) ==
  LET reels  == [i \in DOMAIN g.resolved_reels |->
                   [g.resolved_reels[i] EXCEPT !.tracks =
                      [l \in Lane |-> IF @[l] = None THEN None
                                      ELSE RecomputeTrack(@[l], g.origin_package_id)]]]
  IN [g EXCEPT !.resolved_reels   = reels,
               !.composition_kind = IF \E t \in TracksOf(reels) : t.dependency_kind = "external"
                                    THEN "vf" ELSE "ov",
               !.source_packages  = @ \cup {t.source_package_id : t \in TracksOf(reels)}]

RecomputeGraphMetadata(g) ==
  LET reels  == [i \in DOMAIN g.resolved_reels |->
                   [g.resolved_reels[i] EXCEPT !.tracks =
                      [l \in Lane |-> IF @[l] = None THEN None
                                      ELSE RecomputeTrack(@[l], g.origin_package_id)]]]
  IN [g EXCEPT !.resolved_reels   = reels,
               !.composition_kind = IF \E t \in TracksOf(reels) : t.dependency_kind = "external"
                                    THEN "vf" ELSE "ov",
               !.source_packages  = {g.origin_package_id} \cup {t.source_package_id : t \in TracksOf(reels)}]

ApplyDecisions(g, decisions) ==
  LET decided(i, l, track) == IF decisions[<<i, l>>] # None /\ track # None THEN decisions[<<i, l>>] ELSE track
      reels == [i \in DOMAIN g.resolved_reels |->
                  [g.resolved_reels[i] EXCEPT !.tracks = [l \in Lane |-> decided(i, l, @[l])]]]
  IN [g EXCEPT !.resolved_reels = reels]

-----------------------------------------------------------------------------
(* The call *)

BaseReels == request.base_graph.resolved_reels

OverrideKeys == (DOMAIN BaseReels) \X Lane

Policy == policies[policy_index]

OwnerPackage == request.packages[owner]

SupplementalReels == OwnerPackage.cpls[Policy.supplemental_composition_id]

SupplementalReel == SupplementalReels[reel_index]

Init ==
  /\ request \in Requests
  /\ pc = "sort"
  /\ policies = <<>>
  /\ policy_index = 1
  /\ owner = 0
  /\ reel_index = 1
  /\ override_decisions = [key \in OverrideKeys |-> None]
  /\ diagnostics = {}
  /\ graph = None

SortPolicies ==
  /\ pc = "sort"
  /\ policies' \in SortedCopies(request.policies)
  /\ pc' = "policies"
  /\ UNCHANGED <<request, policy_index, owner, reel_index, override_decisions, diagnostics, graph>>

SkipPolicy ==
  /\ pc = "policies"
  /\ policy_index <= Len(policies)
  /\ PolicyDiagnostics(request, Policy, policy_index) # {}
  /\ diagnostics' = diagnostics \cup PolicyDiagnostics(request, Policy, policy_index)
  /\ policy_index' = policy_index + 1
  /\ UNCHANGED <<request, pc, policies, owner, reel_index, override_decisions, graph>>

SelectSupplemental ==
  /\ pc = "policies"
  /\ policy_index <= Len(policies)
  /\ PolicyDiagnostics(request, Policy, policy_index) = {}
  /\ owner' \in SupplementalOwners(request, Policy)
  /\ reel_index' = 1
  /\ pc' = "reels"
  /\ UNCHANGED <<request, policies, policy_index, override_decisions, diagnostics, graph>>

UnknownReel ==
  /\ pc = "reels"
  /\ reel_index <= Len(SupplementalReels)
  /\ BaseReelIndices(request.base_graph, SupplementalReel.reel_id) = {}
  /\ diagnostics' = diagnostics \cup
       {Diagnostic("supplemental.broken_base_dependency", <<reel_index, "Id">>)}
  /\ reel_index' = reel_index + 1
  /\ UNCHANGED <<request, pc, policies, policy_index, owner, override_decisions, graph>>

\* One turn of the reel loop: the three optional references of the reel.
MergeReel ==
  /\ pc = "reels"
  /\ reel_index <= Len(SupplementalReels)
  /\ BaseReelIndices(request.base_graph, SupplementalReel.reel_id) # {}
  /\ LET base       == FirstReel(request.base_graph, SupplementalReel.reel_id)
         refs       == SupplementalReel.refs
         outcome(l) == LaneOutcome(Policy, OwnerPackage, BaseReels[base].tracks[l], l, refs[l])
         track(l)   == BuildTrackFile(l, refs[l], OwnerPackage, request.base_graph.origin_package_id)
         overridden == {l \in Present(refs) : outcome(l) = "override"}
         conflicts  == {l \in overridden : Conflicts(override_decisions[<<base, l>>], track(l))}
         broken     == {l \in Present(refs) : outcome(l) \notin {"override", "inherited"}}
     IN /\ override_decisions' =
             [key \in OverrideKeys |->
                IF key[1] = base /\ key[2] \in overridden /\ override_decisions[key] = None
                THEN track(key[2]) ELSE override_decisions[key]]
        /\ diagnostics' = diagnostics
             \cup {Diagnostic(outcome(l), <<reel_index, l>>) : l \in broken}
             \cup {Diagnostic("supplemental.conflicting_override", <<reel_index, l>>) : l \in conflicts}
  /\ reel_index' = reel_index + 1
  /\ UNCHANGED <<request, pc, policies, policy_index, owner, graph>>

NextPolicy ==
  /\ pc = "reels"
  /\ reel_index > Len(SupplementalReels)
  /\ policy_index' = policy_index + 1
  /\ pc' = "policies"
  /\ UNCHANGED <<request, policies, owner, reel_index, override_decisions, diagnostics, graph>>

Finish ==
  /\ pc = "policies"
  /\ policy_index > Len(policies)
  /\ graph' = IF diagnostics = {}
              THEN RecomputeGraphMetadata(ApplyDecisions(request.base_graph, override_decisions))
              ELSE None
  /\ pc' = "done"
  /\ UNCHANGED <<request, policies, policy_index, owner, reel_index, override_decisions, diagnostics>>

Next ==
  \/ SortPolicies \/ SkipPolicy \/ SelectSupplemental
  \/ UnknownReel \/ MergeReel \/ NextPolicy \/ Finish

\* The call is one sequential function: it never waits, so it keeps stepping.
Spec == Init /\ [][Next]_vars /\ WF_vars(Next)

-----------------------------------------------------------------------------
(* Properties *)

Overlay == INSTANCE SupplementalOverlay WITH Requests <- Request, answered <- pc = "done"

\* Every variable keeps its type, and an override is only recorded for a lane
\* that the base graph has.
TypeOK ==
  /\ request \in Request
  /\ pc \in {"sort", "policies", "reels", "done"}
  /\ policies \in Seq(MergePolicy)
  /\ policy_index \in 1 .. Len(request.policies) + 1
  /\ owner \in {0} \cup DOMAIN request.packages
  /\ reel_index \in Nat \ {0}
  /\ override_decisions \in [OverrideKeys -> Optional(TrackFile)]
  /\ \A key \in OverrideKeys :
       BaseReels[key[1]].tracks[key[2]] = None => override_decisions[key] = None
  /\ graph \in Optional(CompositionGraph)

\* After a merge the metadata of the graph is that of the tracks it now has: a
\* package that is no longer used is not a source, and the kind follows.
MergedMetadataAgrees == graph # None => MetadataAgrees(graph)

\* A lane is reported as conflicting exactly when two policies that apply would
\* replace it by different tracks, whichever of them the walk meets first; the
\* report never hides one of them and never blames policies that agree.
ConflictIsReported ==
  LET applied(n) == Overlay!WellFormed(request, request.policies[n])
      replaces(n, i, l, t) ==
        \E x \in Overlay!References(request, request.policies[n]) :
          /\ x.reel = i /\ x.lane = l
          /\ Overlay!Replaces(request, request.policies[n], x)
          /\ t = Overlay!Track(request, request.policies[n], x)
  IN pc = "done" =>
       ((\E d \in diagnostics : d.code = "supplemental.conflicting_override") <=>
        \E n, m \in {n \in DOMAIN request.policies : applied(n)} :
          \E i \in DOMAIN BaseReels, l \in Lane :
            \E t, u \in Overlay!Brought(request, i, l) :
              t # u /\ replaces(n, i, l, t) /\ replaces(m, i, l, u))

\* apply implements SupplementalOverlay: all policies are applied or none is,
\* and neither the verdict nor the graph depends on the order of the policies.
ImplementsOverlay == Overlay!Spec
=============================================================================
