---------------------- MODULE SupplementalMerge_proofs -----------------------
(***************************************************************************)
(* Proofs about SupplementalMerge, for every request: its type, the        *)
(* metadata of a merged graph, the report of conflicts, and that it        *)
(* implements SupplementalOverlay as far as safety goes. The inductive     *)
(* invariant says what the two loops have collected as a function of the   *)
(* turns they have taken, in the words of the abstract specification.      *)
(***************************************************************************)
EXTENDS SupplementalMerge, FiniteSetTheorems, WellFoundedInduction, TLAPS

-----------------------------------------------------------------------------
(* The turns of the walk *)

ReelsOf(r, p) == Overlay!OwnerPackage(r, p).cpls[p.supplemental_composition_id]

RefsOf(r, p, k) == ReelsOf(r, p)[k].refs

\* The reference of one lane, as the abstract specification sees it.
Reference(r, p, k, l) ==
  [reel |-> Overlay!ReelNamed(r, ReelsOf(r, p)[k].reel_id), lane |-> l, ref |-> RefsOf(r, p, k)[l]]

\* Reel k of policy p replaces lane l of base reel i.
Overrides(r, p, k, i, l) ==
  /\ l \in Present(RefsOf(r, p, k))
  /\ Reference(r, p, k, l).reel = i
  /\ Overlay!Replaces(r, p, Reference(r, p, k, l))

TrackFor(r, p, k, l) == Overlay!Track(r, p, Reference(r, p, k, l))

Fails(r, p, k) ==
  \/ Overlay!ReelNamed(r, ReelsOf(r, p)[k].reel_id) = 0
  \/ \E l \in Present(RefsOf(r, p, k)) :
       /\ ~Overlay!Replaces(r, p, Reference(r, p, k, l))
       /\ ~Overlay!Repeats(r, p, Reference(r, p, k, l))

Turns(r, p) == IF Overlay!WellFormed(r, p) THEN DOMAIN ReelsOf(r, p) ELSE {}

\* The reels of policy n that are behind the cursors.
Taken(n) ==
  {k \in Turns(request, policies[n]) :
     n < policy_index \/ (pc = "reels" /\ n = policy_index /\ k < reel_index)}

-----------------------------------------------------------------------------
(* The inductive invariant *)

\* The decision of a lane is the track of a turn that overrides it.
DecisionsFollow ==
  \A key \in OverrideKeys :
    IF override_decisions[key] = None
    THEN \A n \in DOMAIN policies : \A k \in Taken(n) : ~Overrides(request, policies[n], k, key[1], key[2])
    ELSE \E n \in DOMAIN policies : \E k \in Taken(n) :
           /\ Overrides(request, policies[n], k, key[1], key[2])
           /\ override_decisions[key] = TrackFor(request, policies[n], k, key[2])

\* A conflict is reported iff a turn overrides a lane by another track than the decision.
ConflictsFollow ==
  (\E d \in diagnostics : d.code = "supplemental.conflicting_override") <=>
    \E n \in DOMAIN policies : \E k \in Taken(n) : \E key \in OverrideKeys :
      /\ Overrides(request, policies[n], k, key[1], key[2])
      /\ override_decisions[key] # TrackFor(request, policies[n], k, key[2])

\* Something else is reported iff a policy was refused or a turn failed.
FailuresFollow ==
  (\E d \in diagnostics : d.code # "supplemental.conflicting_override") <=>
    \/ \E n \in DOMAIN policies : n < policy_index /\ ~Overlay!WellFormed(request, policies[n])
    \/ \E n \in DOMAIN policies : \E k \in Taken(n) : Fails(request, policies[n], k)

\* The sorted copy has the policies of the request, in some order.
SamePolicies ==
  /\ Len(policies) = Len(request.policies)
  /\ \A n \in DOMAIN policies : \E m \in DOMAIN request.policies : policies[n] = request.policies[m]
  /\ \A m \in DOMAIN request.policies : \E n \in DOMAIN policies : policies[n] = request.policies[m]

Cursors ==
  /\ pc = "sort" => policies = <<>> /\ policy_index = 1
  /\ pc # "sort" => SamePolicies
  /\ pc = "reels" => /\ policy_index \in DOMAIN policies
                     /\ Overlay!WellFormed(request, Policy)
                     /\ SupplementalOwners(request, Policy) = {owner}
  /\ pc = "done" => policy_index = Len(policies) + 1

Published ==
  graph = IF pc = "done" /\ diagnostics = {}
          THEN RecomputeGraphMetadata(ApplyDecisions(request.base_graph, override_decisions)) ELSE None

WalkIsDetermined ==
  DecisionsFollow /\ ConflictsFollow /\ FailuresFollow /\ Cursors /\ Published

-----------------------------------------------------------------------------
(* The abstract specification looks things up in the same way *)

LEMMA SameLookups ==
  /\ \A package, id, type : Overlay!Backed(package, id, type) <=> Backed(package, id, type)
  /\ \A r, p : Overlay!Owners(r, p) = SupplementalOwners(r, p)
  /\ \A l, ref, package, id :
       Overlay!BuildTrackFile(l, ref, package, id) = BuildTrackFile(l, ref, package, id)
  /\ \A lanes : Overlay!Present(lanes) = Present(lanes)
  /\ \A reels : Overlay!TracksOf(reels) = TracksOf(reels)
  /\ \A S : Overlay!MoreThanOne(S) <=> MoreThanOne(S)
  /\ Overlay!Lane = Lane
  <1>1. \A package, id, type : Overlay!Backed(package, id, type) <=> Backed(package, id, type)
    BY DEF Overlay!Backed, Backed
  <1>2. \A package, id : Overlay!OwnsComposition(package, id) <=> OwnsComposition(package, id)
    BY <1>1 DEF Overlay!OwnsComposition, OwnsComposition
  <1>3. \A r, p : Overlay!Owners(r, p) = SupplementalOwners(r, p)
    BY <1>2 DEF Overlay!OwnerCandidates, OwnerCandidates, Overlay!Owners, SupplementalOwners
  <1>4. \A l, ref, package, id :
          Overlay!BuildTrackFile(l, ref, package, id) = BuildTrackFile(l, ref, package, id)
    BY DEF Overlay!BuildTrackFile, BuildTrackFile
  <1>5. Overlay!Lane = Lane
    BY DEF Overlay!Lane, Lane
  <1>6. \A lanes : Overlay!Present(lanes) = Present(lanes)
    BY <1>5 DEF Overlay!Present, Present
  <1>7. \A reels : Overlay!TracksOf(reels) = TracksOf(reels)
    BY <1>6 DEF Overlay!TracksOf, TracksOf
  <1>8. \A S : Overlay!MoreThanOne(S) <=> MoreThanOne(S)
    BY DEF Overlay!MoreThanOne, MoreThanOne
  <1> QED BY <1>1, <1>3, <1>4, <1>5, <1>6, <1>7, <1>8

LEMMA OneOrNot ==
  ASSUME NEW S, NEW T, S \subseteq T
  PROVE  (\E x \in T : S = {x}) <=> S # {} /\ ~MoreThanOne(S)
  BY Zenon DEF MoreThanOne

\* A policy is refused iff it is not well formed for the abstract specification.
LEMMA PolicyVerdict ==
  ASSUME NEW r \in Request, NEW p \in MergePolicy, NEW index
  PROVE  PolicyDiagnostics(r, p, index) = {} <=> Overlay!WellFormed(r, p)
  <1> DEFINE allowed == p.allowed_overrides
             found == SupplementalOwners(r, p)
  <1>1. allowed \in Seq(OverrideValue)
    BY DEF MergePolicy
  <1>2. ValidatePolicy(p, index) = {} <=>
          /\ p.merge_mode = "replace_lane"
          /\ \A j \in DOMAIN allowed : allowed[j] # "invalid"
          /\ \A j \in DOMAIN allowed : \A i \in 1 .. j - 1 : allowed[j] # "invalid" => allowed[i] # allowed[j]
    BY DEF ValidatePolicy
  <1>3. (\A j \in DOMAIN allowed : \A i \in 1 .. j - 1 : allowed[i] # allowed[j]) <=>
          \A j \in DOMAIN allowed : \A i \in DOMAIN allowed : allowed[i] = allowed[j] => i = j
    <2>1. \A i, j \in DOMAIN allowed : i < j <=> i \in 1 .. j - 1
      BY <1>1
    <2>2. \A j \in DOMAIN allowed : \A i \in 1 .. j - 1 : i \in DOMAIN allowed
      BY <1>1
    <2>3. \A i, j \in DOMAIN allowed : i = j \/ i < j \/ j < i
      BY <1>1
    <2>4. \A i, j \in DOMAIN allowed : i < j => i # j
      BY <1>1
    <2> QED BY <2>1, <2>2, <2>3, <2>4, Zenon
  <1>4. \A j \in DOMAIN allowed : allowed[j] \in Lane <=> allowed[j] # "invalid"
    BY <1>1 DEF OverrideValue, Lane
  <1>5. found \subseteq DOMAIN r.packages
    BY DEF SupplementalOwners, OwnerCandidates
  <1>6. (\E o \in DOMAIN r.packages : found = {o}) <=> found # {} /\ ~MoreThanOne(found)
    BY <1>5, OneOrNot
  <1>7. Overlay!WellFormed(r, p) <=>
          /\ ValidatePolicy(p, index) = {}
          /\ p.base_composition_id = r.base_graph.composition_id
          /\ \E o \in DOMAIN r.packages : found = {o}
    BY <1>2, <1>3, <1>4, SameLookups DEF Overlay!WellFormed
  <1>8. PolicyDiagnostics(r, p, index) = {} <=>
          /\ ValidatePolicy(p, index) = {}
          /\ p.base_composition_id = r.base_graph.composition_id
          /\ found # {} /\ ~MoreThanOne(found)
    BY DEF PolicyDiagnostics
  <1> QED BY <1>6, <1>7, <1>8

LEMMA PolicyCodes ==
  ASSUME NEW r, NEW p, NEW index, NEW d \in PolicyDiagnostics(r, p, index)
  PROVE  d.code # "supplemental.conflicting_override"
  <1>1. \A code, where : Diagnostic(code, where).code = code
    BY DEF Diagnostic
  <1>2. CASE d \in ValidatePolicy(p, index)
    <2>1. \/ d = Diagnostic("supplemental.unsupported_merge_mode", <<index, "MergeMode">>)
          \/ \E j : d = Diagnostic("supplemental.invalid_allowed_override", <<index, "AllowedOverrides", j>>)
          \/ \E j : d = Diagnostic("supplemental.duplicate_allowed_override", <<index, "AllowedOverrides", j>>)
      BY <1>2 DEF ValidatePolicy
    <2>2. \/ d.code = "supplemental.unsupported_merge_mode"
          \/ d.code = "supplemental.invalid_allowed_override"
          \/ d.code = "supplemental.duplicate_allowed_override"
      BY <1>1, <2>1, Zenon
    <2> QED BY <2>2
  <1>3. CASE d \notin ValidatePolicy(p, index)
    BY <1>1, <1>3 DEF PolicyDiagnostics
  <1> QED BY <1>2, <1>3

-----------------------------------------------------------------------------
(* One turn of the reel loop *)

LEMMA LeastIndex ==
  ASSUME NEW S \in SUBSET Nat, S # {}
  PROVE  \E i \in S : \A j \in S : i <= j
  <1>1. IsWellFoundedOn(OpToRel(<, Nat), Nat)
    BY NatLessThanWellFounded
  <1>2. PICK i \in S : \A j \in S : ~(<<j, i>> \in OpToRel(<, Nat))
    BY <1>1, WFMin
  <1>3. ASSUME NEW j \in S PROVE i <= j
    <2>1. ~(<<j, i>> \in OpToRel(<, Nat))
      BY <1>2
    <2>2. i \in Nat /\ j \in Nat
      OBVIOUS
    <2>3. j < i => <<j, i>> \in OpToRel(<, Nat)
      BY <2>2 DEF OpToRel
    <2>4. ~(j < i)
      BY <2>1, <2>3, Zenon
    <2> QED BY <2>2, <2>4
  <1> QED BY <1>3

LEMMA FirstReelFacts ==
  ASSUME NEW r \in Request, NEW reel_id
  PROVE  /\ BaseReelIndices(r.base_graph, reel_id) = {} => Overlay!ReelNamed(r, reel_id) = 0
         /\ BaseReelIndices(r.base_graph, reel_id) # {} =>
              /\ Overlay!ReelNamed(r, reel_id) = FirstReel(r.base_graph, reel_id)
              /\ FirstReel(r.base_graph, reel_id) \in DOMAIN r.base_graph.resolved_reels
              /\ FirstReel(r.base_graph, reel_id) # 0
  <1> DEFINE named == BaseReelIndices(r.base_graph, reel_id)
  <1>1. r.base_graph.resolved_reels \in Seq(GraphReel)
    BY DEF Request, CompositionGraph
  <1>2. named \subseteq DOMAIN r.base_graph.resolved_reels /\ named \in SUBSET Nat /\ 0 \notin named
    BY <1>1 DEF BaseReelIndices
  <1>3. Overlay!ReelNamed(r, reel_id) = IF named = {} THEN 0 ELSE FirstReel(r.base_graph, reel_id)
    BY DEF Overlay!ReelNamed, FirstReel, BaseReelIndices
  <1>4. named # {} => FirstReel(r.base_graph, reel_id) \in named
    BY <1>2, LeastIndex DEF FirstReel
  <1> HIDE DEF named
  <1> QED BY <1>2, <1>3, <1>4 DEF named

\* What the walk reads for the policy and the package it selected.
LEMMA SelectedFacts ==
  ASSUME NEW r \in Request, NEW p \in MergePolicy, NEW o, SupplementalOwners(r, p) = {o}
  PROVE  /\ o \in DOMAIN r.packages
         /\ Overlay!OwnerPackage(r, p) = r.packages[o]
         /\ r.packages[o] \in Package
         /\ ReelsOf(r, p) = r.packages[o].cpls[p.supplemental_composition_id]
         /\ ReelsOf(r, p) \in Seq(CplReel)
  <1>1. o \in DOMAIN r.packages /\ OwnsComposition(r.packages[o], p.supplemental_composition_id)
    BY DEF SupplementalOwners, OwnerCandidates
  <1>2. r.packages[o] \in Package
    BY <1>1 DEF Request
  <1>3. Overlay!OwnerPackage(r, p) = r.packages[o]
    BY <1>1, SameLookups DEF Overlay!OwnerPackage
  <1>4. r.packages[o].cpls[p.supplemental_composition_id] \in Seq(CplReel)
    BY <1>1, <1>2 DEF OwnsComposition, Package, Optional, MergePolicy
  <1> QED BY <1>1, <1>2, <1>3, <1>4 DEF ReelsOf

LEMMA RefFacts ==
  ASSUME NEW r \in Request, NEW p \in MergePolicy, Overlay!WellFormed(r, p),
         NEW k \in DOMAIN ReelsOf(r, p)
  PROVE  /\ Present(RefsOf(r, p, k)) \subseteq Lane
         /\ \A l \in Present(RefsOf(r, p, k)) : RefsOf(r, p, k)[l] \in AssetReference
         /\ Overlay!OwnerPackage(r, p) \in Package
  <1>1. PICK o \in DOMAIN r.packages : SupplementalOwners(r, p) = {o}
    BY SameLookups DEF Overlay!WellFormed
  <1>2. ReelsOf(r, p) \in Seq(CplReel) /\ Overlay!OwnerPackage(r, p) \in Package
    BY <1>1, SelectedFacts
  <1>3. ReelsOf(r, p)[k] \in CplReel
    BY <1>2
  <1>4. RefsOf(r, p, k) \in [Lane -> Optional(AssetReference)]
    BY <1>3 DEF RefsOf, CplReel
  <1> QED BY <1>2, <1>4 DEF Present, Optional

\* The outcome of a lane that the reel names, in the words of the abstract specification.
LEMMA OutcomeFacts ==
  ASSUME NEW r \in Request, NEW p \in MergePolicy, Overlay!WellFormed(r, p),
         NEW k \in DOMAIN ReelsOf(r, p), NEW l \in Present(RefsOf(r, p, k)),
         NEW i \in DOMAIN r.base_graph.resolved_reels,
         Reference(r, p, k, l).reel = i
  PROVE  LET outcome == LaneOutcome(p, Overlay!OwnerPackage(r, p), r.base_graph.resolved_reels[i].tracks[l],
                                    l, RefsOf(r, p, k)[l])
         IN /\ outcome = "override" <=> Overlay!Replaces(r, p, Reference(r, p, k, l))
            /\ outcome = "inherited" <=> Overlay!Repeats(r, p, Reference(r, p, k, l))
            /\ outcome # "supplemental.conflicting_override"
  <1> DEFINE package == Overlay!OwnerPackage(r, p)
             base == r.base_graph.resolved_reels[i].tracks[l]
             ref == RefsOf(r, p, k)[l]
             local == ResolveInPackage(package, ref.asset_id)
             outcome == LaneOutcome(p, package, base, l, ref)
             x == Reference(r, p, k, l)
  <1>1. x.reel = i /\ x.lane = l /\ x.ref = ref
    BY DEF Reference
  <1>2. i # 0
    BY DEF Request, CompositionGraph
  <1>3. ref \in AssetReference /\ ref.asset_id \in Uuid /\ package \in Package
    BY RefFacts DEF AssetReference
  <1>4. /\ local \in {"absent", "resolved", "broken"}
        /\ local = "absent" <=> package.pkl[ref.asset_id] = None
        /\ local = "resolved" <=> Backed(package, ref.asset_id, "track_file")
    <2>1. Backed(package, ref.asset_id, "track_file") => package.pkl[ref.asset_id] # None
      BY NoneAssumption DEF Backed, AssetType
    <2> QED BY <2>1 DEF ResolveInPackage
  <1>5. Overlay!Replaces(r, p, x) <=> base # None /\ local = "resolved" /\ OverrideAllowed(p, l)
    BY <1>1, <1>2, <1>4, SameLookups DEF Overlay!Replaces, Overlay!Brings, OverrideAllowed
  <1>6. Overlay!Repeats(r, p, x) <=>
          /\ base # None /\ local = "absent"
          /\ base.asset_id = ref.asset_id /\ base.edit_rate = ref.edit_rate
    BY <1>1, <1>2, <1>4 DEF Overlay!Repeats
  <1> HIDE DEF package, base, ref, local, x
  <1>7. outcome = "override" <=> base # None /\ local = "resolved" /\ OverrideAllowed(p, l)
    BY <1>4 DEF LaneOutcome, local
  <1>8. outcome = "inherited" <=>
          /\ base # None /\ local = "absent"
          /\ base.asset_id = ref.asset_id /\ base.edit_rate = ref.edit_rate
    BY <1>4 DEF LaneOutcome, local
  <1>9. outcome # "supplemental.conflicting_override"
    BY <1>4 DEF LaneOutcome, local
  <1> QED BY <1>5, <1>6, <1>7, <1>8, <1>9 DEF package, base, ref, x

LEMMA OverrideTrack ==
  ASSUME NEW r \in Request, NEW p \in MergePolicy, Overlay!WellFormed(r, p),
         NEW k \in DOMAIN ReelsOf(r, p), NEW i, NEW l, Overrides(r, p, k, i, l)
  PROVE  /\ TrackFor(r, p, k, l) =
              BuildTrackFile(l, RefsOf(r, p, k)[l], Overlay!OwnerPackage(r, p), r.base_graph.origin_package_id)
         /\ TrackFor(r, p, k, l) \in TrackFile /\ TrackFor(r, p, k, l) # None
         /\ r.base_graph.resolved_reels[i].tracks[l] # None
  <1> DEFINE package == Overlay!OwnerPackage(r, p)
             ref == RefsOf(r, p, k)[l]
             x == Reference(r, p, k, l)
             origin == r.base_graph.origin_package_id
  <1>1. l \in Present(RefsOf(r, p, k)) /\ x.reel = i /\ Overlay!Replaces(r, p, x)
    BY DEF Overrides
  <1>2. x.lane = l /\ x.ref = ref
    BY DEF Reference
  <1>3. Backed(package, ref.asset_id, "track_file") /\ r.base_graph.resolved_reels[i].tracks[l] # None
    BY <1>1, <1>2, SameLookups DEF Overlay!Replaces, Overlay!Brings
  <1>4. l \in Lane /\ ref \in AssetReference /\ package \in Package
    BY <1>1, RefFacts
  <1>5. package.backing[ref.asset_id] \in Path /\ package.pkl_id \in PklId
    BY <1>3, <1>4 DEF Backed, Package, Optional, AssetReference
  <1>6. TrackFor(r, p, k, l) = BuildTrackFile(l, ref, package, origin)
    BY <1>2, SameLookups DEF TrackFor, Overlay!Track
  <1>7. BuildTrackFile(l, ref, package, origin) \in TrackFile
    BY <1>4, <1>5 DEF BuildTrackFile, TrackFile, AssetReference, DependencyKind
  <1> QED BY <1>3, <1>6, <1>7, NoneAssumption

-----------------------------------------------------------------------------
(* What the steps do, in the words of the abstract specification *)

Conflicting(S) == \E d \in S : d.code = "supplemental.conflicting_override"

Failing(S) == \E d \in S : d.code # "supplemental.conflicting_override"

LEMMA DiagnosticCodes ==
  /\ \A code, where : Diagnostic(code, where).code = code
  /\ \A S, T : /\ Conflicting(S \cup T) <=> Conflicting(S) \/ Conflicting(T)
               /\ Failing(S \cup T) <=> Failing(S) \/ Failing(T)
  BY DEF Diagnostic, Conflicting, Failing

\* While the reels of a policy are walked.
LEMMA SelectedPolicy ==
  ASSUME TypeOK, Cursors, pc = "reels"
  PROVE  /\ request \in Request /\ Policy \in MergePolicy
         /\ policy_index \in DOMAIN policies /\ policies[policy_index] = Policy
         /\ Overlay!WellFormed(request, Policy)
         /\ OwnerPackage = Overlay!OwnerPackage(request, Policy)
         /\ SupplementalReels = ReelsOf(request, Policy)
         /\ SupplementalReels \in Seq(CplReel)
         /\ Turns(request, Policy) = 1 .. Len(SupplementalReels)
         /\ reel_index \in Nat \ {0}
  <1>1. /\ request \in Request /\ policies \in Seq(MergePolicy) /\ reel_index \in Nat \ {0}
        /\ policy_index \in DOMAIN policies /\ Overlay!WellFormed(request, Policy)
        /\ SupplementalOwners(request, Policy) = {owner}
    BY DEF TypeOK, Cursors
  <1>2. Policy \in MergePolicy /\ policies[policy_index] = Policy
    BY <1>1 DEF Policy
  <1>3. /\ OwnerPackage = Overlay!OwnerPackage(request, Policy)
        /\ SupplementalReels = ReelsOf(request, Policy)
        /\ SupplementalReels \in Seq(CplReel)
    BY <1>1, <1>2, SelectedFacts DEF OwnerPackage, SupplementalReels
  <1> QED BY <1>1, <1>2, <1>3 DEF Turns

LEMMA MergeTurn ==
  ASSUME TypeOK, Cursors, MergeReel
  PROVE  /\ pc = "reels" /\ reel_index \in Turns(request, Policy)
         /\ reel_index' = reel_index + 1
         /\ UNCHANGED <<request, pc, policies, policy_index, owner, graph>>
         /\ override_decisions' =
              [key \in OverrideKeys |->
                 IF /\ Overrides(request, Policy, reel_index, key[1], key[2])
                    /\ override_decisions[key] = None
                 THEN TrackFor(request, Policy, reel_index, key[2]) ELSE override_decisions[key]]
         /\ Conflicting(diagnostics') <=>
              \/ Conflicting(diagnostics)
              \/ \E key \in OverrideKeys :
                   /\ Overrides(request, Policy, reel_index, key[1], key[2])
                   /\ override_decisions[key] # None
                   /\ override_decisions[key] # TrackFor(request, Policy, reel_index, key[2])
         /\ Failing(diagnostics') <=> Failing(diagnostics) \/ Fails(request, Policy, reel_index)
  <1> DEFINE r == request
             p == Policy
             k == reel_index
             package == Overlay!OwnerPackage(r, p)
             base == Overlay!ReelNamed(r, ReelsOf(r, p)[k].reel_id)
             refs == RefsOf(r, p, k)
             outcome(l) == LaneOutcome(p, package, BaseReels[base].tracks[l], l, refs[l])
             track(l) == BuildTrackFile(l, refs[l], package, r.base_graph.origin_package_id)
             overridden == {l \in Present(refs) : outcome(l) = "override"}
             conflicts == {l \in overridden : Conflicts(override_decisions[<<base, l>>], track(l))}
             broken == {l \in Present(refs) : outcome(l) \notin {"override", "inherited"}}
             failure(l) == Diagnostic(outcome(l), <<k, l>>)
             clash(l) == Diagnostic("supplemental.conflicting_override", <<k, l>>)
             failures == {failure(l) : l \in broken}
             clashes == {clash(l) : l \in conflicts}
  <1>1. /\ pc = "reels" /\ reel_index' = reel_index + 1
        /\ UNCHANGED <<request, pc, policies, policy_index, owner, graph>>
        /\ reel_index <= Len(SupplementalReels)
        /\ BaseReelIndices(request.base_graph, SupplementalReel.reel_id) # {}
    BY DEF MergeReel
  <1>2. /\ request \in Request /\ p \in MergePolicy /\ Overlay!WellFormed(r, p)
        /\ OwnerPackage = package /\ SupplementalReels = ReelsOf(r, p)
        /\ k \in Turns(r, p) /\ k \in DOMAIN ReelsOf(r, p)
    BY <1>1, SelectedPolicy DEF Turns
  <1>3. SupplementalReel = ReelsOf(r, p)[k] /\ SupplementalReel.refs = refs
    BY <1>2 DEF SupplementalReel, RefsOf
  <1>4. base = FirstReel(request.base_graph, SupplementalReel.reel_id) /\ base \in DOMAIN BaseReels /\ base # 0
    BY <1>1, <1>2, <1>3, FirstReelFacts DEF BaseReels
  <1>5. /\ override_decisions' =
             [key \in OverrideKeys |->
                IF key[1] = base /\ key[2] \in overridden /\ override_decisions[key] = None
                THEN track(key[2]) ELSE override_decisions[key]]
        /\ diagnostics' = diagnostics \cup failures \cup clashes
    BY <1>2, <1>3, <1>4 DEF MergeReel
  <1>6. \A l \in Present(refs) :
          /\ Reference(r, p, k, l).reel = base
          /\ outcome(l) = "override" <=> Overlay!Replaces(r, p, Reference(r, p, k, l))
          /\ outcome(l) = "inherited" <=> Overlay!Repeats(r, p, Reference(r, p, k, l))
          /\ outcome(l) # "supplemental.conflicting_override"
    <2>1. \A l \in Present(refs) : Reference(r, p, k, l).reel = base
      BY DEF Reference
    <2> QED BY <1>2, <1>4, <2>1, OutcomeFacts DEF BaseReels
  <1> HIDE DEF refs, outcome, package
  <1>7. \A i, l : Overrides(r, p, k, i, l) <=> i = base /\ l \in overridden
    BY <1>6 DEF Overrides, refs
  <1>8. \A l \in overridden : track(l) = TrackFor(r, p, k, l)
    BY <1>2, <1>7, OverrideTrack DEF refs, package
  <1>9. overridden \subseteq Lane
    BY <1>2, RefFacts DEF refs
  <1> HIDE DEF base, track, overridden
  <1>10. override_decisions' =
           [key \in OverrideKeys |->
              IF Overrides(r, p, k, key[1], key[2]) /\ override_decisions[key] = None
              THEN TrackFor(r, p, k, key[2]) ELSE override_decisions[key]]
    BY <1>5, <1>7, <1>8
  <1>11. Conflicting(clashes) <=>
           \E key \in OverrideKeys : /\ Overrides(r, p, k, key[1], key[2])
                                     /\ override_decisions[key] # None
                                     /\ override_decisions[key] # TrackFor(r, p, k, key[2])
    <2>1. Conflicting(clashes) <=> \E l \in overridden : Conflicts(override_decisions[<<base, l>>], track(l))
      <3>1. \A l : clash(l).code = "supplemental.conflicting_override"
        BY DiagnosticCodes
      <3> HIDE DEF clash
      <3>2. Conflicting(clashes) <=> conflicts # {}
        BY <3>1 DEF Conflicting
      <3> QED BY <3>2
    <2>2. \A l \in overridden : <<base, l>> \in OverrideKeys
      BY <1>4, <1>9 DEF OverrideKeys
    <2>3. \A key \in OverrideKeys : key = <<key[1], key[2]>>
      BY DEF OverrideKeys
    <2> QED BY <1>7, <1>8, <2>1, <2>2, <2>3 DEF Conflicts
  <1>12. Failing(failures) <=> Fails(r, p, k)
    <2>1. \A l \in broken : outcome(l) # "supplemental.conflicting_override"
      BY <1>6
    <2>2. Failing(failures) <=> broken # {}
      <3>1. \A l \in broken : failure(l).code # "supplemental.conflicting_override"
        BY <2>1, DiagnosticCodes
      <3> HIDE DEF failure, broken
      <3> QED BY <3>1 DEF Failing
    <2>3. broken # {} <=> \E l \in Present(refs) : /\ ~Overlay!Replaces(r, p, Reference(r, p, k, l))
                                                   /\ ~Overlay!Repeats(r, p, Reference(r, p, k, l))
      BY <1>6
    <2> QED BY <1>4, <2>2, <2>3 DEF Fails, base, refs
  <1>13. ~Conflicting(failures) /\ ~Failing(clashes)
    <2>1. /\ \A l \in broken : failure(l).code # "supplemental.conflicting_override"
          /\ \A l : clash(l).code = "supplemental.conflicting_override"
      BY <1>6, DiagnosticCodes
    <2> HIDE DEF failure, clash, broken, conflicts
    <2> QED BY <2>1 DEF Conflicting, Failing
  <1>14. /\ Conflicting(diagnostics') <=> Conflicting(diagnostics) \/ Conflicting(clashes)
         /\ Failing(diagnostics') <=> Failing(diagnostics) \/ Failing(failures)
    BY <1>5, <1>13, DiagnosticCodes, Zenon
  <1> QED BY <1>1, <1>2, <1>10, <1>11, <1>12, <1>14

\* Sorting keeps the policies: an injective choice of positions misses none.
LEMMA SortedFacts ==
  ASSUME NEW ps \in Seq(MergePolicy), NEW qs \in SortedCopies(ps)
  PROVE  /\ qs \in Seq(MergePolicy) /\ Len(qs) = Len(ps)
         /\ \A n \in DOMAIN qs : \E m \in DOMAIN ps : qs[n] = ps[m]
         /\ \A m \in DOMAIN ps : \E n \in DOMAIN qs : qs[n] = ps[m]
  <1> DEFINE D == DOMAIN ps
  <1>1. PICK f \in [D -> D] : /\ qs = [i \in D |-> ps[f[i]]]
                              /\ \A i, j \in D : i < j => f[i] # f[j]
    BY DEF SortedCopies
  <1>2. D = 1 .. Len(ps) /\ IsFiniteSet(D)
    BY FS_Interval
  <1>3. \A i, j \in D : f[i] = f[j] => i = j
    BY <1>1, <1>2
  <1>4. f \in Surjection(D, D)
    <2>1. f \in Injection(D, D)
      BY <1>1, <1>3 DEF Injection, IsInjective
    <2> QED BY <1>2, <2>1, FS_Injection
  <1>5. \A m \in D : \E n \in D : f[n] = m
    BY <1>4 DEF Surjection
  <1>6. qs \in Seq(MergePolicy) /\ Len(qs) = Len(ps) /\ DOMAIN qs = D
    BY <1>1, <1>2
  <1> QED BY <1>1, <1>5, <1>6

-----------------------------------------------------------------------------
(* The merged graph *)

RecomputedTrack(g, track) == IF track = None THEN None ELSE RecomputeTrack(track, g.origin_package_id)

RecomputedReels(g) ==
  [i \in DOMAIN g.resolved_reels |->
     [reel_id |-> g.resolved_reels[i].reel_id,
      tracks  |-> [l \in Lane |-> RecomputedTrack(g, g.resolved_reels[i].tracks[l])]]]

LEMMA RecomputedTrackFacts ==
  ASSUME NEW g \in CompositionGraph, NEW track \in Optional(TrackFile)
  PROVE  /\ RecomputedTrack(g, track) \in Optional(TrackFile)
         /\ RecomputedTrack(g, track) = None <=> track = None
         /\ track # None =>
              /\ RecomputedTrack(g, track) \in TrackFile
              /\ RecomputedTrack(g, track).source_package_id = track.source_package_id
              /\ RecomputedTrack(g, track).dependency_kind =
                   IF track.source_package_id = g.origin_package_id THEN "local" ELSE "external"
  <1>1. CASE track = None
    BY <1>1 DEF RecomputedTrack, Optional
  <1>2. CASE track # None
    <2>1. track \in TrackFile
      BY <1>2 DEF Optional
    <2>2. RecomputeTrack(track, g.origin_package_id) \in TrackFile
      BY <2>1 DEF RecomputeTrack, TrackFile, DependencyKind
    <2>3. RecomputeTrack(track, g.origin_package_id) # None
      BY <2>2, NoneAssumption
    <2>4. /\ RecomputeTrack(track, g.origin_package_id).source_package_id = track.source_package_id
          /\ RecomputeTrack(track, g.origin_package_id).dependency_kind =
               IF track.source_package_id = g.origin_package_id THEN "local" ELSE "external"
      BY <2>1 DEF RecomputeTrack, TrackFile
    <2> QED BY <1>2, <2>2, <2>3, <2>4 DEF RecomputedTrack, Optional
  <1> QED BY <1>1, <1>2

LEMMA GraphReelFacts ==
  ASSUME NEW g \in CompositionGraph, NEW i \in DOMAIN g.resolved_reels
  PROVE  /\ g.resolved_reels[i] = [reel_id |-> g.resolved_reels[i].reel_id,
                                   tracks  |-> g.resolved_reels[i].tracks]
         /\ g.resolved_reels[i].reel_id \in ReelId
         /\ g.resolved_reels[i].tracks \in [Lane -> Optional(TrackFile)]
  <1>1. g.resolved_reels[i] \in GraphReel
    BY DEF CompositionGraph
  <1> QED BY <1>1 DEF GraphReel

LEMMA RecomputedReelsFacts ==
  ASSUME NEW g \in CompositionGraph
  PROVE  /\ RecomputedReels(g) \in Seq(GraphReel)
         /\ DOMAIN RecomputedReels(g) = DOMAIN g.resolved_reels
         /\ \A t \in TracksOf(RecomputedReels(g)) :
              /\ t \in TrackFile
              /\ t.dependency_kind = IF t.source_package_id = g.origin_package_id THEN "local" ELSE "external"
  <1> DEFINE reels == RecomputedReels(g)
  <1>1. g.resolved_reels \in Seq(GraphReel)
    BY DEF CompositionGraph
  <1>2. /\ DOMAIN reels = DOMAIN g.resolved_reels
        /\ \A i \in DOMAIN reels :
             /\ reels[i].reel_id = g.resolved_reels[i].reel_id
             /\ \A l \in Lane : reels[i].tracks[l] = RecomputedTrack(g, g.resolved_reels[i].tracks[l])
    BY DEF RecomputedReels
  <1>3. ASSUME NEW i \in DOMAIN reels
        PROVE  reels[i] \in GraphReel
    <2>1. [l \in Lane |-> RecomputedTrack(g, g.resolved_reels[i].tracks[l])] \in [Lane -> Optional(TrackFile)]
      <3>1. ASSUME NEW l \in Lane
            PROVE  RecomputedTrack(g, g.resolved_reels[i].tracks[l]) \in Optional(TrackFile)
        <4>1. g.resolved_reels[i].tracks[l] \in Optional(TrackFile)
          BY <1>2, GraphReelFacts
        <4> QED BY <4>1, RecomputedTrackFacts
      <3> QED BY <3>1
    <2>2. g.resolved_reels[i].reel_id \in ReelId
      BY <1>2, GraphReelFacts
    <2>3. reels[i] = [reel_id |-> g.resolved_reels[i].reel_id,
                      tracks  |-> [l \in Lane |-> RecomputedTrack(g, g.resolved_reels[i].tracks[l])]]
      BY <1>2 DEF RecomputedReels
    <2> HIDE DEF reels
    <2> QED BY <2>1, <2>2, <2>3 DEF GraphReel
  <1>4. reels \in Seq(GraphReel)
    <2>1. reels \in [1 .. Len(g.resolved_reels) -> GraphReel]
      <3>1. reels = [i \in 1 .. Len(g.resolved_reels) |-> reels[i]]
        BY <1>1 DEF RecomputedReels
      <3> HIDE DEF reels
      <3> QED BY <1>1, <1>2, <1>3, <3>1
    <2> QED BY <1>1, <2>1
  <1>5. ASSUME NEW t \in TracksOf(reels)
        PROVE  /\ t \in TrackFile
               /\ t.dependency_kind = IF t.source_package_id = g.origin_package_id THEN "local" ELSE "external"
    <2>1. PICK i \in DOMAIN reels, l \in Lane : t = reels[i].tracks[l] /\ t # None
      BY DEF TracksOf, Present
    <2>2. g.resolved_reels[i].tracks[l] \in Optional(TrackFile)
      BY <1>2, GraphReelFacts
    <2> QED BY <1>2, <2>1, <2>2, RecomputedTrackFacts
  <1> QED BY <1>2, <1>4, <1>5

LEMMA RecomputedGraph ==
  ASSUME NEW g \in CompositionGraph
  PROVE  /\ RecomputeGraphMetadata(g) =
              [g EXCEPT !.resolved_reels   = RecomputedReels(g),
                        !.composition_kind = IF \E t \in TracksOf(RecomputedReels(g)) : t.dependency_kind = "external"
                                             THEN "vf" ELSE "ov",
                        !.source_packages  = {g.origin_package_id} \cup
                                               {t.source_package_id : t \in TracksOf(RecomputedReels(g))}]
         /\ RecomputeGraphMetadata(g) \in CompositionGraph
         /\ MetadataAgrees(RecomputeGraphMetadata(g))
  <1> DEFINE reels == RecomputedReels(g)
             sources == {g.origin_package_id} \cup {t.source_package_id : t \in TracksOf(reels)}
             kind == IF \E t \in TracksOf(reels) : t.dependency_kind = "external" THEN "vf" ELSE "ov"
             merged == [g EXCEPT !.resolved_reels = reels, !.composition_kind = kind, !.source_packages = sources]
  <1>1. RecomputeGraphMetadata(g) = merged
    <2>1. [i \in DOMAIN g.resolved_reels |->
             [g.resolved_reels[i] EXCEPT !.tracks =
                [l \in Lane |-> IF @[l] = None THEN None ELSE RecomputeTrack(@[l], g.origin_package_id)]]]
          = reels
      <3>1. ASSUME NEW i \in DOMAIN g.resolved_reels
            PROVE  [g.resolved_reels[i] EXCEPT !.tracks =
                      [l \in Lane |-> IF @[l] = None THEN None ELSE RecomputeTrack(@[l], g.origin_package_id)]]
                   = [reel_id |-> g.resolved_reels[i].reel_id,
                      tracks  |-> [l \in Lane |-> RecomputedTrack(g, g.resolved_reels[i].tracks[l])]]
        <4>1. g.resolved_reels[i] = [reel_id |-> g.resolved_reels[i].reel_id,
                                     tracks  |-> g.resolved_reels[i].tracks]
          BY GraphReelFacts
        <4> QED BY <4>1 DEF RecomputedTrack
      <3> QED BY <3>1 DEF RecomputedReels
    <2> QED BY <2>1 DEF RecomputeGraphMetadata
  <1>2. /\ reels \in Seq(GraphReel)
        /\ \A t \in TracksOf(reels) :
             /\ t \in TrackFile
             /\ t.dependency_kind = IF t.source_package_id = g.origin_package_id THEN "local" ELSE "external"
    BY RecomputedReelsFacts
  <1>3. sources \subseteq PklId
    BY <1>2 DEF CompositionGraph, TrackFile
  <1>4. kind \in CompositionKind
    BY DEF CompositionKind
  <1>5. /\ merged.resolved_reels = reels /\ merged.composition_kind = kind
        /\ merged.source_packages = sources /\ merged.origin_package_id = g.origin_package_id
    BY DEF CompositionGraph
  <1>6. kind = "vf" <=> \E t \in TracksOf(reels) : t.dependency_kind = "external"
    OBVIOUS
  <1> HIDE DEF reels, sources, kind
  <1>7. merged \in CompositionGraph
    BY <1>2, <1>3, <1>4 DEF CompositionGraph
  <1> HIDE DEF merged
  <1>8. MetadataAgrees(merged)
    BY <1>2, <1>5, <1>6 DEF MetadataAgrees, sources
  <1> QED BY <1>1, <1>7, <1>8 DEF merged, reels, kind, sources

DecidedTrack(decisions, i, l, track) ==
  IF decisions[<<i, l>>] # None /\ track # None THEN decisions[<<i, l>>] ELSE track

LEMMA AppliedGraph ==
  ASSUME NEW g \in CompositionGraph,
         NEW decisions \in [(DOMAIN g.resolved_reels) \X Lane -> Optional(TrackFile)]
  PROVE  LET h == ApplyDecisions(g, decisions) IN
         /\ h \in CompositionGraph
         /\ \A field \in {"composition_id", "origin_package_id", "missing_assets"} : h[field] = g[field]
         /\ DOMAIN h.resolved_reels = DOMAIN g.resolved_reels
         /\ \A i \in DOMAIN g.resolved_reels :
              /\ h.resolved_reels[i].reel_id = g.resolved_reels[i].reel_id
              /\ \A l \in Lane :
                   h.resolved_reels[i].tracks[l] = DecidedTrack(decisions, i, l, g.resolved_reels[i].tracks[l])
  <1> DEFINE reel(i) == [reel_id |-> g.resolved_reels[i].reel_id,
                         tracks  |-> [l \in Lane |-> DecidedTrack(decisions, i, l, g.resolved_reels[i].tracks[l])]]
             reels == [i \in DOMAIN g.resolved_reels |-> reel(i)]
  <1>1. ApplyDecisions(g, decisions) = [g EXCEPT !.resolved_reels = reels]
    <2>1. ASSUME NEW i \in DOMAIN g.resolved_reels
          PROVE  [g.resolved_reels[i] EXCEPT !.tracks = [l \in Lane |-> DecidedTrack(decisions, i, l, @[l])]] = reel(i)
      <3>1. g.resolved_reels[i] = [reel_id |-> g.resolved_reels[i].reel_id, tracks |-> g.resolved_reels[i].tracks]
        BY GraphReelFacts
      <3> QED BY <3>1
    <2>2. ApplyDecisions(g, decisions) =
            [g EXCEPT !.resolved_reels =
               [i \in DOMAIN g.resolved_reels |->
                  [g.resolved_reels[i] EXCEPT !.tracks = [l \in Lane |-> DecidedTrack(decisions, i, l, @[l])]]]]
      BY DEF ApplyDecisions, DecidedTrack
    <2> HIDE DEF reel
    <2> QED BY <2>1, <2>2
  <1>2. g.resolved_reels \in Seq(GraphReel)
    BY DEF CompositionGraph
  <1>3. ASSUME NEW i \in DOMAIN g.resolved_reels
        PROVE  reel(i) \in GraphReel
    <2>1. [l \in Lane |-> DecidedTrack(decisions, i, l, g.resolved_reels[i].tracks[l])] \in [Lane -> Optional(TrackFile)]
      <3>1. ASSUME NEW l \in Lane
            PROVE  DecidedTrack(decisions, i, l, g.resolved_reels[i].tracks[l]) \in Optional(TrackFile)
        <4>1. g.resolved_reels[i].tracks[l] \in Optional(TrackFile)
          <5>1. g.resolved_reels[i].tracks \in [Lane -> Optional(TrackFile)]
            BY GraphReelFacts
          <5> QED BY <5>1
        <4>2. decisions[<<i, l>>] \in Optional(TrackFile)
          OBVIOUS
        <4> QED BY <4>1, <4>2 DEF DecidedTrack
      <3> QED BY <3>1
    <2>2. g.resolved_reels[i].reel_id \in ReelId
      BY GraphReelFacts
    <2> QED BY <2>1, <2>2 DEF GraphReel
  <1>4. /\ DOMAIN reels = DOMAIN g.resolved_reels
        /\ \A i \in DOMAIN reels :
             /\ reels[i].reel_id = g.resolved_reels[i].reel_id
             /\ \A l \in Lane : reels[i].tracks[l] = DecidedTrack(decisions, i, l, g.resolved_reels[i].tracks[l])
    OBVIOUS
  <1>5. reels \in Seq(GraphReel)
    <2> HIDE DEF reel
    <2>1. reels \in [1 .. Len(g.resolved_reels) -> GraphReel]
      BY <1>2, <1>3
    <2> QED BY <1>2, <2>1
  <1> HIDE DEF reels
  <1>6. [g EXCEPT !.resolved_reels = reels] \in CompositionGraph
    BY <1>5 DEF CompositionGraph
  <1>7. /\ [g EXCEPT !.resolved_reels = reels].resolved_reels = reels
        /\ \A field \in {"composition_id", "origin_package_id", "missing_assets"} :
             [g EXCEPT !.resolved_reels = reels][field] = g[field]
    BY DEF CompositionGraph
  <1> QED BY <1>1, <1>4, <1>6, <1>7

-----------------------------------------------------------------------------
(* Type correctness *)

LEMMA InitTyped == Init => TypeOK
  <1> SUFFICES ASSUME Init PROVE TypeOK
    OBVIOUS
  <1>1. request \in Request /\ request.policies \in Seq(MergePolicy)
    BY MergeAssumption DEF Init, Request
  <1>2. 1 \in 1 .. Len(request.policies) + 1
    BY <1>1
  <1>3. /\ override_decisions = [key \in OverrideKeys |-> None] /\ policies = <<>> /\ policy_index = 1
        /\ pc = "sort" /\ owner = 0 /\ reel_index = 1 /\ graph = None
    BY DEF Init
  <1> QED BY <1>1, <1>2, <1>3 DEF TypeOK, Optional

LEMMA SortTyped == ASSUME TypeOK, SortPolicies PROVE TypeOK'
  <1>1. request.policies \in Seq(MergePolicy)
    BY DEF TypeOK, Request
  <1>2. policies' \in Seq(MergePolicy)
    BY <1>1, SortedFacts DEF SortPolicies
  <1> QED BY <1>2 DEF TypeOK, SortPolicies, OverrideKeys, BaseReels

\* The policies are as many as those of the request.
LEMMA PolicyIndexTyped ==
  ASSUME TypeOK, Cursors, pc # "sort", policy_index <= Len(policies)
  PROVE  /\ policy_index \in DOMAIN policies /\ Policy \in MergePolicy
         /\ policy_index + 1 \in 1 .. Len(request.policies) + 1
  <1>1. /\ Len(policies) = Len(request.policies) /\ policies \in Seq(MergePolicy)
        /\ policy_index \in 1 .. Len(request.policies) + 1
        /\ request.policies \in Seq(MergePolicy)
    BY DEF TypeOK, Cursors, SamePolicies, Request
  <1> QED BY <1>1 DEF Policy

LEMMA MergeTyped == ASSUME TypeOK, Cursors, MergeReel PROVE TypeOK'
  <1> DEFINE replaced(key) ==
               /\ Overrides(request, Policy, reel_index, key[1], key[2])
               /\ override_decisions[key] = None
             track(key) == TrackFor(request, Policy, reel_index, key[2])
  <1>1. /\ pc = "reels" /\ reel_index \in DOMAIN ReelsOf(request, Policy)
        /\ request \in Request /\ Policy \in MergePolicy /\ Overlay!WellFormed(request, Policy)
    BY MergeTurn, SelectedPolicy DEF Turns
  <1>2. /\ UNCHANGED <<request, pc, policies, policy_index, owner, graph>> /\ reel_index' = reel_index + 1
        /\ override_decisions' =
             [key \in OverrideKeys |-> IF replaced(key) THEN track(key) ELSE override_decisions[key]]
    BY MergeTurn
  <1>3. \A key \in OverrideKeys : replaced(key) =>
          track(key) \in Optional(TrackFile) /\ BaseReels[key[1]].tracks[key[2]] # None
    BY <1>1, OverrideTrack DEF Optional, BaseReels
  <1>4. /\ override_decisions \in [OverrideKeys -> Optional(TrackFile)]
        /\ \A key \in OverrideKeys : BaseReels[key[1]].tracks[key[2]] = None => override_decisions[key] = None
    BY DEF TypeOK
  <1> HIDE DEF replaced, track
  <1>5. override_decisions' \in [OverrideKeys -> Optional(TrackFile)]
    BY <1>2, <1>3, <1>4
  <1>6. \A key \in OverrideKeys : BaseReels[key[1]].tracks[key[2]] = None => override_decisions'[key] = None
    BY <1>2, <1>3, <1>4
  <1>7. OverrideKeys' = OverrideKeys /\ BaseReels' = BaseReels
    BY <1>2 DEF OverrideKeys, BaseReels
  <1>8. /\ request' \in Request /\ pc' \in {"sort", "policies", "reels", "done"}
        /\ policies' \in Seq(MergePolicy) /\ policy_index' \in 1 .. Len(request'.policies) + 1
        /\ owner' \in {0} \cup DOMAIN request'.packages /\ reel_index' \in Nat \ {0}
        /\ graph' \in Optional(CompositionGraph)
    BY <1>2 DEF TypeOK
  <1> QED BY <1>5, <1>6, <1>7, <1>8 DEF TypeOK

\* The decisions fit the base graph, so the merged graph is a graph whose metadata agrees.
LEMMA MergedGraph ==
  ASSUME TypeOK
  PROVE  LET merged == RecomputeGraphMetadata(ApplyDecisions(request.base_graph, override_decisions))
         IN merged \in CompositionGraph /\ MetadataAgrees(merged)
  <1>1. /\ request.base_graph \in CompositionGraph
        /\ override_decisions \in [(DOMAIN request.base_graph.resolved_reels) \X Lane -> Optional(TrackFile)]
    BY DEF TypeOK, Request, OverrideKeys, BaseReels
  <1>2. ApplyDecisions(request.base_graph, override_decisions) \in CompositionGraph
    BY <1>1, AppliedGraph
  <1> QED BY <1>2, RecomputedGraph

LEMMA StepTyped == ASSUME TypeOK, Cursors, [Next]_vars PROVE TypeOK'
  <1>1. CASE SortPolicies
    BY <1>1, SortTyped
  <1>2. CASE SkipPolicy
    <2>1. policy_index + 1 \in 1 .. Len(request.policies) + 1
      BY <1>2, PolicyIndexTyped DEF SkipPolicy
    <2> QED BY <1>2, <2>1 DEF TypeOK, SkipPolicy, OverrideKeys, BaseReels
  <1>3. CASE SelectSupplemental
    <2>1. owner' \in DOMAIN request.packages
      BY <1>3 DEF SelectSupplemental, SupplementalOwners, OwnerCandidates
    <2> QED BY <1>3, <2>1 DEF TypeOK, SelectSupplemental, OverrideKeys, BaseReels
  <1>4. CASE UnknownReel
    BY <1>4 DEF TypeOK, UnknownReel, OverrideKeys, BaseReels
  <1>5. CASE MergeReel
    BY <1>5, MergeTyped
  <1>6. CASE NextPolicy
    <2>1. policy_index + 1 \in 1 .. Len(request.policies) + 1
      <3>1. policy_index \in DOMAIN policies /\ policies \in Seq(MergePolicy)
        BY <1>6 DEF NextPolicy, TypeOK, Cursors
      <3> QED BY <1>6, <3>1, PolicyIndexTyped DEF NextPolicy
    <2> QED BY <1>6, <2>1 DEF TypeOK, NextPolicy, OverrideKeys, BaseReels
  <1>7. CASE Finish
    <2>1. graph' \in Optional(CompositionGraph)
      BY <1>7, MergedGraph DEF Finish, Optional
    <2> QED BY <1>7, <2>1 DEF TypeOK, Finish, OverrideKeys, BaseReels
  <1>8. CASE UNCHANGED vars
    BY <1>8 DEF TypeOK, vars, OverrideKeys, BaseReels
  <1> QED BY <1>1, <1>2, <1>3, <1>4, <1>5, <1>6, <1>7, <1>8 DEF Next

-----------------------------------------------------------------------------
(* The invariant *)

\* What was collected still follows when the turns taken stay the same.
LEMMA SameTurns ==
  ASSUME DecisionsFollow, ConflictsFollow,
         UNCHANGED <<request, policies, override_decisions>>,
         Conflicting(diagnostics') <=> Conflicting(diagnostics),
         \A n \in DOMAIN policies : Taken(n)' = Taken(n)
  PROVE  DecisionsFollow' /\ ConflictsFollow'
  <1>1. OverrideKeys' = OverrideKeys
    BY DEF OverrideKeys, BaseReels
  <1>2. DecisionsFollow'
    BY <1>1 DEF DecisionsFollow
  <1>3. ConflictsFollow'
    BY <1>1 DEF ConflictsFollow, Conflicting
  <1> QED BY <1>2, <1>3

LEMMA SortFollows ==
  ASSUME TypeOK, WalkIsDetermined, SortPolicies
  PROVE  WalkIsDetermined'
  <1>1. /\ policies = <<>> /\ policy_index = 1 /\ pc = "sort" /\ pc' = "policies" /\ graph = None
        /\ UNCHANGED <<request, policy_index, owner, reel_index, override_decisions, diagnostics, graph>>
    BY DEF WalkIsDetermined, Cursors, Published, SortPolicies
  <1>2. request.policies \in Seq(MergePolicy)
    BY DEF TypeOK, Request
  <1>3. policies' \in Seq(MergePolicy) /\ SamePolicies'
    BY <1>1, <1>2, SortedFacts DEF SortPolicies, SamePolicies
  <1>4. \A n \in DOMAIN policies' : Taken(n)' = {}
    BY <1>1, <1>3 DEF Taken
  <1>5. \A n \in DOMAIN policies' : ~(n < policy_index')
    BY <1>1, <1>3
  <1>6. OverrideKeys' = OverrideKeys
    BY <1>1 DEF OverrideKeys, BaseReels
  <1>7. DecisionsFollow'
    <2>1. \A key \in OverrideKeys : override_decisions[key] = None
      BY <1>1 DEF WalkIsDetermined, DecisionsFollow
    <2> QED BY <1>1, <1>4, <1>6, <2>1 DEF DecisionsFollow
  <1>8. ConflictsFollow'
    BY <1>1, <1>4 DEF WalkIsDetermined, ConflictsFollow
  <1>9. FailuresFollow'
    BY <1>1, <1>4, <1>5 DEF WalkIsDetermined, FailuresFollow
  <1>10. Cursors'
    BY <1>1, <1>3 DEF Cursors
  <1>11. Published'
    BY <1>1 DEF Published
  <1> QED BY <1>7, <1>8, <1>9, <1>10, <1>11 DEF WalkIsDetermined

\* A refused policy takes no turns, and is not well formed.
LEMMA SkipFollows ==
  ASSUME TypeOK, WalkIsDetermined, SkipPolicy
  PROVE  WalkIsDetermined'
  <1>1. /\ pc = "policies" /\ graph = None /\ policy_index' = policy_index + 1
        /\ UNCHANGED <<request, pc, policies, owner, reel_index, override_decisions, graph>>
    BY DEF WalkIsDetermined, Published, SkipPolicy
  <1>2. /\ request \in Request /\ policies \in Seq(MergePolicy) /\ policy_index \in DOMAIN policies
        /\ Policy \in MergePolicy /\ Policy = policies[policy_index]
    BY <1>1, PolicyIndexTyped DEF TypeOK, WalkIsDetermined, SkipPolicy, Policy
  <1>3. ~Overlay!WellFormed(request, policies[policy_index])
    BY <1>2, PolicyVerdict DEF SkipPolicy
  <1>4. \A n \in DOMAIN policies : n < policy_index' <=> n < policy_index \/ n = policy_index
    BY <1>1, <1>2
  <1>5. \A n \in DOMAIN policies : Taken(n)' = Taken(n)
    BY <1>1, <1>3, <1>4 DEF Taken, Turns
  <1>6. Conflicting(diagnostics') <=> Conflicting(diagnostics)
    BY PolicyCodes DEF SkipPolicy, Conflicting
  <1>7. Failing(diagnostics')
    BY PolicyCodes DEF SkipPolicy, Failing
  <1>8. DecisionsFollow' /\ ConflictsFollow'
    BY <1>1, <1>5, <1>6, SameTurns DEF WalkIsDetermined
  <1>9. FailuresFollow'
    BY <1>1, <1>2, <1>3, <1>4, <1>7 DEF FailuresFollow, Failing
  <1>10. Cursors'
    BY <1>1 DEF WalkIsDetermined, Cursors, SamePolicies
  <1>11. Published'
    BY <1>1 DEF Published
  <1> QED BY <1>8, <1>9, <1>10, <1>11 DEF WalkIsDetermined

LEMMA SelectFollows ==
  ASSUME TypeOK, WalkIsDetermined, SelectSupplemental
  PROVE  WalkIsDetermined'
  <1>1. /\ pc = "policies" /\ graph = None /\ pc' = "reels" /\ reel_index' = 1
        /\ owner' \in SupplementalOwners(request, Policy)
        /\ UNCHANGED <<request, policies, policy_index, override_decisions, diagnostics, graph>>
    BY DEF WalkIsDetermined, Published, SelectSupplemental
  <1>2. /\ request \in Request /\ policies \in Seq(MergePolicy) /\ policy_index \in DOMAIN policies
        /\ Policy \in MergePolicy /\ Policy' = Policy
    BY <1>1, PolicyIndexTyped DEF TypeOK, WalkIsDetermined, SelectSupplemental, Policy
  <1>3. Overlay!WellFormed(request, Policy)
    BY <1>2, PolicyVerdict DEF SelectSupplemental
  <1>4. SupplementalOwners(request, Policy) = {owner'}
    BY <1>1, <1>3, SameLookups DEF Overlay!WellFormed
  <1>5. \A n \in DOMAIN policies : Taken(n)' = Taken(n)
    <2>1. \A n \in DOMAIN policies : \A k \in Turns(request, policies[n]) : n = policy_index => ~(k < 1)
      <3>1. ReelsOf(request, Policy) \in Seq(CplReel)
        BY <1>2, <1>4, SelectedFacts
      <3> QED BY <3>1 DEF Turns, Policy
    <2> QED BY <1>1, <2>1 DEF Taken
  <1>6. DecisionsFollow' /\ ConflictsFollow'
    BY <1>1, <1>5, SameTurns DEF WalkIsDetermined
  <1>7. FailuresFollow'
    BY <1>1, <1>5 DEF WalkIsDetermined, FailuresFollow
  <1>8. Cursors'
    BY <1>1, <1>2, <1>3, <1>4 DEF WalkIsDetermined, Cursors, SamePolicies
  <1>9. Published'
    BY <1>1 DEF Published
  <1> QED BY <1>6, <1>7, <1>8, <1>9 DEF WalkIsDetermined

\* Both turns of the reel loop take reel_index of the policy in hand.
LEMMA TakenByATurn ==
  ASSUME TypeOK, Cursors, pc = "reels", reel_index <= Len(SupplementalReels),
         reel_index' = reel_index + 1, UNCHANGED <<request, pc, policies, policy_index, owner, graph>>
  PROVE  /\ reel_index \in Turns(request, Policy)
         /\ \A n \in DOMAIN policies : \A k :
              k \in Taken(n)' <=> k \in Taken(n) \/ (n = policy_index /\ k = reel_index)
         /\ Cursors'
  <1>1. /\ Turns(request, Policy) = 1 .. Len(SupplementalReels) /\ reel_index \in Nat \ {0}
        /\ policies[policy_index] = Policy /\ policy_index \in DOMAIN policies /\ policies \in Seq(MergePolicy)
        /\ SupplementalReels \in Seq(CplReel)
    BY SelectedPolicy DEF TypeOK
  <1>2. reel_index \in Turns(request, Policy)
    BY <1>1
  <1>3. ASSUME NEW n \in DOMAIN policies, NEW k
        PROVE  k \in Taken(n)' <=> k \in Taken(n) \/ (n = policy_index /\ k = reel_index)
    <2>1. CASE n = policy_index
      <3>1. k \in Taken(n) <=> k \in 1 .. Len(SupplementalReels) /\ k < reel_index
        BY <1>1, <2>1 DEF Taken
      <3>2. k \in Taken(n)' <=> k \in 1 .. Len(SupplementalReels) /\ k < reel_index + 1
        BY <1>1, <2>1 DEF Taken
      <3> QED BY <1>1, <2>1, <3>1, <3>2
    <2>2. CASE n # policy_index
      BY <2>2 DEF Taken
    <2> QED BY <2>1, <2>2
  <1>4. Cursors'
    BY DEF Cursors, SamePolicies, Policy
  <1> QED BY <1>2, <1>3, <1>4

LEMMA UnknownReelFollows ==
  ASSUME TypeOK, WalkIsDetermined, UnknownReel
  PROVE  WalkIsDetermined'
  <1> DEFINE unknown == {Diagnostic("supplemental.broken_base_dependency", <<reel_index, "Id">>)}
  <1>1. /\ pc = "reels" /\ graph = None /\ reel_index' = reel_index + 1 /\ reel_index <= Len(SupplementalReels)
        /\ UNCHANGED <<request, pc, policies, policy_index, owner, override_decisions, graph>>
        /\ diagnostics' = diagnostics \cup unknown
        /\ BaseReelIndices(request.base_graph, SupplementalReel.reel_id) = {}
    BY DEF WalkIsDetermined, Published, UnknownReel
  <1>2. /\ reel_index \in Turns(request, Policy)
        /\ \A n \in DOMAIN policies : \A k :
             k \in Taken(n)' <=> k \in Taken(n) \/ (n = policy_index /\ k = reel_index)
        /\ Cursors'
    BY <1>1, TakenByATurn DEF WalkIsDetermined
  <1>3. /\ request \in Request /\ policy_index \in DOMAIN policies /\ policies[policy_index] = Policy
        /\ SupplementalReels = ReelsOf(request, Policy)
    BY <1>1, SelectedPolicy DEF WalkIsDetermined
  <1>4. Overlay!ReelNamed(request, ReelsOf(request, Policy)[reel_index].reel_id) = 0
    BY <1>1, <1>3, FirstReelFacts DEF SupplementalReel
  <1>5. /\ Fails(request, Policy, reel_index)
        /\ \A i, l : ~Overrides(request, Policy, reel_index, i, l)
    BY <1>4 DEF Fails, Overrides, Reference, Overlay!Replaces
  <1>6. /\ Conflicting(diagnostics') <=> Conflicting(diagnostics)
        /\ Failing(diagnostics')
    <2>1. ~Conflicting(unknown) /\ Failing(unknown)
      BY DiagnosticCodes DEF Conflicting, Failing
    <2> QED BY <1>1, <2>1, DiagnosticCodes, Zenon
  <1>7. OverrideKeys' = OverrideKeys
    BY <1>1 DEF OverrideKeys, BaseReels
  <1>8. DecisionsFollow'
    <2>1. ASSUME NEW key \in OverrideKeys, override_decisions[key] = None,
                 NEW n \in DOMAIN policies, NEW k \in Taken(n)'
          PROVE  ~Overrides(request, policies[n], k, key[1], key[2])
      BY <1>2, <1>3, <1>5, <2>1 DEF WalkIsDetermined, DecisionsFollow
    <2>2. ASSUME NEW key \in OverrideKeys, override_decisions[key] # None
          PROVE  \E n \in DOMAIN policies : \E k \in Taken(n)' :
                   /\ Overrides(request, policies[n], k, key[1], key[2])
                   /\ override_decisions[key] = TrackFor(request, policies[n], k, key[2])
      BY <1>2, <2>2 DEF WalkIsDetermined, DecisionsFollow
    <2> QED BY <1>1, <1>7, <2>1, <2>2 DEF DecisionsFollow
  <1>9. ConflictsFollow'
    <2>1. (\E n \in DOMAIN policies : \E k \in Taken(n)' : \E key \in OverrideKeys :
             /\ Overrides(request, policies[n], k, key[1], key[2])
             /\ override_decisions[key] # TrackFor(request, policies[n], k, key[2])) <=>
          (\E n \in DOMAIN policies : \E k \in Taken(n) : \E key \in OverrideKeys :
             /\ Overrides(request, policies[n], k, key[1], key[2])
             /\ override_decisions[key] # TrackFor(request, policies[n], k, key[2]))
      BY <1>2, <1>3, <1>5
    <2> QED BY <1>1, <1>6, <1>7, <2>1 DEF WalkIsDetermined, ConflictsFollow, Conflicting
  <1>10. FailuresFollow'
    BY <1>1, <1>2, <1>3, <1>5, <1>6 DEF FailuresFollow, Failing
  <1>11. Published'
    BY <1>1 DEF Published
  <1> QED BY <1>2, <1>8, <1>9, <1>10, <1>11 DEF WalkIsDetermined

LEMMA MergeFollows ==
  ASSUME TypeOK, WalkIsDetermined, MergeReel
  PROVE  WalkIsDetermined'
  <1> DEFINE now(key) == Overrides(request, Policy, reel_index, key[1], key[2])
             track(key) == TrackFor(request, Policy, reel_index, key[2])
             before(key) == override_decisions[key]
             after(key) == override_decisions'[key]
             took(n, k, key) == Overrides(request, policies[n], k, key[1], key[2])
             would(n, k, key) == TrackFor(request, policies[n], k, key[2])
  <1>1. /\ pc = "reels" /\ graph = None /\ reel_index' = reel_index + 1
        /\ UNCHANGED <<request, pc, policies, policy_index, owner, graph>>
        /\ reel_index <= Len(SupplementalReels)
    BY MergeTurn DEF WalkIsDetermined, Published, MergeReel
  <1>2. /\ \A key \in OverrideKeys : after(key) = IF now(key) /\ before(key) = None THEN track(key) ELSE before(key)
        /\ Conflicting(diagnostics') <=>
             \/ Conflicting(diagnostics)
             \/ \E key \in OverrideKeys : now(key) /\ before(key) # None /\ before(key) # track(key)
        /\ Failing(diagnostics') <=> Failing(diagnostics) \/ Fails(request, Policy, reel_index)
    BY MergeTurn DEF WalkIsDetermined
  <1>3. /\ reel_index \in Turns(request, Policy)
        /\ \A n \in DOMAIN policies : \A k :
             k \in Taken(n)' <=> k \in Taken(n) \/ (n = policy_index /\ k = reel_index)
        /\ Cursors'
    BY <1>1, TakenByATurn DEF WalkIsDetermined
  <1>4. policy_index \in DOMAIN policies /\ policies[policy_index] = Policy
    BY <1>1, SelectedPolicy DEF WalkIsDetermined
  <1>5. \A key \in OverrideKeys : now(key) => track(key) # None
    <2>1. /\ request \in Request /\ Policy \in MergePolicy /\ Overlay!WellFormed(request, Policy)
          /\ reel_index \in DOMAIN ReelsOf(request, Policy)
      BY <1>1, <1>3, SelectedPolicy DEF WalkIsDetermined, Turns
    <2> QED BY <2>1, OverrideTrack
  <1>6. \A key : /\ took(policy_index, reel_index, key) <=> now(key)
                 /\ would(policy_index, reel_index, key) = track(key)
    BY <1>4
  <1>7. \A key \in OverrideKeys :
          IF before(key) = None
          THEN \A n \in DOMAIN policies : \A k \in Taken(n) : ~took(n, k, key)
          ELSE \E n \in DOMAIN policies : \E k \in Taken(n) : took(n, k, key) /\ before(key) = would(n, k, key)
    BY DEF WalkIsDetermined, DecisionsFollow
  <1>8. Conflicting(diagnostics) <=>
          \E n \in DOMAIN policies : \E k \in Taken(n) : \E key \in OverrideKeys :
            took(n, k, key) /\ before(key) # would(n, k, key)
    BY DEF WalkIsDetermined, ConflictsFollow, Conflicting
  <1>9. OverrideKeys' = OverrideKeys
    BY <1>1 DEF OverrideKeys, BaseReels
  <1> HIDE DEF now, track, before, after, took, would
  <1>10. \A key \in OverrideKeys :
           IF after(key) = None
           THEN \A n \in DOMAIN policies : \A k \in Taken(n)' : ~took(n, k, key)
           ELSE \E n \in DOMAIN policies : \E k \in Taken(n)' : took(n, k, key) /\ after(key) = would(n, k, key)
    <2>1. ASSUME NEW key \in OverrideKeys, after(key) = None, NEW n \in DOMAIN policies, NEW k \in Taken(n)'
          PROVE  ~took(n, k, key)
      <3>1. before(key) = None /\ ~now(key)
        BY <1>2, <1>5, <2>1
      <3> QED BY <1>3, <1>6, <1>7, <2>1, <3>1
    <2>2. ASSUME NEW key \in OverrideKeys, after(key) # None
          PROVE  \E n \in DOMAIN policies : \E k \in Taken(n)' : took(n, k, key) /\ after(key) = would(n, k, key)
      <3>1. CASE before(key) = None
        <4>1. now(key) /\ after(key) = track(key)
          BY <1>2, <2>2, <3>1
        <4> QED BY <1>3, <1>4, <1>6, <4>1
      <3>2. CASE before(key) # None
        BY <1>2, <1>3, <1>7, <2>2, <3>2
      <3> QED BY <3>1, <3>2
    <2> QED BY <2>1, <2>2
  <1>11. Conflicting(diagnostics') <=>
           \E n \in DOMAIN policies : \E k \in Taken(n)' : \E key \in OverrideKeys :
             took(n, k, key) /\ after(key) # would(n, k, key)
    <2>1. \A n \in DOMAIN policies : \A k \in Taken(n) : \A key \in OverrideKeys :
            took(n, k, key) => after(key) = before(key)
      BY <1>2, <1>7
    <2>2. \A key \in OverrideKeys :
            now(key) /\ after(key) # track(key) <=> now(key) /\ before(key) # None /\ before(key) # track(key)
      BY <1>2
    <2>3. (\E n \in DOMAIN policies : \E k \in Taken(n)' : \E key \in OverrideKeys :
             took(n, k, key) /\ after(key) # would(n, k, key)) <=>
          \/ \E n \in DOMAIN policies : \E k \in Taken(n) : \E key \in OverrideKeys :
               took(n, k, key) /\ after(key) # would(n, k, key)
          \/ \E key \in OverrideKeys : now(key) /\ after(key) # track(key)
      BY <1>3, <1>4, <1>6
    <2> QED BY <1>2, <1>8, <2>1, <2>2, <2>3
  <1>12. DecisionsFollow'
    BY <1>1, <1>9, <1>10 DEF DecisionsFollow, after, took, would
  <1>13. ConflictsFollow'
    BY <1>1, <1>9, <1>11 DEF ConflictsFollow, Conflicting, after, took, would
  <1>14. FailuresFollow'
    BY <1>1, <1>2, <1>3, <1>4 DEF WalkIsDetermined, FailuresFollow, Failing
  <1>15. Published'
    BY <1>1 DEF Published
  <1> QED BY <1>3, <1>12, <1>13, <1>14, <1>15 DEF WalkIsDetermined

LEMMA NextPolicyFollows ==
  ASSUME TypeOK, WalkIsDetermined, NextPolicy
  PROVE  WalkIsDetermined'
  <1>1. /\ pc = "reels" /\ pc' = "policies" /\ graph = None /\ policy_index' = policy_index + 1
        /\ reel_index > Len(SupplementalReels)
        /\ UNCHANGED <<request, policies, owner, reel_index, override_decisions, diagnostics, graph>>
    BY DEF WalkIsDetermined, Published, NextPolicy
  <1>2. /\ Turns(request, Policy) = 1 .. Len(SupplementalReels) /\ reel_index \in Nat \ {0}
        /\ policies[policy_index] = Policy /\ policy_index \in DOMAIN policies /\ policies \in Seq(MergePolicy)
        /\ SupplementalReels \in Seq(CplReel) /\ Overlay!WellFormed(request, Policy)
    BY <1>1, SelectedPolicy DEF WalkIsDetermined, TypeOK
  <1>3. \A n \in DOMAIN policies : n < policy_index' <=> n < policy_index \/ n = policy_index
    BY <1>1, <1>2
  <1>4. \A k \in Turns(request, Policy) : k < reel_index
    BY <1>1, <1>2
  <1>5. \A n \in DOMAIN policies : Taken(n)' = Taken(n)
    BY <1>1, <1>2, <1>3, <1>4 DEF Taken
  <1>6. DecisionsFollow' /\ ConflictsFollow'
    BY <1>1, <1>5, SameTurns DEF WalkIsDetermined
  <1>7. FailuresFollow'
    BY <1>1, <1>2, <1>3, <1>5 DEF WalkIsDetermined, FailuresFollow
  <1>8. Cursors'
    BY <1>1 DEF WalkIsDetermined, Cursors, SamePolicies
  <1>9. Published'
    BY <1>1 DEF Published
  <1> QED BY <1>6, <1>7, <1>8, <1>9 DEF WalkIsDetermined

LEMMA FinishFollows ==
  ASSUME TypeOK, WalkIsDetermined, Finish
  PROVE  WalkIsDetermined'
  <1>1. /\ pc = "policies" /\ pc' = "done" /\ policy_index > Len(policies)
        /\ UNCHANGED <<request, policies, policy_index, owner, reel_index, override_decisions, diagnostics>>
    BY DEF Finish
  <1>2. \A n \in DOMAIN policies : Taken(n)' = Taken(n)
    BY <1>1 DEF Taken
  <1>3. DecisionsFollow' /\ ConflictsFollow'
    BY <1>1, <1>2, SameTurns DEF WalkIsDetermined
  <1>4. FailuresFollow'
    BY <1>1, <1>2 DEF WalkIsDetermined, FailuresFollow
  <1>5. Cursors'
    <2>1. Len(policies) = Len(request.policies) /\ policies \in Seq(MergePolicy)
      BY <1>1 DEF TypeOK, WalkIsDetermined, Cursors, SamePolicies
    <2>2. policy_index = Len(policies) + 1
      BY <1>1, <2>1 DEF TypeOK
    <2> QED BY <1>1, <2>2 DEF WalkIsDetermined, Cursors, SamePolicies
  <1>6. Published'
    BY <1>1 DEF Published, Finish
  <1> QED BY <1>3, <1>4, <1>5, <1>6 DEF WalkIsDetermined

LEMMA InitFollows == Init => WalkIsDetermined
  <1> SUFFICES ASSUME Init PROVE WalkIsDetermined
    OBVIOUS
  <1>1. DOMAIN policies = {}
    BY DEF Init
  <1>2. DecisionsFollow
    BY <1>1 DEF Init, DecisionsFollow
  <1>3. ConflictsFollow /\ FailuresFollow
    BY <1>1 DEF Init, ConflictsFollow, FailuresFollow
  <1>4. Cursors /\ Published
    BY DEF Init, Cursors, Published
  <1> QED BY <1>2, <1>3, <1>4 DEF WalkIsDetermined

LEMMA StepFollows ==
  ASSUME TypeOK, WalkIsDetermined, [Next]_vars
  PROVE  WalkIsDetermined'
  <1>1. CASE UNCHANGED vars
    BY <1>1 DEF vars, WalkIsDetermined, DecisionsFollow, ConflictsFollow, FailuresFollow, Cursors, Published,
                SamePolicies, Taken, OverrideKeys, BaseReels, Policy
  <1> QED BY <1>1, SortFollows, SkipFollows, SelectFollows, UnknownReelFollows, MergeFollows,
             NextPolicyFollows, FinishFollows DEF Next

\* The type and the turns together are inductive, for every request.
LEMMA InductiveInvariant == Spec => [](TypeOK /\ WalkIsDetermined)
  <1>1. Init => TypeOK /\ WalkIsDetermined
    BY InitTyped, InitFollows
  <1>2. TypeOK /\ WalkIsDetermined /\ [Next]_vars => (TypeOK /\ WalkIsDetermined)'
    BY StepTyped, StepFollows DEF WalkIsDetermined
  <1> QED BY <1>1, <1>2, PTL DEF Spec

-----------------------------------------------------------------------------
(* The properties *)

\* For every request: every variable keeps its type through the call, the cursors
\* stay within the policies of the request, and an override is only recorded for a
\* lane that the base graph has.
THEOREM TypeCorrectness == Spec => []TypeOK
  BY InductiveInvariant, PTL

\* For every request: after a merge the composition kind, the sources and the
\* dependency kinds of the graph are those of the tracks it now has.
THEOREM MetadataCorrectness == Spec => []MergedMetadataAgrees
  <1>1. TypeOK /\ WalkIsDetermined => MergedMetadataAgrees
    BY MergedGraph DEF WalkIsDetermined, Published, MergedMetadataAgrees
  <1> QED BY <1>1, InductiveInvariant, PTL

\* Policy p replaces lane l of base reel i by track t: by one of its references,
\* or by a turn of the walk.
ReplacesByReference(r, p, i, l, t) ==
  \E x \in Overlay!References(r, p) :
    x.reel = i /\ x.lane = l /\ Overlay!Replaces(r, p, x) /\ t = Overlay!Track(r, p, x)

ReplacesByTurn(r, p, i, l, t) ==
  \E k \in Turns(r, p) : Overrides(r, p, k, i, l) /\ t = TrackFor(r, p, k, l)

LEMMA ReferencesOfTurns ==
  ASSUME NEW r, NEW p, Overlay!WellFormed(r, p), NEW x
  PROVE  x \in Overlay!References(r, p) <=>
           \E k \in Turns(r, p) : \E m \in Present(RefsOf(r, p, k)) : x = Reference(r, p, k, m)
  BY SameLookups DEF Overlay!References, Turns, ReelsOf, RefsOf, Reference

LEMMA ReplacingReferences ==
  ASSUME NEW r, NEW p, Overlay!WellFormed(r, p), NEW i, NEW l, NEW t
  PROVE  ReplacesByReference(r, p, i, l, t) <=> ReplacesByTurn(r, p, i, l, t)
  <1>1. \A x : x \in Overlay!References(r, p) <=>
                 \E k \in Turns(r, p) : \E m \in Present(RefsOf(r, p, k)) : x = Reference(r, p, k, m)
    BY ReferencesOfTurns
  <1>2. \A k, m : Reference(r, p, k, m).lane = m
    BY DEF Reference
  <1> QED BY <1>1, <1>2 DEF ReplacesByReference, ReplacesByTurn, Overrides, TrackFor

\* Some policy of the request replaces lane l of base reel i by track t.
Replaced(i, l, t) ==
  \E n \in DOMAIN request.policies : ReplacesByTurn(request, request.policies[n], i, l, t)

LEMMA BroughtByTurns ==
  ASSUME NEW i, NEW l, NEW t
  PROVE  t \in Overlay!Brought(request, i, l) <=> Replaced(i, l, t)
  <1>1. t \in Overlay!Brought(request, i, l) <=>
          \E n \in DOMAIN request.policies :
            /\ Overlay!WellFormed(request, request.policies[n])
            /\ ReplacesByReference(request, request.policies[n], i, l, t)
    BY DEF Overlay!Brought, ReplacesByReference
  <1>2. \A n \in DOMAIN request.policies : Overlay!WellFormed(request, request.policies[n]) =>
          (ReplacesByReference(request, request.policies[n], i, l, t) <=>
           ReplacesByTurn(request, request.policies[n], i, l, t))
    BY ReplacingReferences
  <1>3. \A n \in DOMAIN request.policies :
          ReplacesByTurn(request, request.policies[n], i, l, t) => Overlay!WellFormed(request, request.policies[n])
    BY DEF ReplacesByTurn, Turns
  <1> QED BY <1>1, <1>2, <1>3 DEF Replaced

\* What the walk has decided and reported when it has looked at every policy.
LEMMA WholeWalk ==
  ASSUME TypeOK, WalkIsDetermined, pc # "sort", pc # "reels", policy_index = Len(policies) + 1
  PROVE  /\ \A i \in DOMAIN BaseReels : \A l \in Lane :
              IF override_decisions[<<i, l>>] = None
              THEN Overlay!Brought(request, i, l) = {}
              ELSE override_decisions[<<i, l>>] \in Overlay!Brought(request, i, l)
         /\ Conflicting(diagnostics) <=>
              \E i \in DOMAIN BaseReels : \E l \in Lane : MoreThanOne(Overlay!Brought(request, i, l))
         /\ Failing(diagnostics) <=>
              \E n \in DOMAIN request.policies :
                \/ ~Overlay!WellFormed(request, request.policies[n])
                \/ \E k \in Turns(request, request.policies[n]) : Fails(request, request.policies[n], k)
  <1>1. SamePolicies /\ policies \in Seq(MergePolicy)
    BY DEF WalkIsDetermined, Cursors, TypeOK
  <1>2. \A n \in DOMAIN policies : n < policy_index
    BY <1>1
  <1>3. \A n \in DOMAIN policies : Taken(n) = Turns(request, policies[n])
    BY <1>2 DEF Taken
  <1>4. \A i, l, t : Replaced(i, l, t) <=>
          \E n \in DOMAIN policies : \E k \in Taken(n) :
            Overrides(request, policies[n], k, i, l) /\ t = TrackFor(request, policies[n], k, l)
    BY <1>1, <1>3 DEF Replaced, ReplacesByTurn, SamePolicies
  <1>5. \A i \in DOMAIN BaseReels : \A l \in Lane :
          <<i, l>> \in OverrideKeys /\ <<i, l>>[1] = i /\ <<i, l>>[2] = l
    BY DEF OverrideKeys
  <1>6. \A key \in OverrideKeys : key[1] \in DOMAIN BaseReels /\ key[2] \in Lane /\ key = <<key[1], key[2]>>
    BY DEF OverrideKeys
  <1>7. \A key \in OverrideKeys :
          IF override_decisions[key] = None
          THEN \A t : ~Replaced(key[1], key[2], t)
          ELSE Replaced(key[1], key[2], override_decisions[key])
    BY <1>4 DEF WalkIsDetermined, DecisionsFollow
  <1>8. Conflicting(diagnostics) <=>
          \E key \in OverrideKeys : \E t : Replaced(key[1], key[2], t) /\ override_decisions[key] # t
    BY <1>4 DEF WalkIsDetermined, ConflictsFollow, Conflicting
  <1>9. \A i \in DOMAIN BaseReels : \A l \in Lane : \A t :
          t \in Overlay!Brought(request, i, l) <=> Replaced(i, l, t)
    BY BroughtByTurns
  <1> HIDE DEF Replaced
  <1>10. \A i \in DOMAIN BaseReels : \A l \in Lane :
           IF override_decisions[<<i, l>>] = None
           THEN Overlay!Brought(request, i, l) = {}
           ELSE override_decisions[<<i, l>>] \in Overlay!Brought(request, i, l)
    BY <1>5, <1>7, <1>9
  <1>11. Conflicting(diagnostics) <=>
           \E i \in DOMAIN BaseReels : \E l \in Lane : MoreThanOne(Overlay!Brought(request, i, l))
    <2>1. ASSUME NEW key \in OverrideKeys, NEW t, Replaced(key[1], key[2], t), override_decisions[key] # t
          PROVE  MoreThanOne(Overlay!Brought(request, key[1], key[2]))
      BY <1>6, <1>7, <1>9, <2>1 DEF MoreThanOne
    <2>2. ASSUME NEW i \in DOMAIN BaseReels, NEW l \in Lane, MoreThanOne(Overlay!Brought(request, i, l))
          PROVE  \E t : Replaced(i, l, t) /\ override_decisions[<<i, l>>] # t
      BY <1>9, <2>2 DEF MoreThanOne
    <2>3. (\E key \in OverrideKeys : \E t : Replaced(key[1], key[2], t) /\ override_decisions[key] # t)
            => \E i \in DOMAIN BaseReels : \E l \in Lane : MoreThanOne(Overlay!Brought(request, i, l))
      <3> HAVE \E key \in OverrideKeys : \E t : Replaced(key[1], key[2], t) /\ override_decisions[key] # t
      <3>1. PICK key \in OverrideKeys : MoreThanOne(Overlay!Brought(request, key[1], key[2]))
        BY <2>1
      <3>2. key[1] \in DOMAIN BaseReels /\ key[2] \in Lane
        BY <1>6
      <3> QED BY <3>1, <3>2, Zenon
    <2>4. (\E i \in DOMAIN BaseReels : \E l \in Lane : MoreThanOne(Overlay!Brought(request, i, l)))
            => \E key \in OverrideKeys : \E t : Replaced(key[1], key[2], t) /\ override_decisions[key] # t
      <3> HAVE \E i \in DOMAIN BaseReels : \E l \in Lane : MoreThanOne(Overlay!Brought(request, i, l))
      <3>1. PICK i \in DOMAIN BaseReels, l \in Lane : MoreThanOne(Overlay!Brought(request, i, l))
        OBVIOUS
      <3>2. PICK t : Replaced(i, l, t) /\ override_decisions[<<i, l>>] # t
        BY <2>2, <3>1
      <3>3. <<i, l>> \in OverrideKeys /\ <<i, l>>[1] = i /\ <<i, l>>[2] = l
        BY <1>5
      <3> QED BY <3>2, <3>3
    <2> QED BY <1>8, <2>3, <2>4
  <1>12. Failing(diagnostics) <=>
           \E n \in DOMAIN request.policies :
             \/ ~Overlay!WellFormed(request, request.policies[n])
             \/ \E k \in Turns(request, request.policies[n]) : Fails(request, request.policies[n], k)
    BY <1>1, <1>2, <1>3 DEF WalkIsDetermined, FailuresFollow, Failing, SamePolicies
  <1> QED BY <1>10, <1>11, <1>12

\* For every request: a lane is reported as conflicting exactly when two policies
\* that apply would replace it by different tracks, whatever the order of the walk.
THEOREM ConflictCorrectness == Spec => []ConflictIsReported
  <1> DEFINE applied(n) == Overlay!WellFormed(request, request.policies[n])
             replaces(n, i, l, t) ==
               \E x \in Overlay!References(request, request.policies[n]) :
                 /\ x.reel = i /\ x.lane = l
                 /\ Overlay!Replaces(request, request.policies[n], x)
                 /\ t = Overlay!Track(request, request.policies[n], x)
  <1>1. ASSUME TypeOK, WalkIsDetermined, pc = "done"
        PROVE  Conflicting(diagnostics) <=>
                 \E n, m \in {n \in DOMAIN request.policies : applied(n)} :
                   \E i \in DOMAIN BaseReels, l \in Lane :
                     \E t, u \in Overlay!Brought(request, i, l) : t # u /\ replaces(n, i, l, t) /\ replaces(m, i, l, u)
    <2>1. policy_index = Len(policies) + 1
      BY <1>1 DEF WalkIsDetermined, Cursors
    <2>2. Conflicting(diagnostics) <=>
            \E i \in DOMAIN BaseReels : \E l \in Lane : MoreThanOne(Overlay!Brought(request, i, l))
      BY <1>1, <2>1, WholeWalk
    <2>3. \A i \in DOMAIN BaseReels : \A l \in Lane : \A t \in Overlay!Brought(request, i, l) :
            \E n \in {n \in DOMAIN request.policies : applied(n)} : replaces(n, i, l, t)
      BY DEF Overlay!Brought
    <2> HIDE DEF applied, replaces
    <2> QED BY <2>2, <2>3 DEF MoreThanOne
  <1>2. TypeOK /\ WalkIsDetermined => ConflictIsReported
    BY <1>1 DEF ConflictIsReported, Conflicting
  <1> QED BY <1>2, InductiveInvariant, PTL

-----------------------------------------------------------------------------
(* The refinement *)

\* The order of the walk does not show: the verdict is that of the policies as a set.
LEMMA SameVerdict ==
  ASSUME TypeOK, WalkIsDetermined, pc # "sort", pc # "reels", policy_index = Len(policies) + 1
  PROVE  diagnostics = {} <=> Overlay!Acceptable(request)
  <1>1. diagnostics = {} <=> ~Conflicting(diagnostics) /\ ~Failing(diagnostics)
    BY DEF Conflicting, Failing
  <1>2. \A S : Overlay!MoreThanOne(S) <=> MoreThanOne(S)
    BY SameLookups
  <1>3. ASSUME NEW n \in DOMAIN request.policies, Overlay!WellFormed(request, request.policies[n])
        PROVE  (\A k \in Turns(request, request.policies[n]) : ~Fails(request, request.policies[n], k)) <=>
                 /\ Overlay!KnowsItsReels(request, request.policies[n])
                 /\ \A x \in Overlay!References(request, request.policies[n]) :
                      \/ Overlay!Replaces(request, request.policies[n], x)
                      \/ Overlay!Repeats(request, request.policies[n], x)
    <2> DEFINE p == request.policies[n]
    <2>1. Turns(request, p) = DOMAIN ReelsOf(request, p)
      BY <1>3 DEF Turns
    <2>2. \A x : x \in Overlay!References(request, p) <=>
                   \E k \in Turns(request, p) : \E m \in Present(RefsOf(request, p, k)) : x = Reference(request, p, k, m)
      BY <1>3, ReferencesOfTurns
    <2>3. Overlay!KnowsItsReels(request, p) <=>
            \A k \in Turns(request, p) : Overlay!ReelNamed(request, ReelsOf(request, p)[k].reel_id) # 0
      BY <2>1 DEF Overlay!KnowsItsReels, ReelsOf
    <2> HIDE DEF p
    <2>4. (\A k \in Turns(request, p) : ~Fails(request, p, k)) <=>
             /\ Overlay!KnowsItsReels(request, p)
             /\ \A x \in Overlay!References(request, p) :
                  Overlay!Replaces(request, p, x) \/ Overlay!Repeats(request, p, x)
      BY <2>2, <2>3 DEF Fails
    <2> QED BY <2>4 DEF p
  <1>4. ~Failing(diagnostics) <=>
          \A n \in DOMAIN request.policies :
            /\ Overlay!WellFormed(request, request.policies[n])
            /\ Overlay!KnowsItsReels(request, request.policies[n])
            /\ \A x \in Overlay!References(request, request.policies[n]) :
                 \/ Overlay!Replaces(request, request.policies[n], x)
                 \/ Overlay!Repeats(request, request.policies[n], x)
    BY <1>3, WholeWalk
  <1>5. ~Conflicting(diagnostics) <=>
          \A i \in DOMAIN BaseReels : \A l \in Lane : ~MoreThanOne(Overlay!Brought(request, i, l))
    BY WholeWalk
  <1> QED BY <1>1, <1>2, <1>4, <1>5, SameLookups DEF Overlay!Acceptable, BaseReels

\* Each lane gets the one track that is brought for it, or keeps the base track.
LEMMA SameTracks ==
  ASSUME TypeOK, WalkIsDetermined, pc # "sort", pc # "reels", policy_index = Len(policies) + 1,
         Overlay!Acceptable(request),
         NEW i \in DOMAIN BaseReels, NEW l \in Lane
  PROVE  RecomputedTrack(request.base_graph,
                         DecidedTrack(override_decisions, i, l, BaseReels[i].tracks[l]))
         = Overlay!MergedTrack(request, i, l)
  <1> DEFINE base == BaseReels[i].tracks[l]
             decision == override_decisions[<<i, l>>]
             brought == Overlay!Brought(request, i, l)
             origin == request.base_graph.origin_package_id
  <1>1. /\ <<i, l>> \in OverrideKeys
        /\ decision \in Optional(TrackFile)
        /\ base = None => decision = None
    BY DEF TypeOK, OverrideKeys
  <1>2. IF decision = None THEN brought = {} ELSE decision \in brought
    BY WholeWalk
  <1>3. ~MoreThanOne(brought)
    BY SameLookups DEF Overlay!Acceptable, BaseReels
  <1>4. CASE decision = None
    <2>1. DecidedTrack(override_decisions, i, l, base) = base
      BY <1>4 DEF DecidedTrack
    <2> QED BY <1>2, <1>4, <2>1 DEF RecomputedTrack, RecomputeTrack, Overlay!MergedTrack, BaseReels
  <1>5. CASE decision # None
    <2>1. DecidedTrack(override_decisions, i, l, base) = decision
      BY <1>1, <1>5 DEF DecidedTrack
    <2>2. (CHOOSE t \in brought : TRUE) = decision
      BY <1>2, <1>3, <1>5 DEF MoreThanOne
    <2>3. Overlay!MergedTrack(request, i, l) = decision
      BY <1>2, <1>5, <2>2 DEF Overlay!MergedTrack
    <2>4. \E p, x : decision = Overlay!Track(request, p, x)
      BY <1>2, <1>5 DEF Overlay!Brought
    <2>5. decision.dependency_kind = IF decision.source_package_id = origin THEN "local" ELSE "external"
      <3>1. PICK p, x : decision = BuildTrackFile(x.lane, x.ref, Overlay!OwnerPackage(request, p), origin)
        BY <2>4, SameLookups DEF Overlay!Track
      <3> QED BY <3>1 DEF BuildTrackFile
    <2>6. decision \in TrackFile
      BY <1>1, <1>5 DEF Optional
    <2>7. RecomputeTrack(decision, origin) = decision
      BY <2>5, <2>6 DEF RecomputeTrack, TrackFile
    <2> QED BY <1>5, <2>1, <2>3, <2>7 DEF RecomputedTrack
  <1> QED BY <1>4, <1>5

LEMMA SameAnswer ==
  ASSUME TypeOK, WalkIsDetermined, pc # "sort", pc # "reels", policy_index = Len(policies) + 1,
         Overlay!Acceptable(request)
  PROVE  RecomputeGraphMetadata(ApplyDecisions(request.base_graph, override_decisions)) = Overlay!Answer(request)
  <1> DEFINE g == request.base_graph
             h == ApplyDecisions(g, override_decisions)
             reels == Overlay!MergedReels(request)
             sources == {t.source_package_id : t \in TracksOf(reels)}
  <1>1. /\ g \in CompositionGraph
        /\ override_decisions \in [(DOMAIN g.resolved_reels) \X Lane -> Optional(TrackFile)]
    BY DEF TypeOK, Request, OverrideKeys, BaseReels
  <1>2. /\ h \in CompositionGraph
        /\ h.composition_id = g.composition_id /\ h.origin_package_id = g.origin_package_id
        /\ h.missing_assets = g.missing_assets
        /\ DOMAIN h.resolved_reels = DOMAIN g.resolved_reels
        /\ \A i \in DOMAIN g.resolved_reels :
             /\ h.resolved_reels[i].reel_id = g.resolved_reels[i].reel_id
             /\ \A l \in Lane :
                  h.resolved_reels[i].tracks[l] =
                    DecidedTrack(override_decisions, i, l, g.resolved_reels[i].tracks[l])
    BY <1>1, AppliedGraph
  <1>3. \A track : RecomputedTrack(h, track) = RecomputedTrack(g, track)
    BY <1>2 DEF RecomputedTrack
  <1>4. \A i \in DOMAIN g.resolved_reels : \A l \in Lane :
          RecomputedTrack(h, h.resolved_reels[i].tracks[l]) = Overlay!MergedTrack(request, i, l)
    BY <1>2, <1>3, SameTracks DEF BaseReels
  <1>5. RecomputedReels(h) = reels
    <2> HIDE DEF h
    <2> QED BY <1>2, <1>4, SameLookups DEF RecomputedReels, Overlay!MergedReels
  <1>6. (\E t \in TracksOf(reels) : t.dependency_kind = "external") <=> ~(sources \subseteq {g.origin_package_id})
    <2>1. \A t \in TracksOf(reels) :
            t.dependency_kind = IF t.source_package_id = g.origin_package_id THEN "local" ELSE "external"
      BY <1>2, <1>5, RecomputedReelsFacts
    <2> HIDE DEF g, reels
    <2>2. \A t \in TracksOf(reels) :
            t.dependency_kind = "external" <=> t.source_package_id # g.origin_package_id
      BY <2>1
    <2>3. sources \subseteq {g.origin_package_id} <=>
            \A t \in TracksOf(reels) : t.source_package_id = g.origin_package_id
      OBVIOUS
    <2> HIDE DEF sources
    <2> QED BY <2>2, <2>3, Zenon
  <1>7. RecomputeGraphMetadata(h) =
          [h EXCEPT !.resolved_reels   = reels,
                    !.composition_kind = IF sources \subseteq {g.origin_package_id} THEN "ov" ELSE "vf",
                    !.source_packages  = {g.origin_package_id} \cup sources]
    BY <1>2, <1>5, <1>6, RecomputedGraph
  <1>8. Overlay!Answer(request) =
          [g EXCEPT !.resolved_reels   = reels,
                    !.composition_kind = IF sources \subseteq {g.origin_package_id} THEN "ov" ELSE "vf",
                    !.source_packages  = {g.origin_package_id} \cup sources]
    BY SameLookups DEF Overlay!Answer
  <1> HIDE DEF g, h, reels, sources
  <1> DEFINE kind == IF sources \subseteq {g.origin_package_id} THEN "ov" ELSE "vf"
             used == {g.origin_package_id} \cup sources
  <1> HIDE DEF kind, used
  <1>9. [h EXCEPT !.resolved_reels = reels, !.composition_kind = kind, !.source_packages = used]
        = [g EXCEPT !.resolved_reels = reels, !.composition_kind = kind, !.source_packages = used]
    BY <1>1, <1>2 DEF CompositionGraph
  <1> QED BY <1>7, <1>8, <1>9 DEF kind, used, g, h

LEMMA InitRefines == Init => Overlay!Init
  BY MergeAssumption DEF Init, Overlay!Init

LEMMA StepRefines ==
  ASSUME TypeOK, WalkIsDetermined, [Next]_vars
  PROVE  [Overlay!Next]_(Overlay!vars)
  <1> USE DEF Overlay!vars
  <1>1. CASE Finish
    <2>1. /\ pc = "policies" /\ pc' = "done" /\ request' = request /\ graph = None
          /\ policy_index = Len(policies) + 1
          /\ graph' = IF diagnostics = {}
                      THEN RecomputeGraphMetadata(ApplyDecisions(request.base_graph, override_decisions)) ELSE None
      <3>1. WalkIsDetermined'
        BY <1>1, FinishFollows
      <3>2. pc' = "done" /\ policy_index' = policy_index /\ policies' = policies
        BY <1>1 DEF Finish
      <3>3. policy_index = Len(policies) + 1
        BY <3>1, <3>2 DEF WalkIsDetermined, Cursors
      <3> QED BY <1>1, <3>3 DEF Finish, WalkIsDetermined, Published
    <2>2. CASE Overlay!Acceptable(request)
      BY <2>1, <2>2, SameVerdict, SameAnswer DEF Overlay!Next, Overlay!Publish
    <2>3. CASE ~Overlay!Acceptable(request)
      BY <2>1, <2>3, SameVerdict DEF Overlay!Next, Overlay!Reject
    <2> QED BY <2>2, <2>3
  <1>2. CASE SortPolicies \/ SkipPolicy \/ SelectSupplemental \/ UnknownReel \/ MergeReel \/ NextPolicy
    BY <1>2 DEF SortPolicies, SkipPolicy, SelectSupplemental, UnknownReel, MergeReel, NextPolicy
  <1>3. CASE UNCHANGED vars
    BY <1>3 DEF vars
  <1> QED BY <1>1, <1>2, <1>3 DEF Next

\* For every request, and whatever the order in which std::sort leaves equivalent
\* policies, the call takes at most one visible step: it publishes the declarative
\* answer when the policies are acceptable as a set, and no graph when they are not.
THEOREM Refinement == Spec => Overlay!Init /\ [][Overlay!Next]_(Overlay!vars)
  <1>1. TypeOK /\ WalkIsDetermined /\ [Next]_vars => [Overlay!Next]_(Overlay!vars)
    BY StepRefines
  <1> QED BY <1>1, InitRefines, InductiveInvariant, PTL DEF Spec

-----------------------------------------------------------------------------
(* What a caller may rely on *)

\* A decision is a track that one of the packages backs.
LEMMA DecisionIsBacked ==
  ASSUME TypeOK, DecisionsFollow, pc # "sort" => SamePolicies, pc = "sort" => policies = <<>>,
         NEW key \in OverrideKeys, override_decisions[key] # None
  PROVE  \E i \in DOMAIN request.packages : \E ref \in AssetReference :
           /\ Backed(request.packages[i], ref.asset_id, "track_file")
           /\ override_decisions[key] =
                BuildTrackFile(key[2], ref, request.packages[i], request.base_graph.origin_package_id)
  <1>1. PICK n \in DOMAIN policies : \E k \in Taken(n) :
          /\ Overrides(request, policies[n], k, key[1], key[2])
          /\ override_decisions[key] = TrackFor(request, policies[n], k, key[2])
    BY DEF DecisionsFollow
  <1> DEFINE p == policies[n]
  <1>2. PICK k \in Taken(n) : /\ Overrides(request, p, k, key[1], key[2])
                              /\ override_decisions[key] = TrackFor(request, p, k, key[2])
    BY <1>1
  <1>3. request \in Request /\ p \in MergePolicy
    BY DEF TypeOK
  <1>4. Overlay!WellFormed(request, p) /\ k \in DOMAIN ReelsOf(request, p)
    BY DEF Taken, Turns
  <1> HIDE DEF p
  <1>5. PICK o \in DOMAIN request.packages : SupplementalOwners(request, p) = {o}
    BY <1>4, SameLookups DEF Overlay!WellFormed
  <1>6. Overlay!OwnerPackage(request, p) = request.packages[o]
    BY <1>3, <1>5, SelectedFacts
  <1> DEFINE ref == RefsOf(request, p, k)[key[2]]
             x == Reference(request, p, k, key[2])
  <1>7. ref \in AssetReference
    BY <1>2, <1>3, <1>4, RefFacts DEF Overrides
  <1>8. Backed(request.packages[o], ref.asset_id, "track_file")
    <2>1. Overlay!Replaces(request, p, x) /\ x.ref = ref
      BY <1>2 DEF Overrides, Reference
    <2> QED BY <1>6, <2>1, SameLookups DEF Overlay!Replaces, Overlay!Brings
  <1>9. override_decisions[key] = BuildTrackFile(key[2], ref, request.packages[o], request.base_graph.origin_package_id)
    BY <1>2, <1>3, <1>4, <1>6, OverrideTrack
  <1> QED BY <1>7, <1>8, <1>9

\* A track as the base or a decision has it, its dependency kind apart.
SameSource(t, u) ==
  /\ t.asset_id = u.asset_id /\ t.track_type = u.track_type /\ t.edit_rate = u.edit_rate
  /\ t.resolved_path = u.resolved_path /\ t.source_package_id = u.source_package_id

LEMMA RecomputedKeeps ==
  ASSUME NEW g \in CompositionGraph, NEW track \in TrackFile
  PROVE  SameSource(RecomputedTrack(g, track), track)
  <1>1. track # None
    BY NoneAssumption
  <1> QED BY <1>1 DEF RecomputedTrack, RecomputeTrack, TrackFile, SameSource

LEMMA PublishedGraph ==
  ASSUME TypeOK, WalkIsDetermined, graph # None
  PROVE  LET base == request.base_graph IN
         /\ pc = "done" /\ graph \in CompositionGraph /\ MetadataAgrees(graph)
         /\ graph.origin_package_id = base.origin_package_id
         /\ graph.missing_assets = base.missing_assets
         /\ Len(graph.resolved_reels) = Len(base.resolved_reels)
         /\ \A k \in DOMAIN base.resolved_reels :
              /\ graph.resolved_reels[k].reel_id = base.resolved_reels[k].reel_id
              /\ Present(graph.resolved_reels[k].tracks) = Present(base.resolved_reels[k].tracks)
              /\ \A l \in Present(base.resolved_reels[k].tracks) :
                   \/ SameSource(graph.resolved_reels[k].tracks[l], base.resolved_reels[k].tracks[l])
                   \/ \E i \in DOMAIN request.packages : \E ref \in AssetReference :
                        /\ Backed(request.packages[i], ref.asset_id, "track_file")
                        /\ SameSource(graph.resolved_reels[k].tracks[l],
                                      BuildTrackFile(l, ref, request.packages[i], base.origin_package_id))
  <1> DEFINE base == request.base_graph
             applied == ApplyDecisions(base, override_decisions)
  <1>1. pc = "done" /\ graph = RecomputeGraphMetadata(applied)
    BY DEF WalkIsDetermined, Published
  <1>2. base \in CompositionGraph /\ override_decisions \in [(DOMAIN base.resolved_reels) \X Lane -> Optional(TrackFile)]
    BY DEF TypeOK, Request, OverrideKeys, BaseReels
  <1>3. /\ applied \in CompositionGraph
        /\ \A field \in {"composition_id", "origin_package_id", "missing_assets"} : applied[field] = base[field]
        /\ DOMAIN applied.resolved_reels = DOMAIN base.resolved_reels
        /\ \A k \in DOMAIN base.resolved_reels :
             /\ applied.resolved_reels[k].reel_id = base.resolved_reels[k].reel_id
             /\ \A l \in Lane : applied.resolved_reels[k].tracks[l] =
                                  DecidedTrack(override_decisions, k, l, base.resolved_reels[k].tracks[l])
    BY <1>2, AppliedGraph
  <1> HIDE DEF base, applied
  <1>4. /\ graph \in CompositionGraph /\ MetadataAgrees(graph)
        /\ graph.resolved_reels = RecomputedReels(applied)
        /\ graph.origin_package_id = applied.origin_package_id /\ graph.missing_assets = applied.missing_assets
    <2>1. graph \in CompositionGraph /\ MetadataAgrees(graph)
      BY <1>1, <1>3, RecomputedGraph
    <2> DEFINE sources == {applied.origin_package_id} \cup {t.source_package_id : t \in TracksOf(RecomputedReels(applied))}
               kind == IF \E t \in TracksOf(RecomputedReels(applied)) : t.dependency_kind = "external" THEN "vf" ELSE "ov"
    <2>2. graph = [applied EXCEPT !.resolved_reels = RecomputedReels(applied), !.composition_kind = kind,
                                  !.source_packages = sources]
      BY <1>1, <1>3, RecomputedGraph
    <2> HIDE DEF sources, kind
    <2> QED BY <1>3, <2>1, <2>2 DEF CompositionGraph
  <1>5. Len(graph.resolved_reels) = Len(base.resolved_reels)
    <2>1. /\ base.resolved_reels \in Seq(GraphReel) /\ graph.resolved_reels \in Seq(GraphReel)
          /\ DOMAIN graph.resolved_reels = DOMAIN base.resolved_reels
      BY <1>2, <1>3, <1>4 DEF CompositionGraph, RecomputedReels
    <2> QED BY <2>1
  <1>6. ASSUME NEW k \in DOMAIN base.resolved_reels
        PROVE  /\ graph.resolved_reels[k].reel_id = base.resolved_reels[k].reel_id
               /\ \A l \in Lane : graph.resolved_reels[k].tracks[l] =
                    RecomputedTrack(applied, DecidedTrack(override_decisions, k, l, base.resolved_reels[k].tracks[l]))
    BY <1>3, <1>4 DEF RecomputedReels
  <1>7. ASSUME NEW k \in DOMAIN base.resolved_reels, NEW l \in Lane
        PROVE  LET track == base.resolved_reels[k].tracks[l]
                   merged == graph.resolved_reels[k].tracks[l]
               IN /\ merged = None <=> track = None
                  /\ track # None =>
                       \/ SameSource(merged, track)
                       \/ \E i \in DOMAIN request.packages : \E ref \in AssetReference :
                            /\ Backed(request.packages[i], ref.asset_id, "track_file")
                            /\ SameSource(merged, BuildTrackFile(l, ref, request.packages[i], base.origin_package_id))
    <2> DEFINE track == base.resolved_reels[k].tracks[l]
               decided == DecidedTrack(override_decisions, k, l, track)
               merged == graph.resolved_reels[k].tracks[l]
    <2>1. track \in Optional(TrackFile)
      <3>1. base.resolved_reels[k].tracks \in [Lane -> Optional(TrackFile)]
        BY <1>2, GraphReelFacts
      <3> QED BY <3>1
    <2>2. <<k, l>> \in (DOMAIN base.resolved_reels) \X Lane
      OBVIOUS
    <2>3. override_decisions[<<k, l>>] \in Optional(TrackFile)
      BY <1>2, <2>2
    <2>4. merged = RecomputedTrack(applied, decided)
      BY <1>6
    <2>5. decided \in Optional(TrackFile) /\ (decided = None <=> track = None)
      BY <2>1, <2>3 DEF DecidedTrack
    <2> HIDE DEF track, merged, decided
    <2>6. merged = None <=> track = None
      BY <1>3, <2>4, <2>5, RecomputedTrackFacts
    <2>7. ASSUME track # None
          PROVE  SameSource(merged, decided)
      <3>1. decided \in TrackFile
        BY <2>5, <2>7 DEF Optional
      <3> QED BY <1>3, <2>4, <3>1, RecomputedKeeps
    <2>8. \/ decided = track
          \/ decided = override_decisions[<<k, l>>] /\ override_decisions[<<k, l>>] # None
      BY DEF decided, DecidedTrack
    <2>9. ASSUME override_decisions[<<k, l>>] # None
          PROVE  \E i \in DOMAIN request.packages : \E ref \in AssetReference :
                   /\ Backed(request.packages[i], ref.asset_id, "track_file")
                   /\ override_decisions[<<k, l>>] = BuildTrackFile(l, ref, request.packages[i], base.origin_package_id)
      <3>1. <<k, l>> \in OverrideKeys
        BY <2>2 DEF OverrideKeys, BaseReels, base
      <3>2. <<k, l>>[2] = l
        OBVIOUS
      <3> QED BY <2>9, <3>1, <3>2, DecisionIsBacked DEF WalkIsDetermined, Cursors, base
    <2> QED BY <2>6, <2>7, <2>8, <2>9 DEF track, merged
  <1>8. \A k \in DOMAIN base.resolved_reels :
          Present(graph.resolved_reels[k].tracks) = Present(base.resolved_reels[k].tracks)
    BY <1>7 DEF Present
  <1>9. \A k \in DOMAIN base.resolved_reels : Present(base.resolved_reels[k].tracks) \subseteq Lane
    BY DEF Present
  <1>10. \A k \in DOMAIN base.resolved_reels : \A l \in Present(base.resolved_reels[k].tracks) :
           base.resolved_reels[k].tracks[l] # None
    BY DEF Present
  <1> QED BY <1>1, <1>3, <1>4, <1>5, <1>6, <1>7, <1>8, <1>9, <1>10 DEF base
=============================================================================
