------------------------ MODULE OvVfResolver_proofs -------------------------
(***************************************************************************)
(* Proofs about OvVfResolver, for every set of packages and every target:  *)
(* its invariants, and that it implements CompositionResolution, as far as *)
(* safety goes: from any packages, in any order, resolve takes at most one *)
(* visible step, and it gives the declarative answer.                      *)
(***************************************************************************)
EXTENDS OvVfResolver, TLAPS

-----------------------------------------------------------------------------
(* How a reference resolves in well-typed packages *)

LEMMA BackedFacts ==
  ASSUME NEW package \in Package, NEW id \in Uuid, NEW type \in AssetType, Backed(package, id, type)
  PROVE  package.pkl[id] # None /\ package.backing[id] \in Path
  BY NoneAssumption DEF Backed, Package, Optional

LEMMA InPackage ==
  ASSUME NEW package \in Package, NEW id \in Uuid
  PROVE  /\ ResolveInPackage(package, id) \in {"absent", "resolved", "broken"}
         /\ ResolveInPackage(package, id) = "absent" <=> package.pkl[id] = None
         /\ ResolveInPackage(package, id) = "resolved" <=> Backed(package, id, "track_file")
  <1>1. Backed(package, id, "track_file") => package.pkl[id] # None
    BY NoneAssumption DEF Backed, AssetType
  <1> QED BY <1>1 DEF ResolveInPackage

LEMMA Outcomes ==
  ASSUME NEW packages \in Seq(Package), NEW o \in DOMAIN packages, NEW id \in Uuid
  PROVE  /\ ReferenceOutcome(packages, o, id) \in
              {"local", "local_broken", "external", "external_broken", "missing", "conflicting"}
         /\ ReferenceOutcome(packages, o, id) = "local" <=> Backed(packages[o], id, "track_file")
         /\ ReferenceOutcome(packages, o, id) \in {"local", "local_broken"} <=> packages[o].pkl[id] # None
         /\ ReferenceOutcome(packages, o, id) = "external" <=>
              /\ packages[o].pkl[id] = None
              /\ \E i \in DOMAIN packages : ExternalIn(packages, o, id, "resolved") = {i}
  <1> DEFINE here == ResolveInPackage(packages[o], id)
             others == ExternalIn(packages, o, id, "resolved")
  <1>1. packages[o] \in Package
    OBVIOUS
  <1>2. /\ here \in {"absent", "resolved", "broken"}
        /\ here = "absent" <=> packages[o].pkl[id] = None
        /\ here = "resolved" <=> Backed(packages[o], id, "track_file")
    BY <1>1, InPackage
  <1>3. ExternalOutcome(packages, o, id) \in {"external", "external_broken", "missing", "conflicting"}
    BY DEF ExternalOutcome
  <1>4. others \subseteq DOMAIN packages
    BY DEF ExternalIn
  <1>5. ExternalOutcome(packages, o, id) = "external" <=> others # {} /\ ~MoreThanOne(others)
    BY DEF ExternalOutcome
  <1>6. others # {} /\ ~MoreThanOne(others) <=> \E i \in DOMAIN packages : others = {i}
    BY <1>4, Zenon DEF MoreThanOne
  <1>7. /\ here = "resolved" => ReferenceOutcome(packages, o, id) = "local"
        /\ here = "broken" => ReferenceOutcome(packages, o, id) = "local_broken"
        /\ here = "absent" => ReferenceOutcome(packages, o, id) = ExternalOutcome(packages, o, id)
    BY DEF ReferenceOutcome
  <1> HIDE DEF here, others
  <1> QED BY <1>2, <1>3, <1>5, <1>6, <1>7 DEF here, others

\* The provider of an assigned reference has the asset; when it is not the
\* owner, the owner does not list the asset and the ids differ.
LEMMA ProviderFacts ==
  ASSUME NEW packages \in Seq(Package), NEW o \in DOMAIN packages, NEW id \in Uuid,
         ReferenceOutcome(packages, o, id) \in Assigned
  PROVE  /\ Provider(packages, o, id) \in DOMAIN packages
         /\ Backed(packages[Provider(packages, o, id)], id, "track_file")
         /\ ReferenceOutcome(packages, o, id) = "local" => Provider(packages, o, id) = o
         /\ ReferenceOutcome(packages, o, id) = "external" =>
              /\ packages[Provider(packages, o, id)].pkl_id # packages[o].pkl_id
              /\ packages[o].pkl[id] = None
  <1>1. ResolveInPackage(packages[o], id) = "resolved" <=> Backed(packages[o], id, "track_file")
    BY InPackage, packages[o] \in Package
  <1>2. CASE ReferenceOutcome(packages, o, id) = "local"
    BY <1>1, <1>2, Outcomes DEF Provider
  <1>3. CASE ReferenceOutcome(packages, o, id) = "external"
    <2>1. ResolveInPackage(packages[o], id) # "resolved"
      BY <1>1, <1>3, Outcomes
    <2>2. PICK i \in DOMAIN packages : ExternalIn(packages, o, id, "resolved") = {i}
      BY <1>3, Outcomes
    <2>3. Provider(packages, o, id) = i
      BY <2>1, <2>2 DEF Provider
    <2>4. /\ packages[i].pkl_id # packages[o].pkl_id
          /\ ResolveInPackage(packages[i], id) = "resolved"
      BY <2>2 DEF ExternalIn
    <2>5. Backed(packages[i], id, "track_file")
      BY <2>4, InPackage, packages[i] \in Package
    <2> QED BY <1>3, <2>3, <2>4, <2>5, Outcomes
  <1> QED BY <1>2, <1>3 DEF Assigned

-----------------------------------------------------------------------------
(* Types of what the call reads *)

LEMMA OwnersFacts ==
  ASSUME request \in Request
  PROVE  /\ Packages \in Seq(Package)
         /\ request.composition_id \in Uuid
         /\ Owners \subseteq DOMAIN Packages
         /\ \A i \in DOMAIN Packages : Packages[i] \in Package
         /\ \A o \in Owners : Packages[o].cpls[request.composition_id] \in Seq(CplReel)
  <1>1. Packages \in Seq(Package) /\ request.composition_id \in Uuid
    BY DEF Request, Packages
  <1>2. \A i \in DOMAIN Packages : Packages[i] \in Package
    BY <1>1
  <1>3. Owners \subseteq DOMAIN Packages
    BY DEF Owners, OwnerCandidates
  <1>4. ASSUME NEW o \in Owners
        PROVE  Packages[o].cpls[request.composition_id] \in Seq(CplReel)
    <2>1. OwnsComposition(Packages[o], request.composition_id)
      BY DEF Owners, OwnerCandidates
    <2>2. Packages[o].cpls \in [Uuid -> Optional(Seq(CplReel))]
      BY <1>2, <1>3 DEF Package
    <2> QED BY <1>1, <2>1, <2>2 DEF OwnsComposition, Optional
  <1> QED BY <1>1, <1>2, <1>3, <1>4

LEMMA ReelFacts ==
  ASSUME request \in Request, origin \in Owners, NEW k \in 1 .. Len(CompositionReels)
  PROVE  /\ CompositionReels[k].reel_id \in ReelId
         /\ Present(Refs(k)) \subseteq Lane
         /\ \A l \in Present(Refs(k)) : Refs(k)[l] \in AssetReference
  <1>1. CompositionReels \in Seq(CplReel)
    BY OwnersFacts DEF CompositionReels
  <1>2. CompositionReels[k] \in CplReel
    BY <1>1
  <1>3. CompositionReels[k].reel_id \in ReelId /\ Refs(k) \in [Lane -> Optional(AssetReference)]
    BY <1>2 DEF CplReel, Refs
  <1> QED BY <1>3 DEF Present, Optional

\* An assigned lane becomes a track that its provider backs.
LEMMA AssignedLane ==
  ASSUME request \in Request, origin \in Owners, NEW k \in 1 .. Len(CompositionReels),
         NEW l \in LanesWith(k, Assigned)
  PROVE  /\ ProviderOfLane(k, l) \in Package
         /\ Provider(Packages, origin, Refs(k)[l].asset_id) \in DOMAIN Packages
         /\ Backed(ProviderOfLane(k, l), Refs(k)[l].asset_id, "track_file")
         /\ Outcome(k, l) = "local" => Provider(Packages, origin, Refs(k)[l].asset_id) = origin
         /\ Outcome(k, l) = "external" => /\ ProviderOfLane(k, l).pkl_id # OriginId
                                          /\ Packages[origin].pkl[Refs(k)[l].asset_id] = None
         /\ BuildTrackFile(l, Refs(k)[l], ProviderOfLane(k, l), OriginId) \in TrackFile
         /\ BuildTrackFile(l, Refs(k)[l], ProviderOfLane(k, l), OriginId) # None
  <1> DEFINE id == Refs(k)[l].asset_id
             ref == Refs(k)[l]
             package == ProviderOfLane(k, l)
             track == BuildTrackFile(l, ref, package, OriginId)
  <1>1. l \in Lane /\ l \in Present(Refs(k)) /\ Outcome(k, l) \in Assigned
    BY ReelFacts DEF LanesWith
  <1>2. ref \in AssetReference /\ id \in Uuid
    BY <1>1, ReelFacts DEF AssetReference
  <1>3. Packages \in Seq(Package) /\ origin \in DOMAIN Packages
    BY OwnersFacts
  <1>4. /\ Provider(Packages, origin, id) \in DOMAIN Packages
        /\ Backed(package, id, "track_file")
        /\ Outcome(k, l) = "local" => Provider(Packages, origin, id) = origin
        /\ Outcome(k, l) = "external" => /\ package.pkl_id # OriginId
                                         /\ Packages[origin].pkl[id] = None
    BY <1>1, <1>2, <1>3, ProviderFacts DEF Outcome, ProviderOfLane, OriginId
  <1>5. package \in Package
    BY <1>3, <1>4 DEF ProviderOfLane
  <1>6. package.pkl_id \in PklId /\ package.backing[id] \in Path
    BY <1>2, <1>4, <1>5, BackedFacts DEF Package, AssetType
  <1>7. track \in TrackFile
    BY <1>1, <1>2, <1>6 DEF BuildTrackFile, TrackFile, AssetReference, DependencyKind
  <1>8. track # None
    BY <1>7, NoneAssumption
  <1> HIDE DEF id, ref, package, track
  <1> QED BY <1>4, <1>5, <1>7, <1>8 DEF id, ref, package, track

LEMMA ResolvedReelType ==
  ASSUME request \in Request, origin \in Owners, NEW k \in 1 .. Len(CompositionReels)
  PROVE  ResolvedReel(k) \in GraphReel
  BY ReelFacts, AssignedLane DEF ResolvedReel, GraphReel, Optional

-----------------------------------------------------------------------------
(* Type correctness *)

LEMMA InitTyped == Init => TypeOK
  <1> SUFFICES ASSUME Init PROVE TypeOK
    OBVIOUS
  <1>1. request \in Request
    BY RequestsAssumption DEF Init
  <1>2. resolved_reels \in Seq(GraphReel)
    BY DEF Init
  <1> QED BY <1>1, <1>2 DEF Init, TypeOK, Optional

LEMMA ResolveReelTyped ==
  ASSUME TypeOK, ResolveReel
  PROVE  TypeOK'
  <1> DEFINE k == Len(resolved_reels) + 1
  <1>1. /\ request \in Request /\ origin \in Owners /\ Owners = {origin}
        /\ request' = request /\ pc' = pc /\ origin' = origin /\ graph' = graph
        /\ pc = "resolve_reels"
    BY DEF TypeOK, ResolveReel
  <1>2. Packages' = Packages /\ Owners' = Owners /\ CompositionReels' = CompositionReels
    BY <1>1 DEF Packages, Owners, CompositionReels
  <1>3. CompositionReels \in Seq(CplReel)
    BY <1>1, OwnersFacts DEF CompositionReels
  <1>4. k \in 1 .. Len(CompositionReels)
    BY <1>3 DEF ResolveReel, TypeOK
  <1>5. resolved_reels' \in Seq(GraphReel) /\ Len(resolved_reels') = k
    BY <1>1, <1>4, ResolvedReelType DEF ResolveReel, TypeOK
  <1>6. source_packages' \subseteq PklId
    <2>1. ASSUME NEW l \in LanesWith(k, {"external"})
          PROVE  ProviderOfLane(k, l).pkl_id \in PklId
      <3>1. l \in LanesWith(k, Assigned)
        BY DEF LanesWith, Assigned
      <3>2. ProviderOfLane(k, l) \in Package
        BY <1>1, <1>4, <3>1, AssignedLane
      <3> QED BY <3>2 DEF Package
    <2> QED BY <2>1 DEF ResolveReel, TypeOK
  <1>7. missing_assets' \subseteq Uuid
    <2>1. ASSUME NEW l \in LanesWith(k, {"missing"})
          PROVE  Refs(k)[l].asset_id \in Uuid
      BY <1>1, <1>4, ReelFacts DEF LanesWith, AssetReference
    <2> QED BY <2>1 DEF ResolveReel, TypeOK
  <1>8. uses_external_dependency' \in BOOLEAN /\ has_broken_dependency' \in BOOLEAN
    BY DEF ResolveReel
  <1> HIDE DEF k
  <1> QED BY <1>1, <1>2, <1>4, <1>5, <1>6, <1>7, <1>8 DEF TypeOK

LEMMA CollectedGraphType ==
  ASSUME TypeOK, origin \in Owners
  PROVE  CollectedGraph \in CompositionGraph
  <1>1. OriginId \in PklId /\ request.composition_id \in Uuid
    BY OwnersFacts DEF TypeOK, OriginId, Package
  <1> QED BY <1>1 DEF CollectedGraph, CompositionGraph, CompositionKind, TypeOK

LEMMA StepTyped ==
  ASSUME TypeOK, WalkIsDetermined, [Next]_vars
  PROVE  TypeOK'
  <1>1. CASE TargetNotFound
    BY <1>1 DEF TypeOK, TargetNotFound, RejectTarget, Packages, Owners, CompositionReels
  <1>2. CASE ConflictingOwner
    BY <1>2 DEF TypeOK, ConflictingOwner, RejectTarget, Packages, Owners, CompositionReels
  <1>3. CASE SelectOwner
    <2>1. PICK o \in Owners : Owners = {o} /\ origin' = o /\ source_packages' = {Packages[o].pkl_id}
      BY <1>3 DEF SelectOwner
    <2>2. o \in DOMAIN Packages /\ Packages[o].pkl_id \in PklId
          /\ Packages[o].cpls[request.composition_id] \in Seq(CplReel)
      BY OwnersFacts DEF TypeOK, Package
    <2>3. /\ UNCHANGED <<request, resolved_reels, missing_assets, graph>>
          /\ pc' = "resolve_reels" /\ resolved_reels = <<>> /\ Len(<<>>) = 0
          /\ uses_external_dependency' \in BOOLEAN /\ has_broken_dependency' \in BOOLEAN
      BY <1>3 DEF SelectOwner, WalkIsDetermined, TypeOK
    <2>4. Packages' = Packages /\ Owners' = Owners
          /\ CompositionReels' = Packages[o].cpls[request.composition_id]
      BY <2>1, <2>3 DEF Packages, Owners, CompositionReels
    <2>5. Len(resolved_reels') <= Len(CompositionReels')
      BY <2>2, <2>3, <2>4
    <2> QED BY <2>1, <2>2, <2>3, <2>4, <2>5 DEF TypeOK
  <1>4. CASE ResolveReel
    BY <1>4, ResolveReelTyped
  <1>5. CASE Finish
    <2>1. origin \in Owners
      BY <1>5 DEF Finish, TypeOK
    <2>2. graph' \in Optional(CompositionGraph)
      BY <1>5, <2>1, CollectedGraphType DEF Finish, Optional
    <2> QED BY <1>5, <2>2 DEF Finish, TypeOK, Packages, Owners, CompositionReels
  <1>6. CASE UNCHANGED vars
    BY <1>6 DEF vars, TypeOK, Packages, Owners, CompositionReels
  <1> QED BY <1>1, <1>2, <1>3, <1>4, <1>5, <1>6 DEF Next

-----------------------------------------------------------------------------
(* The walk *)

\* What is read from the request depends on the request and the origin only.
LEMMA ReadsAreStable ==
  ASSUME request' = request, origin' = origin
  PROVE  /\ Packages' = Packages /\ Owners' = Owners /\ OriginId' = OriginId
         /\ CompositionReels' = CompositionReels
         /\ \A k : Refs(k)' = Refs(k) /\ ResolvedReel(k)' = ResolvedReel(k)
         /\ \A k, S : LanesWith(k, S)' = LanesWith(k, S)
         /\ \A k, l : /\ ProviderOfLane(k, l)' = ProviderOfLane(k, l)
                      /\ LaneDiagnostic(k, l)' = LaneDiagnostic(k, l)
  <1>1. Packages' = Packages
    BY DEF Packages
  <1>2. CompositionReels' = CompositionReels /\ OriginId' = OriginId /\ Owners' = Owners
    BY <1>1 DEF CompositionReels, OriginId, Owners
  <1>3. \A k : Refs(k)' = Refs(k)
    BY <1>2 DEF Refs
  <1>4. \A k, l : Outcome(k, l)' = Outcome(k, l) /\ ProviderOfLane(k, l)' = ProviderOfLane(k, l)
    BY <1>1, <1>3 DEF Outcome, ProviderOfLane
  <1>5. \A k, S : LanesWith(k, S)' = LanesWith(k, S)
    BY <1>3, <1>4 DEF LanesWith
  <1>6. \A k, l : LaneDiagnostic(k, l)' = LaneDiagnostic(k, l)
    BY <1>4 DEF LaneDiagnostic
  <1>7. \A k : ResolvedReel(k)' = ResolvedReel(k)
    BY <1>2, <1>3, <1>4, <1>5 DEF ResolvedReel
  <1> QED BY <1>1, <1>2, <1>3, <1>4, <1>5, <1>6, <1>7

LEMMA ResolveReelWalks ==
  ASSUME TypeOK, WalkIsDetermined, ResolveReel
  PROVE  WalkIsDetermined'
  <1> DEFINE k == Len(resolved_reels) + 1
  <1>1. /\ request' = request /\ origin' = origin /\ pc' = pc /\ graph' = graph
        /\ pc = "resolve_reels" /\ origin # 0 /\ graph = None
        /\ Owners = {origin} /\ Accumulated
    BY DEF ResolveReel, WalkIsDetermined
  <1>2. /\ resolved_reels' = Append(resolved_reels, ResolvedReel(k))
        /\ source_packages' = source_packages \cup
             {ProviderOfLane(k, l).pkl_id : l \in LanesWith(k, {"external"})}
        /\ missing_assets' = missing_assets \cup {Refs(k)[l].asset_id : l \in LanesWith(k, {"missing"})}
        /\ uses_external_dependency' = (uses_external_dependency \/ LanesWith(k, UsesExternal) # {})
        /\ has_broken_dependency' = (has_broken_dependency \/ LanesWith(k, BrokenDependency) # {})
        /\ diagnostics' = diagnostics \cup
             {LaneDiagnostic(k, l) : l \in Present(Refs(k)) \ LanesWith(k, Assigned)}
    BY DEF ResolveReel
  <1>3. /\ DOMAIN resolved_reels' = DOMAIN resolved_reels \cup {k}
        /\ resolved_reels'[k] = ResolvedReel(k)
        /\ \A j \in DOMAIN resolved_reels : resolved_reels'[j] = resolved_reels[j]
    <2>1. resolved_reels \in Seq(GraphReel) /\ ResolvedReel(k) \in GraphReel
      <3>1. k \in 1 .. Len(CompositionReels)
        BY <1>1, OwnersFacts DEF ResolveReel, TypeOK, CompositionReels
      <3> QED BY <1>1, <3>1, ResolvedReelType DEF TypeOK
    <2> QED BY <1>2, <2>1
  <1> HIDE DEF k
  <1>4. Accumulated'
    <2>1. \A j \in DOMAIN resolved_reels' : resolved_reels'[j] = ResolvedReel(j)'
      BY <1>1, <1>3, ReadsAreStable DEF Accumulated
    <2>2. \A p \in PklId : p \in source_packages' <=>
            \/ p = OriginId'
            \/ \E j \in DOMAIN resolved_reels' : \E l \in LanesWith(j, {"external"})' : p = ProviderOfLane(j, l)'.pkl_id
      BY <1>1, <1>2, <1>3, ReadsAreStable DEF Accumulated
    <2>3. \A a \in Uuid : a \in missing_assets' <=>
            \E j \in DOMAIN resolved_reels' : \E l \in LanesWith(j, {"missing"})' : a = Refs(j)'[l].asset_id
      BY <1>1, <1>2, <1>3, ReadsAreStable DEF Accumulated
    <2>4. uses_external_dependency' <=> \E j \in DOMAIN resolved_reels' : LanesWith(j, UsesExternal)' # {}
      BY <1>1, <1>2, <1>3, ReadsAreStable DEF Accumulated
    <2>5. has_broken_dependency' <=> \E j \in DOMAIN resolved_reels' : LanesWith(j, BrokenDependency)' # {}
      BY <1>1, <1>2, <1>3, ReadsAreStable DEF Accumulated
    <2>6. \A d \in diagnostics' : \E j \in DOMAIN resolved_reels' :
            \E l \in Present(Refs(j)') \ LanesWith(j, Assigned)' : d = LaneDiagnostic(j, l)'
      BY <1>1, <1>2, <1>3, ReadsAreStable DEF Accumulated
    <2>7. \A j \in DOMAIN resolved_reels' : \A l \in Present(Refs(j)') \ LanesWith(j, Assigned)' :
            LaneDiagnostic(j, l)' \in diagnostics'
      BY <1>1, <1>2, <1>3, ReadsAreStable DEF Accumulated
    <2> QED BY <1>1, <2>1, <2>2, <2>3, <2>4, <2>5, <2>6, <2>7 DEF Accumulated
  <1> QED BY <1>1, <1>4, ReadsAreStable DEF WalkIsDetermined

LEMMA TargetRejected ==
  ASSUME WalkIsDetermined, pc = "find_owner", NEW code \in TargetCodes, RejectTarget(code),
         ~\E o \in DOMAIN Packages : Owners = {o}
  PROVE  WalkIsDetermined'
  <1>1. /\ request' = request /\ origin' = 0 /\ pc' = "done" /\ graph' = None /\ resolved_reels' = <<>>
        /\ missing_assets' = {} /\ origin = 0
    BY DEF RejectTarget, WalkIsDetermined
  <1>2. Packages' = Packages /\ Owners' = Owners
    BY <1>1, ReadsAreStable
  <1>3. \A d \in diagnostics' : d.code \in TargetCodes
    BY DEF RejectTarget, Diagnostic
  <1> QED BY <1>1, <1>2, <1>3 DEF WalkIsDetermined

LEMMA SelectOwnerWalks ==
  ASSUME TypeOK, WalkIsDetermined, SelectOwner
  PROVE  WalkIsDetermined'
  <1>1. /\ request' = request /\ pc' = "resolve_reels" /\ graph' = None
        /\ resolved_reels' = <<>> /\ missing_assets' = {} /\ diagnostics' = {}
        /\ ~uses_external_dependency' /\ ~has_broken_dependency'
    BY DEF SelectOwner, WalkIsDetermined
  <1>2. Packages' = Packages /\ Owners' = Owners
    BY <1>1 DEF Packages, Owners
  <1>3. /\ Owners = {origin'}
        /\ source_packages' = {Packages[origin'].pkl_id}
        /\ origin' \in DOMAIN Packages
    BY OwnersFacts DEF SelectOwner, TypeOK
  <1>4. origin' # 0
    BY <1>3, OwnersFacts DEF TypeOK
  <1>5. DOMAIN resolved_reels' = {}
    BY <1>1
  <1>6. source_packages' = {OriginId'}
    BY <1>2, <1>3 DEF OriginId
  <1>7. Accumulated'
    BY <1>1, <1>5, <1>6 DEF Accumulated
  <1> QED BY <1>1, <1>2, <1>3, <1>4, <1>7 DEF WalkIsDetermined

LEMMA FinishWalks ==
  ASSUME TypeOK, WalkIsDetermined, Finish
  PROVE  WalkIsDetermined'
  <1>1. /\ UNCHANGED <<request, origin, resolved_reels, source_packages, missing_assets,
                       uses_external_dependency, has_broken_dependency>>
        /\ pc = "resolve_reels" /\ pc' = "done" /\ origin # 0 /\ Owners = {origin} /\ Accumulated
        /\ Len(resolved_reels) = Len(CompositionReels)
        /\ diagnostics' = diagnostics \cup IF has_broken_dependency THEN {BrokenDependencyDiagnostic} ELSE {}
        /\ graph' = IF diagnostics' = {} THEN CollectedGraph ELSE None
    BY DEF Finish, WalkIsDetermined
  <1>2. CollectedGraph' = CollectedGraph
    BY <1>1, ReadsAreStable DEF CollectedGraph
  <1>3. \A d \in diagnostics : \E k \in DOMAIN resolved_reels :
          \E l \in Present(Refs(k)) \ LanesWith(k, Assigned) : d = LaneDiagnostic(k, l)
    BY <1>1 DEF Accumulated
  <1>4. Accumulated'
    <2>1. /\ \A d \in diagnostics' :
               \/ d = BrokenDependencyDiagnostic /\ has_broken_dependency'
               \/ \E k \in DOMAIN resolved_reels' :
                    \E l \in Present(Refs(k)') \ LanesWith(k, Assigned)' : d = LaneDiagnostic(k, l)'
          /\ \A k \in DOMAIN resolved_reels' : \A l \in Present(Refs(k)') \ LanesWith(k, Assigned)' :
               LaneDiagnostic(k, l)' \in diagnostics'
          /\ has_broken_dependency' => BrokenDependencyDiagnostic \in diagnostics'
      BY <1>1, <1>3, ReadsAreStable DEF Accumulated
    <2> QED BY <1>1, <2>1, ReadsAreStable DEF Accumulated, BrokenDependencyDiagnostic
  <1> QED BY <1>1, <1>2, <1>4, ReadsAreStable DEF WalkIsDetermined

LEMMA StepWalks ==
  ASSUME TypeOK, WalkIsDetermined, [Next]_vars
  PROVE  WalkIsDetermined'
  <1>1. CASE TargetNotFound
    BY <1>1, TargetRejected DEF TargetNotFound, TargetCodes
  <1>2. CASE ConflictingOwner
    <2>1. ~\E o \in DOMAIN Packages : Owners = {o}
      BY <1>2 DEF ConflictingOwner, MoreThanOne
    <2> QED BY <1>2, <2>1, TargetRejected DEF ConflictingOwner, TargetCodes
  <1>3. CASE SelectOwner
    BY <1>3, SelectOwnerWalks
  <1>4. CASE ResolveReel
    BY <1>4, ResolveReelWalks
  <1>5. CASE Finish
    BY <1>5, FinishWalks
  <1>6. CASE UNCHANGED vars
    <2>1. UNCHANGED <<request, pc, origin, resolved_reels, source_packages, missing_assets,
                      uses_external_dependency, has_broken_dependency, diagnostics, graph>>
      BY <1>6 DEF vars
    <2>2. CollectedGraph' = CollectedGraph
      BY <2>1, ReadsAreStable DEF CollectedGraph
    <2>3. Accumulated' <=> Accumulated
      BY <2>1, ReadsAreStable DEF Accumulated, BrokenDependencyDiagnostic
    <2> QED BY <2>1, <2>2, <2>3, ReadsAreStable DEF WalkIsDetermined
  <1> QED BY <1>1, <1>2, <1>3, <1>4, <1>5, <1>6 DEF Next

LEMMA InductiveInvariant == Spec => [](TypeOK /\ WalkIsDetermined)
  <1>1. Init => TypeOK /\ WalkIsDetermined
    BY InitTyped DEF Init, WalkIsDetermined
  <1>2. TypeOK /\ WalkIsDetermined /\ [Next]_vars => (TypeOK /\ WalkIsDetermined)'
    BY StepTyped, StepWalks
  <1> QED BY <1>1, <1>2, PTL DEF Spec

\* Every variable keeps its type for every set of packages: in particular each
\* reel that resolve builds is a reel of well-formed tracks, none of them empty
\* by accident, and the walk never runs past the reels of the composition.
THEOREM TypeCorrectness == Spec => []TypeOK
  BY InductiveInvariant, PTL

\* At each control point, what resolve has collected is exactly what the reels
\* behind it and the packages determine.
THEOREM WalkCorrectness == Spec => []WalkIsDetermined
  BY InductiveInvariant, PTL

-----------------------------------------------------------------------------
(* Published graphs *)

\* A graph is published only after a walk on which every lane was assigned.
LEMMA Published ==
  ASSUME TypeOK, WalkIsDetermined, graph # None
  PROVE  /\ pc = "done" /\ origin # 0 /\ origin \in Owners /\ Owners = {origin} /\ Accumulated
         /\ diagnostics = {} /\ graph = CollectedGraph
         /\ DOMAIN resolved_reels = 1 .. Len(CompositionReels)
         /\ DOMAIN CompositionReels = 1 .. Len(CompositionReels)
         /\ \A k \in 1 .. Len(CompositionReels) :
              LanesWith(k, Assigned) = Present(Refs(k)) /\ resolved_reels[k] = ResolvedReel(k)
  <1>1. /\ pc = "done" /\ origin # 0 /\ Owners = {origin} /\ Accumulated
        /\ diagnostics = {} /\ graph = CollectedGraph
        /\ Len(resolved_reels) = Len(CompositionReels)
    BY DEF TypeOK, WalkIsDetermined
  <1>2. CompositionReels \in Seq(CplReel) /\ resolved_reels \in Seq(GraphReel)
    BY <1>1, OwnersFacts DEF TypeOK, CompositionReels
  <1>3. \A k \in DOMAIN resolved_reels : Present(Refs(k)) \ LanesWith(k, Assigned) = {}
    BY <1>1 DEF Accumulated
  <1>4. \A k : LanesWith(k, Assigned) \subseteq Present(Refs(k))
    BY DEF LanesWith
  <1>5. \A k \in DOMAIN resolved_reels : resolved_reels[k] = ResolvedReel(k)
    BY <1>1 DEF Accumulated
  <1>6. /\ DOMAIN resolved_reels = 1 .. Len(CompositionReels)
        /\ DOMAIN CompositionReels = 1 .. Len(CompositionReels)
    BY <1>1, <1>2
  <1>7. \A k \in 1 .. Len(CompositionReels) : LanesWith(k, Assigned) = Present(Refs(k))
    <2> SUFFICES ASSUME NEW k \in 1 .. Len(CompositionReels)
                 PROVE  LanesWith(k, Assigned) = Present(Refs(k))
      OBVIOUS
    <2>1. Present(Refs(k)) \ LanesWith(k, Assigned) = {}
      BY <1>3, <1>6
    <2>2. LanesWith(k, Assigned) \subseteq Present(Refs(k))
      BY <1>4
    <2>3. Present(Refs(k)) \subseteq LanesWith(k, Assigned)
      BY <2>1
    <2> QED BY <2>2, <2>3
  <1> QED BY <1>1, <1>5, <1>6, <1>7

LEMMA TracksOfWalk ==
  ASSUME TypeOK, WalkIsDetermined, graph # None
  PROVE  /\ \A k \in DOMAIN resolved_reels : \A l \in LanesWith(k, Assigned) :
              BuildTrackFile(l, Refs(k)[l], ProviderOfLane(k, l), OriginId) \in TracksOf(resolved_reels)
         /\ \A t \in TracksOf(resolved_reels) : \E k \in DOMAIN resolved_reels :
              \E l \in LanesWith(k, Assigned) :
                t = BuildTrackFile(l, Refs(k)[l], ProviderOfLane(k, l), OriginId)
  <1>1. \A k \in DOMAIN resolved_reels : \A l \in LanesWith(k, Assigned) :
          /\ l \in Lane
          /\ BuildTrackFile(l, Refs(k)[l], ProviderOfLane(k, l), OriginId) # None
    BY Published, ReelFacts, AssignedLane DEF TypeOK
  <1>2. \A k \in DOMAIN resolved_reels : \A l \in Lane :
          resolved_reels[k].tracks[l] =
            IF l \in LanesWith(k, Assigned)
            THEN BuildTrackFile(l, Refs(k)[l], ProviderOfLane(k, l), OriginId) ELSE None
    BY Published DEF ResolvedReel
  <1>3. \A k \in DOMAIN resolved_reels : Present(resolved_reels[k].tracks) = LanesWith(k, Assigned)
    BY <1>1, <1>2 DEF Present
  <1>4. ASSUME NEW k \in DOMAIN resolved_reels, NEW l \in LanesWith(k, Assigned)
        PROVE  BuildTrackFile(l, Refs(k)[l], ProviderOfLane(k, l), OriginId) \in TracksOf(resolved_reels)
    <2>1. resolved_reels[k].tracks[l] = BuildTrackFile(l, Refs(k)[l], ProviderOfLane(k, l), OriginId)
      BY <1>1, <1>2
    <2>2. l \in Present(resolved_reels[k].tracks)
      BY <1>3
    <2> QED BY <2>1, <2>2 DEF TracksOf
  <1>5. ASSUME NEW t \in TracksOf(resolved_reels)
        PROVE  \E k \in DOMAIN resolved_reels : \E l \in LanesWith(k, Assigned) :
                 t = BuildTrackFile(l, Refs(k)[l], ProviderOfLane(k, l), OriginId)
    <2>1. PICK k \in DOMAIN resolved_reels : \E l \in Present(resolved_reels[k].tracks) :
            t = resolved_reels[k].tracks[l]
      BY DEF TracksOf
    <2> QED BY <1>1, <1>2, <1>3, <2>1
  <1> QED BY <1>4, <1>5

LEMMA TrackFields ==
  ASSUME NEW l, NEW ref, NEW package, NEW id
  PROVE  /\ BuildTrackFile(l, ref, package, id).source_package_id = package.pkl_id
         /\ BuildTrackFile(l, ref, package, id).asset_id = ref.asset_id
         /\ BuildTrackFile(l, ref, package, id).dependency_kind = "local" <=> package.pkl_id = id
         /\ BuildTrackFile(l, ref, package, id).dependency_kind = "external" <=> package.pkl_id # id
  BY DEF BuildTrackFile

\* An assigned lane is external to the walk iff its package is not the origin.
LEMMA ExternalLane ==
  ASSUME TypeOK, origin \in Owners, NEW k \in 1 .. Len(CompositionReels), NEW l \in LanesWith(k, Assigned)
  PROVE  l \in LanesWith(k, {"external"}) <=> ProviderOfLane(k, l).pkl_id # OriginId
  <1>1. Outcome(k, l) \in {"local", "external"} /\ l \in Present(Refs(k))
    BY DEF LanesWith, Assigned
  <1>2. Outcome(k, l) = "local" => ProviderOfLane(k, l).pkl_id = OriginId
    BY AssignedLane DEF ProviderOfLane, OriginId, TypeOK
  <1>3. Outcome(k, l) = "external" => ProviderOfLane(k, l).pkl_id # OriginId
    BY AssignedLane DEF TypeOK
  <1> QED BY <1>1, <1>2, <1>3 DEF LanesWith

LEMMA PublishedAgrees ==
  ASSUME TypeOK, WalkIsDetermined
  PROVE  PublishedMetadataAgrees
  <1> SUFFICES ASSUME graph # None
               PROVE  MetadataAgrees(graph) /\ graph.missing_assets = {}
    BY DEF PublishedMetadataAgrees
  <1> DEFINE tracks == TracksOf(resolved_reels)
             track(k, l) == BuildTrackFile(l, Refs(k)[l], ProviderOfLane(k, l), OriginId)
             walked == DOMAIN resolved_reels
  <1>1. /\ graph.origin_package_id = OriginId
        /\ graph.composition_kind = IF uses_external_dependency THEN "vf" ELSE "ov"
        /\ graph.source_packages = source_packages
        /\ graph.resolved_reels = resolved_reels
        /\ graph.missing_assets = missing_assets
    BY Published DEF CollectedGraph
  <1>2. \A k \in walked : \A l \in LanesWith(k, Assigned) :
          /\ track(k, l) \in tracks
          /\ track(k, l).source_package_id = ProviderOfLane(k, l).pkl_id
          /\ track(k, l).dependency_kind = "external" <=> l \in LanesWith(k, {"external"})
          /\ track(k, l).dependency_kind = "local" <=> ProviderOfLane(k, l).pkl_id = OriginId
    BY TracksOfWalk, TrackFields, ExternalLane, Published
  <1>3. \A t \in tracks : \E k \in walked : \E l \in LanesWith(k, Assigned) : t = track(k, l)
    BY TracksOfWalk
  <1>4. \A k \in walked : /\ LanesWith(k, {"external"}) \subseteq LanesWith(k, Assigned)
                          /\ LanesWith(k, UsesExternal) = LanesWith(k, {"external"})
                          /\ LanesWith(k, {"missing"}) = {}
    <2>1. \A k \in walked : \A l \in Present(Refs(k)) : Outcome(k, l) \in Assigned
      BY Published DEF LanesWith
    <2> QED BY <2>1 DEF LanesWith, Assigned, UsesExternal
  <1> HIDE DEF tracks, track, walked
  <1>5. \A t \in tracks : t.dependency_kind = "local" <=> t.source_package_id = OriginId
    BY <1>2, <1>3
  <1>6. uses_external_dependency <=> \E t \in tracks : t.dependency_kind = "external"
    <2>1. uses_external_dependency <=> \E k \in walked : LanesWith(k, {"external"}) # {}
      BY <1>4, Published DEF Accumulated, walked
    <2> QED BY <1>2, <1>3, <1>4, <2>1
  <1>7. source_packages = {OriginId} \cup {t.source_package_id : t \in tracks}
    <2>1. \A p \in PklId : p \in source_packages <=>
            p = OriginId \/ \E k \in walked : \E l \in LanesWith(k, {"external"}) : p = ProviderOfLane(k, l).pkl_id
      BY Published DEF Accumulated, walked
    <2>2. source_packages \subseteq PklId /\ OriginId \in PklId
      BY Published, OwnersFacts DEF TypeOK, OriginId, Package
    <2>3. \A k \in walked : \A l \in LanesWith(k, Assigned) :
            /\ ProviderOfLane(k, l).pkl_id \in PklId
            /\ l \notin LanesWith(k, {"external"}) => ProviderOfLane(k, l).pkl_id = OriginId
      BY Published, AssignedLane, ExternalLane DEF TypeOK, Package, walked
    <2> QED BY <1>2, <1>3, <1>4, <2>1, <2>2, <2>3
  <1>8. missing_assets = {}
    <2>1. \A a \in Uuid : a \notin missing_assets
      BY <1>4, Published DEF Accumulated, walked
    <2> QED BY <2>1 DEF TypeOK
  <1> QED BY <1>1, <1>5, <1>6, <1>7, <1>8 DEF MetadataAgrees, tracks

\* Whatever packages resolve is given, the kind, the source packages and the
\* dependency kinds of a graph it publishes are those of its tracks.
THEOREM MetadataCorrectness == Spec => []PublishedMetadataAgrees
  BY InductiveInvariant, PublishedAgrees, PTL

LEMMA PublishedShowReady ==
  ASSUME TypeOK, WalkIsDetermined
  PROVE  PublishedGraphIsShowReady
  <1> SUFFICES ASSUME graph # None
               PROVE  /\ Len(graph.resolved_reels) = Len(CompositionReels)
                      /\ \A k \in DOMAIN CompositionReels :
                           /\ Present(graph.resolved_reels[k].tracks) = Present(Refs(k))
                           /\ \A l \in Present(Refs(k)) :
                                LET t == graph.resolved_reels[k].tracks[l] IN
                                \E i \in DOMAIN Packages :
                                  /\ t = BuildTrackFile(l, Refs(k)[l], Packages[i], OriginId)
                                  /\ Backed(Packages[i], t.asset_id, "track_file")
                                  /\ Packages[origin].pkl[t.asset_id] # None => i = origin
    BY DEF PublishedGraphIsShowReady
  <1>1. graph.resolved_reels = resolved_reels
    BY Published DEF CollectedGraph
  <1>2. Len(resolved_reels) = Len(CompositionReels)
    BY Published DEF WalkIsDetermined
  <1>3. ASSUME NEW k \in DOMAIN CompositionReels
        PROVE  Present(resolved_reels[k].tracks) = Present(Refs(k))
    <2>1. k \in 1 .. Len(CompositionReels) /\ resolved_reels[k] = ResolvedReel(k)
          /\ LanesWith(k, Assigned) = Present(Refs(k))
      BY Published
    <2>2. Present(Refs(k)) \subseteq Lane
      BY <2>1, Published, ReelFacts DEF TypeOK
    <2>3. \A l \in Lane : resolved_reels[k].tracks[l] # None <=> l \in Present(Refs(k))
      BY <2>1, Published, AssignedLane DEF TypeOK, ResolvedReel
    <2> QED BY <2>2, <2>3 DEF Present
  <1>4. ASSUME NEW k \in DOMAIN CompositionReels, NEW l \in Present(Refs(k))
        PROVE  \E i \in DOMAIN Packages :
                 /\ resolved_reels[k].tracks[l] = BuildTrackFile(l, Refs(k)[l], Packages[i], OriginId)
                 /\ Backed(Packages[i], resolved_reels[k].tracks[l].asset_id, "track_file")
                 /\ Packages[origin].pkl[resolved_reels[k].tracks[l].asset_id] # None => i = origin
    <2> DEFINE id == Refs(k)[l].asset_id
               i == Provider(Packages, origin, id)
    <2>1. k \in 1 .. Len(CompositionReels) /\ resolved_reels[k] = ResolvedReel(k)
          /\ l \in LanesWith(k, Assigned)
      BY Published
    <2>2. l \in Lane
      BY <2>1, Published, ReelFacts DEF TypeOK
    <2>3. /\ resolved_reels[k].tracks[l] = BuildTrackFile(l, Refs(k)[l], Packages[i], OriginId)
          /\ resolved_reels[k].tracks[l].asset_id = id
      BY <2>1, <2>2, TrackFields DEF ResolvedReel, ProviderOfLane
    <2>4. i \in DOMAIN Packages /\ Backed(Packages[i], id, "track_file")
      BY <2>1, Published, AssignedLane DEF TypeOK, ProviderOfLane
    <2>5. Packages[origin].pkl[id] # None => i = origin
      <3>1. Outcome(k, l) \in {"local", "external"}
        BY <2>1 DEF LanesWith, Assigned
      <3> QED BY <2>1, <3>1, Published, AssignedLane DEF TypeOK
    <2> HIDE DEF id, i
    <2> QED BY <2>3, <2>4, <2>5
  <1> QED BY <1>1, <1>2, <1>3, <1>4

\* Whatever packages resolve is given, a published graph has every reel and lane
\* of the CPL, each backed in the package that its track names, and an asset the
\* owner lists is taken from the owner.
THEOREM ShowReadiness == Spec => []PublishedGraphIsShowReady
  BY InductiveInvariant, PublishedShowReady, PTL

LEMMA RejectionExplained ==
  ASSUME TypeOK, WalkIsDetermined
  PROVE  RejectionIsExplained
  <1> SUFFICES ASSUME pc = "done", origin # 0
               PROVE  /\ graph = None <=> \E k \in DOMAIN CompositionReels : \E l \in Present(Refs(k)) :
                                          \E d \in diagnostics : d.where = <<k, l>>
                      /\ BrokenDependencyDiagnostic \in diagnostics <=>
                           \E k \in DOMAIN CompositionReels : \E l \in Present(Refs(k)) :
                             /\ Packages[origin].pkl[Refs(k)[l].asset_id] = None
                             /\ \E d \in diagnostics : d.where = <<k, l>>
    BY DEF RejectionIsExplained
  <1> DEFINE reels == DOMAIN CompositionReels
             failed(k) == Present(Refs(k)) \ LanesWith(k, Assigned)
  <1>1. /\ Owners = {origin} /\ origin \in Owners /\ Accumulated
        /\ Len(resolved_reels) = Len(CompositionReels)
        /\ graph = IF diagnostics = {} THEN CollectedGraph ELSE None
    BY DEF WalkIsDetermined
  <1>2. reels = DOMAIN resolved_reels /\ reels = 1 .. Len(CompositionReels)
    BY <1>1, OwnersFacts DEF TypeOK, CompositionReels
  <1>3. CollectedGraph # None
    BY <1>1, CollectedGraphType, NoneAssumption
  <1>4. /\ \A d \in diagnostics :
             \/ d = BrokenDependencyDiagnostic /\ has_broken_dependency
             \/ \E k \in reels : \E l \in failed(k) : d = LaneDiagnostic(k, l)
        /\ \A k \in reels : \A l \in failed(k) : LaneDiagnostic(k, l) \in diagnostics
        /\ has_broken_dependency <=> \E k \in reels : LanesWith(k, BrokenDependency) # {}
        /\ has_broken_dependency => BrokenDependencyDiagnostic \in diagnostics
    BY <1>1, <1>2 DEF Accumulated
  <1>5. \A k, l : LaneDiagnostic(k, l).where = <<k, l>>
    BY DEF LaneDiagnostic, Diagnostic
  <1>6. /\ BrokenDependencyDiagnostic.where = <<0, "composition">>
        /\ \A k \in reels : \A l : <<k, l>> # <<0, "composition">>
    BY <1>2 DEF BrokenDependencyDiagnostic, Diagnostic, AtComposition
  <1>7. \A k \in reels : \A l \in Present(Refs(k)) :
          (\E d \in diagnostics : d.where = <<k, l>>) <=> l \in failed(k)
    BY <1>4, <1>5, <1>6
  <1>8. \A k \in reels : \A l \in Present(Refs(k)) :
          l \in LanesWith(k, BrokenDependency) <=>
            l \in failed(k) /\ Packages[origin].pkl[Refs(k)[l].asset_id] = None
    <2> SUFFICES ASSUME NEW k \in reels, NEW l \in Present(Refs(k))
                 PROVE  l \in LanesWith(k, BrokenDependency) <=>
                          l \in failed(k) /\ Packages[origin].pkl[Refs(k)[l].asset_id] = None
      OBVIOUS
    <2>1. Refs(k)[l].asset_id \in Uuid
      BY <1>1, <1>2, ReelFacts DEF TypeOK, AssetReference
    <2>2. Packages \in Seq(Package) /\ origin \in DOMAIN Packages
      BY <1>1, OwnersFacts DEF TypeOK
    <2>3. /\ Outcome(k, l) \in {"local", "local_broken", "external", "external_broken", "missing", "conflicting"}
          /\ Outcome(k, l) \in {"local", "local_broken"} <=> Packages[origin].pkl[Refs(k)[l].asset_id] # None
      BY <2>1, <2>2, Outcomes DEF Outcome
    <2> QED BY <2>3 DEF LanesWith, Assigned, BrokenDependency
  <1>9. \A k \in reels : LanesWith(k, BrokenDependency) \subseteq Present(Refs(k))
    BY DEF LanesWith
  <1>10. BrokenDependencyDiagnostic \in diagnostics <=> has_broken_dependency
    BY <1>4, <1>5, <1>6
  <1>11. diagnostics # {} <=> \E k \in reels : failed(k) # {}
    BY <1>4, <1>8, <1>9
  <1>12. \A k \in reels : failed(k) \subseteq Present(Refs(k))
    OBVIOUS
  <1> HIDE DEF reels, failed
  <1>13. graph = None <=> \E k \in reels : failed(k) # {}
    BY <1>1, <1>3, <1>11
  <1>14. graph = None <=> \E k \in reels : \E l \in Present(Refs(k)) : \E d \in diagnostics : d.where = <<k, l>>
    BY <1>7, <1>12, <1>13
  <1>15. BrokenDependencyDiagnostic \in diagnostics <=>
          \E k \in reels : \E l \in Present(Refs(k)) : l \in LanesWith(k, BrokenDependency)
    BY <1>4, <1>9, <1>10
  <1>16. BrokenDependencyDiagnostic \in diagnostics <=>
          \E k \in reels : \E l \in Present(Refs(k)) :
            /\ Packages[origin].pkl[Refs(k)[l].asset_id] = None
            /\ \E d \in diagnostics : d.where = <<k, l>>
    BY <1>7, <1>8, <1>15
  <1> QED BY <1>14, <1>16 DEF reels

\* Whatever packages resolve is given, a rejected composition carries a
\* diagnostic at each lane that failed, and the summary broken_dependency exactly
\* when the owner does not list one of them.
THEOREM RejectionCorrectness == Spec => []RejectionIsExplained
  BY InductiveInvariant, RejectionExplained, PTL

-----------------------------------------------------------------------------
(* What a caller may rely on *)

LEMMA PublishedGraph ==
  ASSUME TypeOK, WalkIsDetermined, graph # None
  PROVE  /\ graph \in CompositionGraph /\ MetadataAgrees(graph)
         /\ graph.origin_package_id = OriginId /\ graph.missing_assets = {}
         /\ Owners = {origin} /\ origin \in DOMAIN Packages /\ CompositionReels \in Seq(CplReel)
         /\ Len(graph.resolved_reels) = Len(CompositionReels)
         /\ \A k \in DOMAIN CompositionReels :
              /\ graph.resolved_reels[k].reel_id = CompositionReels[k].reel_id
              /\ Present(graph.resolved_reels[k].tracks) = Present(Refs(k))
              /\ \A l \in Present(Refs(k)) : \E i \in DOMAIN Packages :
                   /\ graph.resolved_reels[k].tracks[l] = BuildTrackFile(l, Refs(k)[l], Packages[i], OriginId)
                   /\ Backed(Packages[i], Refs(k)[l].asset_id, "track_file")
  <1>1. /\ Owners = {origin} /\ origin \in Owners /\ graph = CollectedGraph
        /\ DOMAIN CompositionReels = 1 .. Len(CompositionReels)
        /\ \A k \in 1 .. Len(CompositionReels) : resolved_reels[k] = ResolvedReel(k)
    BY Published
  <1>2. /\ graph.origin_package_id = OriginId /\ graph.resolved_reels = resolved_reels
    BY <1>1 DEF CollectedGraph
  <1>3. /\ graph \in CompositionGraph /\ MetadataAgrees(graph) /\ graph.missing_assets = {}
    BY PublishedAgrees DEF TypeOK, Optional, PublishedMetadataAgrees
  <1>4. origin \in DOMAIN Packages /\ CompositionReels \in Seq(CplReel)
    BY <1>1, OwnersFacts DEF TypeOK, CompositionReels
  <1>5. \A k \in DOMAIN CompositionReels : graph.resolved_reels[k].reel_id = CompositionReels[k].reel_id
    <2>1. \A k \in DOMAIN CompositionReels : graph.resolved_reels[k] = ResolvedReel(k)
      BY <1>1, <1>2
    <2>2. \A k : ResolvedReel(k).reel_id = CompositionReels[k].reel_id
      BY DEF ResolvedReel
    <2> QED BY <2>1, <2>2
  <1>6. /\ Len(graph.resolved_reels) = Len(CompositionReels)
        /\ \A k \in DOMAIN CompositionReels :
             /\ Present(graph.resolved_reels[k].tracks) = Present(Refs(k))
             /\ \A l \in Present(Refs(k)) : \E i \in DOMAIN Packages :
                  /\ graph.resolved_reels[k].tracks[l] = BuildTrackFile(l, Refs(k)[l], Packages[i], OriginId)
                  /\ Backed(Packages[i], graph.resolved_reels[k].tracks[l].asset_id, "track_file")
    BY PublishedShowReady DEF PublishedGraphIsShowReady
  <1>7. ASSUME NEW k \in DOMAIN CompositionReels, NEW l \in Present(Refs(k))
        PROVE  \E i \in DOMAIN Packages :
                 /\ graph.resolved_reels[k].tracks[l] = BuildTrackFile(l, Refs(k)[l], Packages[i], OriginId)
                 /\ Backed(Packages[i], Refs(k)[l].asset_id, "track_file")
    <2>1. PICK i \in DOMAIN Packages :
            /\ graph.resolved_reels[k].tracks[l] = BuildTrackFile(l, Refs(k)[l], Packages[i], OriginId)
            /\ Backed(Packages[i], graph.resolved_reels[k].tracks[l].asset_id, "track_file")
      BY <1>6
    <2>2. graph.resolved_reels[k].tracks[l].asset_id = Refs(k)[l].asset_id
      BY <2>1, TrackFields
    <2>3. Backed(Packages[i], Refs(k)[l].asset_id, "track_file")
      BY <2>1, <2>2, Zenon
    <2> QED BY <2>1, <2>3, Zenon
  <1> QED BY <1>1, <1>2, <1>3, <1>4, <1>5, <1>6, <1>7

-----------------------------------------------------------------------------
(* The lookups of both modules are the same *)

LEMMA SameLookups ==
  /\ \A package, id, type : Resolution!Backed(package, id, type) <=> Backed(package, id, type)
  /\ \A packages, id : Resolution!OwnerCandidates(packages, id) = OwnerCandidates(packages, id)
  /\ \A l, ref, package, id :
       Resolution!BuildTrackFile(l, ref, package, id) = BuildTrackFile(l, ref, package, id)
  /\ \A lanes : Resolution!Present(lanes) = Present(lanes)
  /\ \A reels : Resolution!TracksOf(reels) = TracksOf(reels)
  /\ Resolution!Lane = Lane
  <1>1. \A package, id, type : Resolution!Backed(package, id, type) <=> Backed(package, id, type)
    BY DEF Resolution!Backed, Backed
  <1>2. \A package, id : Resolution!OwnsComposition(package, id) <=> OwnsComposition(package, id)
    BY <1>1 DEF Resolution!OwnsComposition, OwnsComposition
  <1>3. \A packages, id : Resolution!OwnerCandidates(packages, id) = OwnerCandidates(packages, id)
    BY <1>2 DEF Resolution!OwnerCandidates, OwnerCandidates
  <1>4. \A l, ref, package, id :
          Resolution!BuildTrackFile(l, ref, package, id) = BuildTrackFile(l, ref, package, id)
    BY DEF Resolution!BuildTrackFile, BuildTrackFile
  <1>5. Resolution!Lane = Lane
    BY DEF Resolution!Lane, Lane
  <1>6. \A lanes : Resolution!Present(lanes) = Present(lanes)
    BY <1>5 DEF Resolution!Present, Present
  <1>7. \A reels : Resolution!TracksOf(reels) = TracksOf(reels)
    BY <1>6 DEF Resolution!TracksOf, TracksOf
  <1> QED BY <1>1, <1>3, <1>4, <1>5, <1>6, <1>7

\* A reference is assigned exactly when the declarative rule finds one provider,
\* and it is assigned to that provider.
LEMMA SoleProvider ==
  ASSUME NEW packages \in Seq(Package), NEW o \in DOMAIN packages, NEW id \in Uuid
  PROVE  /\ ReferenceOutcome(packages, o, id) \in Assigned <=>
              \E i \in DOMAIN packages : Resolution!Providers(packages, o, id) = {i}
         /\ ReferenceOutcome(packages, o, id) \in Assigned =>
              Resolution!Providers(packages, o, id) = {Provider(packages, o, id)}
  <1> DEFINE outcome == ReferenceOutcome(packages, o, id)
             providers == Resolution!Providers(packages, o, id)
             others == ExternalIn(packages, o, id, "resolved")
  <1>1. providers = {i \in DOMAIN packages :
                       /\ Backed(packages[i], id, "track_file")
                       /\ \/ i = o
                          \/ packages[o].pkl[id] = None /\ packages[i].pkl_id # packages[o].pkl_id}
    BY SameLookups DEF Resolution!Providers
  <1>2. others = {i \in DOMAIN packages : /\ packages[i].pkl_id # packages[o].pkl_id
                                          /\ Backed(packages[i], id, "track_file")}
    <2>1. \A i \in DOMAIN packages :
            ResolveInPackage(packages[i], id) = "resolved" <=> Backed(packages[i], id, "track_file")
      BY InPackage
    <2> QED BY <2>1 DEF ExternalIn
  <1>3. Backed(packages[o], id, "track_file") => packages[o].pkl[id] # None
    BY BackedFacts, packages[o] \in Package DEF AssetType
  <1>4. /\ outcome \in {"local", "local_broken", "external", "external_broken", "missing", "conflicting"}
        /\ outcome = "local" <=> Backed(packages[o], id, "track_file")
        /\ outcome \in {"local", "local_broken"} <=> packages[o].pkl[id] # None
        /\ outcome = "external" <=> packages[o].pkl[id] = None /\ \E i \in DOMAIN packages : others = {i}
    BY Outcomes
  <1>5. outcome \in Assigned => Provider(packages, o, id) = o \/ outcome = "external"
    BY ProviderFacts DEF Assigned
  <1>6. CASE outcome = "local"
    <2>1. providers = {o}
      BY <1>1, <1>3, <1>4, <1>6
    <2> QED BY <1>6, <2>1, ProviderFacts DEF Assigned
  <1>7. CASE outcome = "local_broken"
    <2>1. providers = {}
      BY <1>1, <1>4, <1>7
    <2> QED BY <1>7, <2>1 DEF Assigned
  <1>8. CASE packages[o].pkl[id] = None
    <2>1. providers = others
      BY <1>1, <1>2, <1>3, <1>8
    <2>2. outcome \in Assigned <=> \E i \in DOMAIN packages : providers = {i}
      BY <1>4, <1>8, <2>1 DEF Assigned
    <2>3. ASSUME outcome \in Assigned PROVE providers = {Provider(packages, o, id)}
      <3>1. outcome = "external" /\ ResolveInPackage(packages[o], id) # "resolved"
        BY <1>3, <1>4, <1>8, <2>3, InPackage, packages[o] \in Package DEF Assigned
      <3>2. PICK i \in DOMAIN packages : others = {i}
        BY <1>4, <3>1
      <3>3. Provider(packages, o, id) = i
        BY <3>1, <3>2 DEF Provider
      <3> QED BY <2>1, <3>2, <3>3
    <2> QED BY <2>2, <2>3
  <1> QED BY <1>4, <1>6, <1>7, <1>8

-----------------------------------------------------------------------------
(* The answers of both modules are the same *)

LEMMA SoleOwner ==
  ASSUME request \in Request, NEW o \in DOMAIN Packages, Owners = {o}
  PROVE  /\ Resolution!Owner(request) = o
         /\ Resolution!OwnerReels(request) = Packages[o].cpls[request.composition_id]
  <1>1. Resolution!OwnerCandidates(request.packages, request.composition_id) = {o}
    BY SameLookups DEF Owners, Packages
  <1>2. \A i : Resolution!IsSole(i, {o}) <=> i = o
    BY DEF Resolution!IsSole
  <1>3. Resolution!Owner(request) = o
    BY <1>1, <1>2 DEF Resolution!Owner, Packages
  <1> QED BY <1>3 DEF Resolution!OwnerReels, Packages

LEMMA NoOwner ==
  ASSUME ~\E o \in DOMAIN Packages : Owners = {o}
  PROVE  ~Resolution!Resolvable(request)
  BY SameLookups DEF Resolution!Resolvable, Resolution!IsSole, Owners, Packages

\* Once the composition is walked, it is resolvable iff no lane failed.
LEMMA WalkedResolvable ==
  ASSUME TypeOK, origin \in Owners, Owners = {origin}
  PROVE  Resolution!Resolvable(request) <=>
           \A k \in DOMAIN CompositionReels : Present(Refs(k)) \subseteq LanesWith(k, Assigned)
  <1>1. /\ Packages \in Seq(Package) /\ origin \in DOMAIN Packages
        /\ CompositionReels \in Seq(CplReel)
    BY OwnersFacts DEF TypeOK, CompositionReels
  <1>2. Resolution!Owner(request) = origin /\ Resolution!OwnerReels(request) = CompositionReels
    BY <1>1, SoleOwner DEF TypeOK, CompositionReels
  <1>3. \E o \in DOMAIN request.packages :
          Resolution!IsSole(o, Resolution!OwnerCandidates(request.packages, request.composition_id))
    BY <1>1, SameLookups DEF Resolution!IsSole, Owners, Packages
  <1>4. Resolution!Resolvable(request) <=>
          \A k \in DOMAIN CompositionReels : \A l \in Present(Refs(k)) :
            \E i \in DOMAIN Packages :
              Resolution!Providers(Packages, origin, Refs(k)[l].asset_id) = {i}
    <2>1. Resolution!Resolvable(request) <=>
            \A k \in DOMAIN CompositionReels : \A l \in Resolution!Present(CompositionReels[k].refs) :
              \E i \in DOMAIN request.packages :
                Resolution!IsSole(i, Resolution!Providers(request.packages, origin, CompositionReels[k].refs[l].asset_id))
      BY <1>2, <1>3, Zenon DEF Resolution!Resolvable
    <2>2. \A i, S : Resolution!IsSole(i, S) <=> S = {i}
      BY DEF Resolution!IsSole
    <2>3. \A k : Resolution!Present(CompositionReels[k].refs) = Present(Refs(k))
      BY SameLookups DEF Refs
    <2> QED BY <2>1, <2>2, <2>3 DEF Refs, Packages
  <1>5. ASSUME NEW k \in DOMAIN CompositionReels, NEW l \in Present(Refs(k))
        PROVE  l \in LanesWith(k, Assigned) <=>
                 \E i \in DOMAIN Packages : Resolution!Providers(Packages, origin, Refs(k)[l].asset_id) = {i}
    <2>1. Refs(k)[l].asset_id \in Uuid
      BY <1>1, ReelFacts DEF TypeOK, AssetReference
    <2> QED BY <1>1, <2>1, SoleProvider DEF LanesWith, Outcome
  <1> QED BY <1>4, <1>5

LEMMA WalkedReels ==
  ASSUME TypeOK, WalkIsDetermined, graph # None
  PROVE  Resolution!ResolvedReels(request) = resolved_reels
  <1>1. /\ Packages \in Seq(Package) /\ origin \in DOMAIN Packages /\ Owners = {origin}
        /\ request \in Request
    BY Published, OwnersFacts DEF TypeOK
  <1>2. Resolution!Owner(request) = origin /\ Resolution!OwnerReels(request) = CompositionReels
    BY <1>1, SoleOwner DEF CompositionReels
  <1>3. ASSUME NEW k \in 1 .. Len(CompositionReels)
        PROVE  Resolution!ResolvedReel(request, k) = ResolvedReel(k)
    <2>1. LanesWith(k, Assigned) = Present(Refs(k))
      BY Published
    <2>2. ASSUME NEW l \in Present(Refs(k))
          PROVE  request.packages[Resolution!ProviderOf(request, Refs(k)[l].asset_id)] = ProviderOfLane(k, l)
      <3> DEFINE id == Refs(k)[l].asset_id
      <3>1. id \in Uuid
        BY Published, ReelFacts DEF TypeOK, AssetReference
      <3>2. ReferenceOutcome(Packages, origin, id) \in Assigned
        BY <2>1 DEF LanesWith, Outcome
      <3>3. /\ Resolution!Providers(Packages, origin, id) = {Provider(Packages, origin, id)}
            /\ Provider(Packages, origin, id) \in DOMAIN Packages
        BY <1>1, <3>1, <3>2, SoleProvider, ProviderFacts
      <3>4. Resolution!ProviderOf(request, id) = Provider(Packages, origin, id)
        BY <1>2, <3>3 DEF Resolution!ProviderOf, Resolution!IsSole, Packages
      <3> QED BY <3>4 DEF ProviderOfLane, Packages
    <2>3. \A l \in Lane : Refs(k)[l] = None <=> l \notin Present(Refs(k))
      BY DEF Present
    <2>4. \A l \in Lane :
            (IF Refs(k)[l] = None THEN None
             ELSE Resolution!BuildTrackFile(l, Refs(k)[l],
                    request.packages[Resolution!ProviderOf(request, Refs(k)[l].asset_id)], OriginId))
            = (IF l \in LanesWith(k, Assigned)
               THEN BuildTrackFile(l, Refs(k)[l], ProviderOfLane(k, l), OriginId) ELSE None)
      BY <2>1, <2>2, <2>3, SameLookups
    <2> QED BY <1>2, <2>4, SameLookups DEF Resolution!ResolvedReel, ResolvedReel, Refs, OriginId, Packages
  <1>4. resolved_reels = [k \in 1 .. Len(CompositionReels) |-> ResolvedReel(k)]
    <2>1. resolved_reels \in Seq(GraphReel)
      BY DEF TypeOK
    <2> QED BY <2>1, Published
  <1> QED BY <1>2, <1>3, <1>4 DEF Resolution!ResolvedReels

LEMMA SameAnswer ==
  ASSUME TypeOK, WalkIsDetermined, graph # None
  PROVE  graph = Resolution!Answer(request)
  <1>1. /\ graph = CollectedGraph /\ Owners = {origin} /\ origin \in DOMAIN Packages
        /\ request \in Request
    BY Published, OwnersFacts DEF TypeOK
  <1>2. Resolution!Owner(request) = origin
    BY <1>1, SoleOwner
  <1>3. Resolution!TracksOf(Resolution!ResolvedReels(request)) = TracksOf(resolved_reels)
    BY WalkedReels, SameLookups
  <1>4. /\ graph.source_packages = source_packages /\ graph.origin_package_id = OriginId
        /\ graph.resolved_reels = resolved_reels /\ graph.missing_assets = missing_assets
        /\ graph.composition_kind = IF uses_external_dependency THEN "vf" ELSE "ov"
    BY <1>1 DEF CollectedGraph
  <1>5. MetadataAgrees(graph) /\ missing_assets = {}
    BY <1>4, PublishedAgrees DEF PublishedMetadataAgrees
  <1>6. source_packages = {OriginId} \cup {t.source_package_id : t \in TracksOf(resolved_reels)}
    BY <1>4, <1>5 DEF MetadataAgrees
  <1>7. uses_external_dependency <=> \E t \in TracksOf(resolved_reels) : t.dependency_kind = "external"
    BY <1>4, <1>5 DEF MetadataAgrees
  <1>8. \A t \in TracksOf(resolved_reels) : t.dependency_kind = "external" <=> t.source_package_id # OriginId
    BY TracksOfWalk, TrackFields
  <1> QED BY <1>1, <1>2, <1>3, <1>5, <1>6, <1>7, <1>8, WalkedReels
          DEF Resolution!Answer, CollectedGraph, OriginId, Packages

\* What the answered state shows is the declarative answer.
AnswerIsResolution ==
  pc = "done" => /\ graph # None <=> Resolution!Resolvable(request)
                 /\ graph # None => graph = Resolution!Answer(request)

LEMMA AnswersAgree ==
  ASSUME TypeOK, WalkIsDetermined
  PROVE  AnswerIsResolution
  <1> SUFFICES ASSUME pc = "done"
               PROVE  graph # None <=> Resolution!Resolvable(request)
    BY SameAnswer DEF AnswerIsResolution
  <1>1. CASE origin = 0
    BY <1>1, NoOwner DEF WalkIsDetermined
  <1>2. CASE origin # 0
    <2>1. /\ Owners = {origin} /\ Accumulated /\ origin \in Owners
          /\ Len(resolved_reels) = Len(CompositionReels)
          /\ graph = IF diagnostics = {} THEN CollectedGraph ELSE None
      BY <1>2 DEF WalkIsDetermined
    <2>2. CollectedGraph # None
      BY <2>1, CollectedGraphType, NoneAssumption
    <2>3. DOMAIN resolved_reels = DOMAIN CompositionReels
      BY <2>1, OwnersFacts DEF TypeOK, CompositionReels
    <2>4. diagnostics = {} <=>
            \A k \in DOMAIN CompositionReels : Present(Refs(k)) \subseteq LanesWith(k, Assigned)
      <3>1. ASSUME diagnostics = {}, NEW k \in DOMAIN CompositionReels
            PROVE  Present(Refs(k)) \subseteq LanesWith(k, Assigned)
        BY <2>1, <2>3, <3>1 DEF Accumulated
      <3>2. ASSUME \A k \in DOMAIN CompositionReels : Present(Refs(k)) \subseteq LanesWith(k, Assigned)
            PROVE  diagnostics = {}
        <4>1. ~has_broken_dependency
          <5>1. \A k \in DOMAIN CompositionReels : LanesWith(k, BrokenDependency) = {}
            BY <3>2 DEF LanesWith, Assigned, BrokenDependency
          <5> QED BY <2>1, <2>3, <5>1 DEF Accumulated
        <4> QED BY <2>1, <2>3, <3>2, <4>1 DEF Accumulated
      <3> QED BY <3>1, <3>2
    <2> QED BY <2>1, <2>2, <2>4, WalkedResolvable
  <1> QED BY <1>1, <1>2

-----------------------------------------------------------------------------
(* The refinement *)

LEMMA InitRefines == Init => Resolution!Init
  BY RequestsAssumption DEF Init, Resolution!Init

LEMMA StepRefines ==
  ASSUME TypeOK, WalkIsDetermined, [Next]_vars, AnswerIsResolution'
  PROVE  [Resolution!Next]_(Resolution!vars)
  <1> USE DEF Resolution!vars
  <1>1. CASE TargetNotFound \/ ConflictingOwner \/ Finish
    <2>1. request' = request /\ pc # "done" /\ pc' = "done" /\ graph = None
      BY <1>1 DEF TargetNotFound, ConflictingOwner, Finish, RejectTarget, WalkIsDetermined
    <2>2. /\ graph' # None <=> Resolution!Resolvable(request)
          /\ graph' # None => graph' = Resolution!Answer(request)
      BY <2>1 DEF AnswerIsResolution
    <2>3. CASE graph' # None
      BY <2>1, <2>2, <2>3 DEF Resolution!Next, Resolution!Publish
    <2>4. CASE graph' = None
      BY <2>1, <2>2, <2>4 DEF Resolution!Next, Resolution!Reject
    <2> QED BY <2>3, <2>4
  <1>2. CASE SelectOwner \/ ResolveReel
    BY <1>2 DEF SelectOwner, ResolveReel
  <1>3. CASE UNCHANGED vars
    BY <1>3 DEF vars
  <1> QED BY <1>1, <1>2, <1>3 DEF Next

\* Whatever packages resolve is given, and in whatever order, it takes at most one
\* visible step: it publishes the declarative answer when the composition is
\* resolvable, and nothing when it is not.
THEOREM Refinement == Spec => Resolution!Safety
  <1>1. TypeOK /\ WalkIsDetermined => AnswerIsResolution
    BY AnswersAgree
  <1>2. Spec => []AnswerIsResolution
    BY <1>1, InductiveInvariant, PTL
  <1>3. TypeOK /\ WalkIsDetermined /\ [Next]_vars /\ AnswerIsResolution' => [Resolution!Next]_(Resolution!vars)
    BY StepRefines
  <1> QED BY <1>2, <1>3, InitRefines, InductiveInvariant, PTL DEF Spec, Resolution!Safety

=============================================================================
