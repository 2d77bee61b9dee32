------------------------ MODULE SupplementalOverlay -------------------------
(***************************************************************************)
(* What a supplemental merge promises: one answer per request. The set of  *)
(* policies is acceptable or not as a whole; if it is, each base lane for  *)
(* which some policy brings a track of its own gets that track and every   *)
(* other lane is inherited. Nothing here depends on the order of policies. *)
(***************************************************************************)
EXTENDS DcpModel

CONSTANT Requests

VARIABLES request, answered, graph

vars == <<request, answered, graph>>

Owners(r, p) == OwnerCandidates(r.packages, p.supplemental_composition_id)

WellFormed(r, p) ==
  /\ p.merge_mode = "replace_lane"
  /\ \A j \in DOMAIN p.allowed_overrides :
       /\ p.allowed_overrides[j] \in Lane
       /\ \A i \in DOMAIN p.allowed_overrides :
            p.allowed_overrides[i] = p.allowed_overrides[j] => i = j
  /\ p.base_composition_id = r.base_graph.composition_id
  /\ \E o \in DOMAIN r.packages : Owners(r, p) = {o}

OwnerPackage(r, p) == r.packages[CHOOSE o \in DOMAIN r.packages : Owners(r, p) = {o}]

\* The references of policy p, each with the base reel it names (0 if none).
ReelNamed(r, reel_id) ==
  LET named == {i \in DOMAIN r.base_graph.resolved_reels :
                  r.base_graph.resolved_reels[i].reel_id = reel_id}
  IN IF named = {} THEN 0 ELSE CHOOSE i \in named : \A j \in named : i <= j

References(r, p) ==
  LET reels == OwnerPackage(r, p).cpls[p.supplemental_composition_id]
  IN UNION {{[reel |-> ReelNamed(r, reels[k].reel_id), lane |-> l, ref |-> reels[k].refs[l]] :
               l \in Present(reels[k].refs)} : k \in DOMAIN reels}

Brings(r, p, x) == Backed(OwnerPackage(r, p), x.ref.asset_id, "track_file")

\* A reference replaces an allowed base lane ...
Replaces(r, p, x) ==
  /\ x.reel # 0
  /\ r.base_graph.resolved_reels[x.reel].tracks[x.lane] # None
  /\ Brings(r, p, x)
  /\ \E j \in DOMAIN p.allowed_overrides : p.allowed_overrides[j] = x.lane

\* ... or repeats a base lane of which its own package knows nothing.
Repeats(r, p, x) ==
  /\ x.reel # 0
  /\ OwnerPackage(r, p).pkl[x.ref.asset_id] = None
  /\ LET base == r.base_graph.resolved_reels[x.reel].tracks[x.lane] IN
     base # None /\ base.asset_id = x.ref.asset_id /\ base.edit_rate = x.ref.edit_rate

KnowsItsReels(r, p) ==
  LET reels == OwnerPackage(r, p).cpls[p.supplemental_composition_id]
  IN \A k \in DOMAIN reels : ReelNamed(r, reels[k].reel_id) # 0

Track(r, p, x) == BuildTrackFile(x.lane, x.ref, OwnerPackage(r, p), r.base_graph.origin_package_id)

\* The tracks that the policies whose composition is found bring for one lane of one base reel.
Brought(r, i, l) ==
  UNION {{Track(r, r.policies[n], x) :
            x \in {x \in References(r, r.policies[n]) :
                     x.reel = i /\ x.lane = l /\ Replaces(r, r.policies[n], x)}} :
          n \in {n \in DOMAIN r.policies : WellFormed(r, r.policies[n])}}

Acceptable(r) ==
  /\ \A n \in DOMAIN r.policies :
       /\ WellFormed(r, r.policies[n])
       /\ KnowsItsReels(r, r.policies[n])
       /\ \A x \in References(r, r.policies[n]) :
            Replaces(r, r.policies[n], x) \/ Repeats(r, r.policies[n], x)
  /\ \A i \in DOMAIN r.base_graph.resolved_reels : \A l \in Lane : ~MoreThanOne(Brought(r, i, l))

MergedTrack(r, i, l) ==
  LET brought == Brought(r, i, l)
      base    == r.base_graph.resolved_reels[i].tracks[l]
  IN IF brought # {} THEN CHOOSE t \in brought : TRUE
     ELSE IF base = None THEN None
     ELSE [base EXCEPT !.dependency_kind =
             IF base.source_package_id = r.base_graph.origin_package_id THEN "local" ELSE "external"]

MergedReels(r) ==
  [i \in DOMAIN r.base_graph.resolved_reels |->
     [reel_id |-> r.base_graph.resolved_reels[i].reel_id,
      tracks  |-> [l \in Lane |-> MergedTrack(r, i, l)]]]

Answer(r) ==
  LET sources == {t.source_package_id : t \in TracksOf(MergedReels(r))}
  IN [r.base_graph EXCEPT
        !.resolved_reels   = MergedReels(r),
        !.composition_kind = IF sources \subseteq {r.base_graph.origin_package_id} THEN "ov" ELSE "vf",
        !.source_packages  = {r.base_graph.origin_package_id} \cup sources]

Init ==
  /\ request \in Requests
  /\ answered = FALSE
  /\ graph = None

Publish ==
  /\ ~answered
  /\ Acceptable(request)
  /\ answered' = TRUE
  /\ graph' = Answer(request)
  /\ UNCHANGED request

Reject ==
  /\ ~answered
  /\ ~Acceptable(request)
  /\ answered' = TRUE
  /\ UNCHANGED <<request, graph>>

Next == Publish \/ Reject

Spec == Init /\ [][Next]_vars /\ WF_vars(Next)
=============================================================================
