----------------------- MODULE CompositionResolution ------------------------
(***************************************************************************)
(* What OV/VF resolution promises: one answer per request, in one step. A  *)
(* graph is published exactly when the composition has one owner and each  *)
(* of its references has one provider. The answer is stated over the       *)
(* packages without any order of theirs, and without the flags and sets    *)
(* the resolver accumulates.                                               *)
(***************************************************************************)
EXTENDS DcpModel

CONSTANT Requests

VARIABLES request, answered, graph

vars == <<request, answered, graph>>

\* A provider of an asset has it backed as a track file; a package other than
\* the owner may provide it only if the owner does not list the asset at all.
Providers(packages, o, asset_id) ==
  {i \in DOMAIN packages :
     /\ Backed(packages[i], asset_id, "track_file")
     /\ \/ i = o
        \/ /\ packages[o].pkl[asset_id] = None
           /\ packages[i].pkl_id # packages[o].pkl_id}

IsSole(i, S) == S = {i}

Owner(r) == CHOOSE o \in DOMAIN r.packages : IsSole(o, OwnerCandidates(r.packages, r.composition_id))

OwnerReels(r) == r.packages[Owner(r)].cpls[r.composition_id]

ProviderOf(r, asset_id) ==
  CHOOSE i \in DOMAIN r.packages : IsSole(i, Providers(r.packages, Owner(r), asset_id))

Resolvable(r) ==
  /\ \E o \in DOMAIN r.packages : IsSole(o, OwnerCandidates(r.packages, r.composition_id))
  /\ \A k \in DOMAIN OwnerReels(r) : \A l \in Present(OwnerReels(r)[k].refs) :
        \E i \in DOMAIN r.packages :
           IsSole(i, Providers(r.packages, Owner(r), OwnerReels(r)[k].refs[l].asset_id))

ResolvedReel(r, k) ==
  LET refs == OwnerReels(r)[k].refs
  IN [reel_id |-> OwnerReels(r)[k].reel_id,
      tracks  |-> [l \in Lane |->
                     IF refs[l] = None THEN None
                     ELSE BuildTrackFile(l, refs[l], r.packages[ProviderOf(r, refs[l].asset_id)],
                                         r.packages[Owner(r)].pkl_id)]]

ResolvedReels(r) == [k \in 1 .. Len(OwnerReels(r)) |-> ResolvedReel(r, k)]

Answer(r) ==
  LET tracks == TracksOf(ResolvedReels(r))
      origin == r.packages[Owner(r)].pkl_id
  IN [composition_id    |-> r.composition_id,
      origin_package_id |-> origin,
      composition_kind  |-> IF \A t \in tracks : t.source_package_id = origin THEN "ov" ELSE "vf",
      source_packages   |-> {origin} \cup {t.source_package_id : t \in tracks},
      resolved_reels    |-> ResolvedReels(r),
      missing_assets    |-> {}]

Init ==
  /\ request \in Requests
  /\ answered = FALSE
  /\ graph = None

Publish ==
  /\ ~answered
  /\ Resolvable(request)
  /\ answered' = TRUE
  /\ graph' = Answer(request)
  /\ UNCHANGED request

Reject ==
  /\ ~answered
  /\ ~Resolvable(request)
  /\ answered' = TRUE
  /\ UNCHANGED <<request, graph>>

Next == Publish \/ Reject

Safety == Init /\ [][Next]_vars

Spec == Safety /\ WF_vars(Next)
=============================================================================
