-------------------------- MODULE MCRepeatedMerge ---------------------------
(***************************************************************************)
(* Requests for RepeatedMerge: pairs of policies, which may have the same  *)
(* sort key, over one base reel and one supplemental package.              *)
(***************************************************************************)
EXTENDS RepeatedMerge

CONSTANTS ov, supp, a1, p1, p2, r1, path, film

MCUuid == {ov, supp, a1}
MCUuidRank == [u \in MCUuid |-> CASE u = ov -> 1 [] u = supp -> 2 [] u = a1 -> 3]
MCPolicyId == {1, 2}

BaseTrack ==
  [asset_id |-> a1, track_type |-> "picture", edit_rate |-> film, resolved_path |-> path,
   source_package_id |-> p1, dependency_kind |-> "local"]

BaseGraph ==
  [composition_id |-> ov, origin_package_id |-> p1, composition_kind |-> "ov",
   source_packages |-> {p1}, missing_assets |-> {},
   resolved_reels |->
     <<[reel_id |-> r1, tracks |-> [l \in Lane |-> IF l = "picture" THEN BaseTrack ELSE None]]>>]

Supplemental ==
  [pkl_id  |-> p2,
   pkl     |-> [u \in Uuid |-> CASE u = supp -> "composition_playlist" [] u = a1 -> "track_file" [] u = ov -> None],
   backing |-> [u \in Uuid |-> IF u = ov THEN None ELSE path],
   cpls    |-> [u \in Uuid |->
                  IF u = supp
                  THEN <<[reel_id |-> r1,
                          refs |-> [l \in Lane |-> IF l = "picture" THEN [asset_id |-> a1, edit_rate |-> film]
                                                   ELSE None]]>>
                  ELSE None]]

Policies ==
  {[policy_id |-> id, base_composition_id |-> b, supplemental_composition_id |-> supp,
    merge_mode |-> "replace_lane", allowed_overrides |-> allowed] :
     id \in PolicyId, b \in {ov, supp},
     allowed \in {<<"picture">>, <<"picture", "picture">>, <<"invalid">>}}

MCRequests ==
  {[base_graph |-> BaseGraph, packages |-> <<Supplemental>>, policies |-> <<p, q>>] : p, q \in Policies}
=============================================================================
