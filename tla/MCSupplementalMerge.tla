------------------------ MODULE MCSupplementalMerge -------------------------
(***************************************************************************)
(* Requests for SupplementalMerge: a base graph that is OV or already has  *)
(* an external lane, two supplemental packages that may bring the same     *)
(* asset id, and one or two policies in both orders, among them the same   *)
(* composition twice and the policies that are refused.                    *)
(***************************************************************************)
EXTENDS SupplementalMerge

CONSTANTS ov, supp1, supp2, a1, a2, x, p1, p2, p3, r1, r2, path, film, fast

MCUuid == {ov, supp1, supp2, a1, a2, x}
MCPklId == {p1, p2, p3}
MCReelId == {r1, r2}
MCRate == {film, fast}
MCPath == {path}
MCPolicyId == {1, 2}
MCUuidRank == [u \in MCUuid |-> CASE u = ov -> 1 [] u = supp1 -> 2 [] u = supp2 -> 3
                                  [] u = a1 -> 4 [] u = a2 -> 5 [] u = x -> 6]

Ref(a, rate) == [asset_id |-> a, edit_rate |-> rate]

Lanes(picture, sound, subtitle) ==
  [l \in Lane |-> CASE l = "picture" -> picture [] l = "sound" -> sound [] l = "subtitle" -> subtitle]

BaseTrack(a, lane, package, kind) ==
  [asset_id |-> a, track_type |-> lane, edit_rate |-> film, resolved_path |-> path,
   source_package_id |-> package, dependency_kind |-> kind]

BaseGraph(kind, sources, sound) ==
  [composition_id |-> ov, origin_package_id |-> p1, composition_kind |-> kind,
   source_packages |-> sources, missing_assets |-> {},
   resolved_reels |->
     <<[reel_id |-> r1, tracks |-> Lanes(BaseTrack(a1, "picture", p1, "local"), sound, None)]>>]

BaseGraphs ==
  {BaseGraph("ov", {p1}, BaseTrack(a2, "sound", p1, "local")),
   BaseGraph("vf", {p1, p3}, BaseTrack(a2, "sound", p3, "external"))}

Reel(id, refs) == [reel_id |-> id, refs |-> refs]

\* Replaces the picture; repeats it (rightly or at another rate) and replaces
\* the sound; adds a lane; names an unknown reel.
FirstSupplemental ==
  {<<Reel(r1, Lanes(Ref(x, film), None, None))>>,
   <<Reel(r1, Lanes(Ref(a1, film), Ref(x, film), None))>>,
   <<Reel(r1, Lanes(Ref(a1, fast), None, None))>>,
   <<Reel(r1, Lanes(None, Ref(x, fast), None))>>,
   <<Reel(r1, Lanes(None, None, Ref(x, film)))>>,
   <<Reel(r2, Lanes(Ref(x, film), None, None)), Reel(r1, Lanes(Ref(x, film), None, None))>>}

SecondSupplemental ==
  {<<Reel(r1, Lanes(Ref(x, film), None, None))>>,
   <<Reel(r1, Lanes(None, Ref(x, film), None))>>}

MakePackage(id, cpl, owned, reels, asset) ==
  [pkl_id  |-> id,
   pkl     |-> [u \in Uuid |-> CASE u = cpl /\ owned # "absent" -> "composition_playlist"
                                 [] u = x /\ asset # "absent" -> "track_file"
                                 [] OTHER -> None],
   backing |-> [u \in Uuid |-> IF (u = cpl /\ owned = "backed") \/ (u = x /\ asset = "backed")
                               THEN path ELSE None],
   cpls    |-> [u \in Uuid |-> IF u = cpl /\ owned # "absent" THEN reels ELSE None]]

MakePolicy(id, b, s, allowed) ==
  [policy_id |-> id, base_composition_id |-> b, supplemental_composition_id |-> s,
   merge_mode |-> "replace_lane", allowed_overrides |-> allowed]

Both == <<"picture", "sound">>
Good1 == MakePolicy(1, ov, supp1, Both)
Good2 == MakePolicy(2, ov, supp2, Both)

MCPolicies ==
  {<<>>, <<Good1>>, <<Good1, Good2>>, <<Good2, Good1>>, <<Good1, Good1>>,
   <<Good1, MakePolicy(1, ov, supp1, <<"picture">>)>>,
   <<MakePolicy(1, ov, supp1, <<"picture">>)>>,
   <<MakePolicy(1, ov, supp1, <<"sound">>), Good2>>,
   <<Good2, MakePolicy(1, ov, supp1, <<"sound", "invalid", "sound">>)>>,
   <<MakePolicy(2, ov, supp1, Both), MakePolicy(1, ov, supp1, <<"subtitle">>)>>,
   <<Good1, MakePolicy(1, supp1, supp2, Both)>>,
   <<[Good1 EXCEPT !.merge_mode = "unsupported"]>>}

MCRequests ==
  {[base_graph |-> g,
    packages   |-> <<MakePackage(p1, supp1, own[1], first, "absent"),
                     MakePackage(p2, supp1, own[2], first, asset2),
                     MakePackage(p3, supp2, "backed", second, asset3)>>,
    policies   |-> ps] :
     g \in BaseGraphs, first \in FirstSupplemental, second \in SecondSupplemental,
     own \in {<<"absent", "backed">>, <<"backed", "backed">>, <<"unbacked", "unbacked">>},
     asset2 \in {"absent", "unbacked", "backed"}, asset3 \in {"absent", "backed"},
     ps \in MCPolicies}
=============================================================================
