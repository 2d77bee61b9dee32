------------------------ MODULE MCPlaybackTimeline --------------------------
(***************************************************************************)
(* Graphs for PlaybackTimeline: every kind of picture track the checks     *)
(* tell apart (one field wrong at a time), beside a second lane and a      *)
(* second reel that may disagree with it, under every header.              *)
(***************************************************************************)
EXTENDS PlaybackTimeline

CONSTANTS cpl, a1, p1, p2, r1, r2, path

MCUuid == {cpl, a1, Empty}
MCPklId == {p1, p2, Empty}
MCReelId == {r1, r2, Empty}
MCPath == {path, Empty}
Film == <<24, 1>>
Fast == <<48, 1>>
MCRate == {Film, Fast, <<0, 1>>, <<24, 0>>}

Local(lane) == [asset_id |-> a1, track_type |-> lane, edit_rate |-> Film, resolved_path |-> path,
                source_package_id |-> p1, dependency_kind |-> "local"]

External(lane) == [Local(lane) EXCEPT !.source_package_id = p2, !.dependency_kind = "external"]

Pictures ==
  LET t == Local("picture") IN
  {None, t, External("picture"), Local("sound"),
   [t EXCEPT !.edit_rate = Fast], [t EXCEPT !.edit_rate = <<0, 1>>], [t EXCEPT !.edit_rate = <<24, 0>>],
   [t EXCEPT !.asset_id = Empty], [t EXCEPT !.resolved_path = Empty],
   [t EXCEPT !.source_package_id = Empty], [t EXCEPT !.source_package_id = p2],
   [t EXCEPT !.dependency_kind = "external"]}

Sounds == {None, Local("sound"), External("sound"), [Local("sound") EXCEPT !.edit_rate = <<0, 1>>]}

Reel1(picture, sound) ==
  [reel_id |-> r1, tracks |-> [l \in Lane |-> CASE l = "picture" -> picture [] l = "sound" -> sound
                                                [] l = "subtitle" -> None]]

Reel2(id, subtitle) ==
  [reel_id |-> id, tracks |-> [l \in Lane |-> IF l = "subtitle" THEN subtitle ELSE None]]

ReelLists ==
  {<<>>} \cup
  {<<Reel1(p, s)>> \o rest : p \in Pictures, s \in Sounds,
     rest \in {<<>>, <<Reel2(r2, External("subtitle"))>>, <<Reel2(r2, [Local("subtitle") EXCEPT !.edit_rate = Fast])>>,
               <<Reel2(r2, None)>>, <<Reel2(Empty, Local("subtitle"))>>}}

Headers == {<<cpl, p1>>, <<Empty, p1>>, <<cpl, Empty>>}

MCGraphs ==
  {[composition_id |-> h[1], origin_package_id |-> h[2], composition_kind |-> kind,
    source_packages |-> sources, resolved_reels |-> reels, missing_assets |-> missing] :
     h \in Headers, kind \in CompositionKind, sources \in {{}, {p1}, {p1, p2}, {p2, Empty}},
     missing \in {{}, {a1}}, reels \in ReelLists}
=============================================================================
