-------------------------- MODULE PlaybackTimeline --------------------------
(***************************************************************************)
(* timeline::build: one call on a CompositionGraph chosen in Init, which   *)
(* need not come from the resolver. The call validates the header, walks   *)
(* the reels (one step per turn of the loop, which checks the three lanes  *)
(* and either skips the reel or appends an entry), and publishes the       *)
(* timeline when it collected no diagnostic, all of severity error.        *)
(***************************************************************************)
EXTENDS DcpModel, FiniteSets

CONSTANTS
  Graphs,   \* the arguments
  Empty     \* the empty string, which ids and paths may be

TimelineEntry == [entry_index : Nat, reel_id : ReelId, edit_rate : Rate,
                  lanes : [Lane -> Optional(TrackFile)]]

Timeline == [composition_id    : Uuid,
             origin_package_id : PklId,
             composition_kind  : CompositionKind,
             source_packages   : SUBSET PklId,
             reel_entries      : Seq(TimelineEntry),
             lane_summary      : [Lane -> Nat]]

ASSUME GraphsAssumption ==
  /\ Graphs \subseteq CompositionGraph
  /\ Rate \subseteq Nat \X Nat
  /\ None \notin Timeline

VARIABLES
  composition_graph,
  pc,            \* "header", "reels" or "done"
  reel_index,
  entries,
  lane_counts,
  graph_has_external_lane,
  diagnostics,
  playback_timeline

vars == <<composition_graph, pc, reel_index, entries, lane_counts,
          graph_has_external_lane, diagnostics, playback_timeline>>

-----------------------------------------------------------------------------
(* Validation *)

IsPositiveEditRate(rate) == rate[1] > 0 /\ rate[2] > 0

\* A place is a triple: reel (0 for the header), lane and field (or "none").
At(k, lane, field) == <<k, lane, field>>

\* The diagnostic at a place, if its condition is met.
Report(code, where, failed) == IF failed THEN {Diagnostic(code, where)} ELSE {}

UnsupportedShape(where, failed) == Report("timeline.unsupported_graph_shape", where, failed)

ValidateGraphHeader(g) ==
  UnsupportedShape(At(0, "none", "composition_id"), g.composition_id = Empty)
  \cup UnsupportedShape(At(0, "none", "origin_package_id"), g.origin_package_id = Empty)
  \cup UnsupportedShape(At(0, "none", "source_packages"), g.origin_package_id \notin g.source_packages)
  \cup Report("timeline.graph_not_show_ready", At(0, "none", "missing_assets"), g.missing_assets # {})
  \cup Report("timeline.empty_reel_list", At(0, "none", "resolved_reels"), g.resolved_reels = <<>>)

MutValidateLane(g, t, lane, k) ==
  Report("timeline.lane_type_mismatch", At(k, lane, "none"), t.track_type # lane)
  \cup Report("timeline.invalid_edit_rate", At(k, lane, "edit_rate"), ~IsPositiveEditRate(t.edit_rate))
  \cup UnsupportedShape(At(k, lane, "asset_id"), t.asset_id = Empty)
  \cup UnsupportedShape(At(k, lane, "resolved_path"), t.resolved_path = Empty)
  \cup UnsupportedShape(At(k, lane, "source_package_id"),
         t.source_package_id = Empty \/ t.source_package_id \notin g.source_packages)
  \cup UnsupportedShape(At(k, lane, "dependency_kind"),
         t.dependency_kind = "local" /\ t.source_package_id # g.origin_package_id)
  \cup Report("timeline.composition_kind_dependency_mismatch", At(k, lane, "dependency_kind"),
         g.composition_kind = "ov" /\ t.dependency_kind = "external")

ValidateLane(g, t, lane, k) ==
  Report("timeline.lane_type_mismatch", At(k, lane, "none"), t.track_type # lane)
  \cup Report("timeline.invalid_edit_rate", At(k, lane, "edit_rate"), ~IsPositiveEditRate(t.edit_rate))
  \cup UnsupportedShape(At(k, lane, "asset_id"), t.asset_id = Empty)
  \cup UnsupportedShape(At(k, lane, "resolved_path"), t.resolved_path = Empty)
  \cup UnsupportedShape(At(k, lane, "source_package_id"),
         t.source_package_id = Empty \/ t.source_package_id \notin g.source_packages)
  \cup UnsupportedShape(At(k, lane, "dependency_kind"),
         t.dependency_kind = "local" <=> t.source_package_id # g.origin_package_id)
  \cup Report("timeline.composition_kind_dependency_mismatch", At(k, lane, "dependency_kind"),
         g.composition_kind = "ov" /\ t.dependency_kind = "external")

-----------------------------------------------------------------------------
(* The call *)

Reel == composition_graph.resolved_reels[reel_index]

Lanes == Present(Reel.tracks)

EditRates == {Reel.tracks[l].edit_rate : l \in {l \in Lanes : IsPositiveEditRate(Reel.tracks[l].edit_rate)}}

\* What the checks of the lanes and of the reel id report; skipped or not.
LaneDiagnostics ==
  (UNION {ValidateLane(composition_graph, Reel.tracks[l], l, reel_index) : l \in Lanes})
  \cup UnsupportedShape(At(reel_index, "none", "reel_id"), Reel.reel_id = Empty)

HasExternalLane == \E l \in Lanes : Reel.tracks[l].dependency_kind = "external"

Init ==
  /\ composition_graph \in Graphs
  /\ pc = "header"
  /\ reel_index = 1
  /\ entries = <<>>
  /\ lane_counts = [l \in Lane |-> 0]
  /\ graph_has_external_lane = FALSE
  /\ diagnostics = {}
  /\ playback_timeline = None

ValidateHeader ==
  /\ pc = "header"
  /\ diagnostics' = ValidateGraphHeader(composition_graph)
  /\ pc' = "reels"
  /\ UNCHANGED <<composition_graph, reel_index, entries, lane_counts,
                 graph_has_external_lane, playback_timeline>>

ReelTurn ==
  /\ pc = "reels"
  /\ reel_index <= Len(composition_graph.resolved_reels)
  /\ graph_has_external_lane' = (graph_has_external_lane \/ HasExternalLane)
  /\ reel_index' = reel_index + 1
  /\ UNCHANGED <<composition_graph, pc, playback_timeline>>

MutSkipReel ==
  /\ ReelTurn
  /\ EditRates = {} \/ MoreThanOne(EditRates)
  /\ diagnostics' = diagnostics \cup LaneDiagnostics
       \cup UnsupportedShape(At(reel_index, "none", "none"), Lanes = {})
  /\ UNCHANGED <<entries, lane_counts>>

MutCountSkippedReel ==
  /\ ReelTurn
  /\ EditRates = {} \/ MoreThanOne(EditRates)
  /\ lane_counts' = [l \in Lane |-> IF l \in Lanes THEN lane_counts[l] + 1 ELSE lane_counts[l]]
  /\ diagnostics' = diagnostics \cup LaneDiagnostics
       \cup UnsupportedShape(At(reel_index, "none", "none"), Lanes = {})
       \cup Report("timeline.entry_edit_rate_mismatch", At(reel_index, "none", "none"), MoreThanOne(EditRates))
  /\ UNCHANGED entries

\* The early continues: no lane, no valid rate (reported lane by lane), or rates
\* that differ.
SkipReel ==
  /\ ReelTurn
  /\ EditRates = {} \/ MoreThanOne(EditRates)
  /\ diagnostics' = diagnostics \cup LaneDiagnostics
       \cup UnsupportedShape(At(reel_index, "none", "none"), Lanes = {})
       \cup Report("timeline.entry_edit_rate_mismatch", At(reel_index, "none", "none"), MoreThanOne(EditRates))
  /\ UNCHANGED <<entries, lane_counts>>

AppendEntry ==
  /\ ReelTurn
  /\ \E rate \in EditRates :
       /\ EditRates = {rate}
       /\ entries' = Append(entries, [entry_index |-> reel_index - 1, reel_id |-> Reel.reel_id,
                                      edit_rate |-> rate, lanes |-> Reel.tracks])
  /\ lane_counts' = [l \in Lane |-> IF l \in Lanes THEN lane_counts[l] + 1 ELSE lane_counts[l]]
  /\ diagnostics' = diagnostics \cup LaneDiagnostics

Collected ==
  [composition_id    |-> composition_graph.composition_id,
   origin_package_id |-> composition_graph.origin_package_id,
   composition_kind  |-> composition_graph.composition_kind,
   source_packages   |-> composition_graph.source_packages,
   reel_entries      |-> entries,
   lane_summary      |-> lane_counts]

AtCompositionKind == At(0, "none", "composition_kind")

MutFinish ==
  /\ pc = "reels"
  /\ reel_index > Len(composition_graph.resolved_reels)
  /\ diagnostics' = diagnostics \cup
       Report("timeline.composition_kind_dependency_mismatch", AtCompositionKind,
              composition_graph.composition_kind = "vf" /\ ~graph_has_external_lane)
  /\ playback_timeline' = IF diagnostics' = {} THEN Collected ELSE None
  /\ pc' = "done"
  /\ UNCHANGED <<composition_graph, reel_index, entries, lane_counts, graph_has_external_lane>>

\* A VF graph without an external lane is reported only when nothing else is.
Finish ==
  /\ pc = "reels"
  /\ reel_index > Len(composition_graph.resolved_reels)
  /\ diagnostics' = diagnostics \cup
       Report("timeline.composition_kind_dependency_mismatch", AtCompositionKind,
              /\ composition_graph.composition_kind = "vf"
              /\ diagnostics = {}
              /\ composition_graph.resolved_reels # <<>>
              /\ ~graph_has_external_lane)
  /\ playback_timeline' = IF diagnostics' = {} THEN Collected ELSE None
  /\ pc' = "done"
  /\ UNCHANGED <<composition_graph, reel_index, entries, lane_counts, graph_has_external_lane>>

Next == ValidateHeader \/ SkipReel \/ AppendEntry \/ Finish

\* The call is one sequential function: it never waits, so it keeps stepping.
Spec == Init /\ [][Next]_vars /\ WF_vars(Next)

-----------------------------------------------------------------------------
(* Properties *)

\* Every variable keeps its type, and no more entries are built than turns taken.
TypeOK ==
  /\ composition_graph \in CompositionGraph
  /\ pc \in {"header", "reels", "done"}
  /\ reel_index \in 1 .. Len(composition_graph.resolved_reels) + 1
  /\ entries \in Seq(TimelineEntry)
  /\ Len(entries) < reel_index
  /\ lane_counts \in [Lane -> 0 .. Len(entries)]
  /\ graph_has_external_lane \in BOOLEAN
  /\ playback_timeline \in Optional(Timeline)

\* A graph the timeline may be built from: complete, its metadata in agreement
\* with its tracks (it may name sources that no track uses), one rate per reel.
ShowReady(g) ==
  LET tracks == TracksOf(g.resolved_reels) IN
  /\ Empty \notin {g.composition_id, g.origin_package_id}
  /\ g.missing_assets = {}
  /\ g.resolved_reels # <<>>
  /\ MetadataAgrees([g EXCEPT !.source_packages = {g.origin_package_id} \cup {t.source_package_id : t \in tracks}])
  /\ {g.origin_package_id} \cup {t.source_package_id : t \in tracks} \subseteq g.source_packages
  /\ \A t \in tracks : Empty \notin {t.asset_id, t.resolved_path, t.source_package_id}
  /\ \A k \in DOMAIN g.resolved_reels :
       /\ g.resolved_reels[k].reel_id # Empty
       /\ \A l \in Present(g.resolved_reels[k].tracks) : g.resolved_reels[k].tracks[l].track_type = l
       /\ \E rate \in Rate :
            /\ IsPositiveEditRate(rate)
            /\ {g.resolved_reels[k].tracks[l].edit_rate : l \in Present(g.resolved_reels[k].tracks)} = {rate}

\* build publishes a timeline exactly for the show-ready graphs: the diagnostics
\* it collects lane by lane, some of them suppressed by others, decide it.
BuiltIffShowReady == pc = "done" => (playback_timeline # None <=> ShowReady(composition_graph))

\* A published timeline is the whole graph: although the loop skips reels, no
\* entry is missing or moved, and the lane summary counts the lanes.
TimelineIsTheGraph ==
  playback_timeline # None =>
    LET reels  == composition_graph.resolved_reels
        listed == playback_timeline.reel_entries
    IN /\ Len(listed) = Len(reels)
       /\ \A k \in DOMAIN reels : /\ listed[k].entry_index = k - 1
                                  /\ listed[k].reel_id = reels[k].reel_id
                                  /\ listed[k].lanes = reels[k].tracks
       /\ \A l \in Lane : playback_timeline.lane_summary[l] =
                           Cardinality({k \in DOMAIN reels : reels[k].tracks[l] # None})

\* docs/IMPLEMENT.md, precedence: a reel whose rates are invalid is not reported
\* as shapeless on top, and the kind of the composition is reported alone.
SpecificDiagnosticWins ==
  \A d \in diagnostics :
    /\ d.where = AtCompositionKind => diagnostics = {d}
    /\ \A k \in DOMAIN composition_graph.resolved_reels :
         d = Diagnostic("timeline.unsupported_graph_shape", At(k, "none", "none")) =>
           Present(composition_graph.resolved_reels[k].tracks) = {}
=============================================================================
