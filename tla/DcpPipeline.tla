---------------------------- MODULE DcpPipeline -----------------------------
(***************************************************************************)
(* The composition pipeline, as its callers run it: resolve a composition, *)
(* stop if no graph was published, apply the supplemental policies if the  *)
(* show has any, stop again if that was refused, and build the timeline    *)
(* from the last graph. The three calls are the components OvVfResolver,   *)
(* SupplementalMerge and PlaybackTimeline; this module hands the output of *)
(* one to the input of the next and states what holds from end to end.     *)
(***************************************************************************)
EXTENDS DcpModel

CONSTANTS
  Shows,                \* what is to be played, see Show
  Empty, UuidRank, PolicyId

VARIABLES
  show, stage,
  \* resolve
  r_request, r_pc, origin, resolved_reels, source_packages, missing_assets,
  uses_external_dependency, has_broken_dependency, r_diagnostics, r_graph,
  \* apply
  m_request, m_pc, policies, policy_index, owner, m_reel_index,
  override_decisions, m_diagnostics, m_graph,
  \* build
  composition_graph, t_pc, t_reel_index, entries, lane_counts,
  graph_has_external_lane, t_diagnostics, playback_timeline

Resolver == INSTANCE OvVfResolver WITH
  Requests <- {}, request <- r_request, pc <- r_pc, diagnostics <- r_diagnostics, graph <- r_graph

Merge == INSTANCE SupplementalMerge WITH
  Requests <- {}, request <- m_request, pc <- m_pc, reel_index <- m_reel_index,
  diagnostics <- m_diagnostics, graph <- m_graph

Timeline == INSTANCE PlaybackTimeline WITH
  Graphs <- {}, pc <- t_pc, reel_index <- t_reel_index, diagnostics <- t_diagnostics

\* The packages may differ between the calls: a supplemental package is often
\* only loaded for the merge.
Show == [composition_id : Uuid,
         packages       : Seq(Package),
         merge_packages : Seq(Package),
         policies       : Seq(Merge!MergePolicy)]

\* What the parser of a CPL lets through: it has reels, and each of them a lane.
HasLanes(package) ==
  \A id \in Uuid : package.cpls[id] # None =>
    /\ package.cpls[id] # <<>>
    /\ \A k \in DOMAIN package.cpls[id] : Present(package.cpls[id][k].refs) # {}

ASSUME ShowsAssumption ==
  /\ Shows \subseteq Show
  /\ \A s \in Shows : \A i \in DOMAIN s.packages : HasLanes(s.packages[i])

\* Parsed ids and paths are not empty and parsed rates are positive.
ASSUME ParsersAssumption ==
  /\ Empty \notin Uuid \cup PklId \cup ReelId \cup Path
  /\ Rate \subseteq (Nat \ {0}) \X (Nat \ {0})

\* The assumptions of the components, which are instantiated without arguments.
ASSUME StagesAssumption ==
  /\ PolicyId \subseteq Nat
  /\ UuidRank \in [Uuid -> Nat]
  /\ \A u, v \in Uuid : UuidRank[u] = UuidRank[v] => u = v
  /\ None \notin Timeline!Timeline

resolver_vars == <<r_request, r_pc, origin, resolved_reels, source_packages, missing_assets,
                   uses_external_dependency, has_broken_dependency, r_diagnostics, r_graph>>

merge_vars == <<m_request, m_pc, policies, policy_index, owner, m_reel_index,
                override_decisions, m_diagnostics, m_graph>>

timeline_vars == <<composition_graph, t_pc, t_reel_index, entries, lane_counts,
                   graph_has_external_lane, t_diagnostics, playback_timeline>>

vars == <<show, stage, resolver_vars, merge_vars, timeline_vars>>

-----------------------------------------------------------------------------

\* The call of resolve, with the packages that the show has by then.
Start ==
  /\ stage = "resolve"
  /\ r_request = [composition_id |-> show.composition_id, packages |-> show.packages]
  /\ r_pc = "find_owner" /\ origin = 0 /\ resolved_reels = <<>> /\ source_packages = {}
  /\ missing_assets = {} /\ uses_external_dependency = FALSE /\ has_broken_dependency = FALSE
  /\ r_diagnostics = {} /\ r_graph = None
  /\ m_request = None /\ m_pc = "idle" /\ policies = <<>> /\ policy_index = 1 /\ owner = 0
  /\ m_reel_index = 1 /\ override_decisions = <<>> /\ m_diagnostics = {} /\ m_graph = None
  /\ composition_graph = None /\ t_pc = "idle" /\ t_reel_index = 1 /\ entries = <<>>
  /\ lane_counts = [l \in Lane |-> 0] /\ graph_has_external_lane = FALSE
  /\ t_diagnostics = {} /\ playback_timeline = None

Init == show \in Shows /\ Start

Resolve ==
  /\ stage = "resolve"
  /\ Resolver!Next
  /\ UNCHANGED <<show, stage, merge_vars, timeline_vars>>

Unresolved ==
  /\ stage = "resolve" /\ r_pc = "done" /\ r_graph = None
  /\ stage' = "rejected"
  /\ UNCHANGED <<show, resolver_vars, merge_vars, timeline_vars>>

CallApply ==
  /\ stage = "resolve" /\ r_pc = "done" /\ r_graph # None
  /\ show.policies # <<>>
  /\ stage' = "merge"
  /\ m_request' = [base_graph |-> r_graph, packages |-> show.merge_packages, policies |-> show.policies]
  /\ m_pc' = "sort"
  /\ override_decisions' = [key \in (DOMAIN r_graph.resolved_reels) \X Lane |-> None]
  /\ UNCHANGED <<show, policies, policy_index, owner, m_reel_index, m_diagnostics, m_graph,
                 resolver_vars, timeline_vars>>

Apply ==
  /\ stage = "merge"
  /\ Merge!Next
  /\ UNCHANGED <<show, stage, resolver_vars, timeline_vars>>

Unmerged ==
  /\ stage = "merge" /\ m_pc = "done" /\ m_graph = None
  /\ stage' = "rejected"
  /\ UNCHANGED <<show, resolver_vars, merge_vars, timeline_vars>>

StartTimeline(graph) ==
  /\ stage' = "timeline"
  /\ composition_graph' = graph
  /\ t_pc' = "header"
  /\ UNCHANGED <<show, t_reel_index, entries, lane_counts, graph_has_external_lane, t_diagnostics,
                 playback_timeline, resolver_vars, merge_vars>>

MutCallBuild ==
  \/ /\ stage = "resolve" /\ r_pc = "done" /\ r_graph # None /\ show.policies = <<>>
     /\ StartTimeline(r_graph)
  \/ /\ stage = "merge" /\ m_pc = "done"
     /\ StartTimeline(m_graph)

CallBuild ==
  \/ /\ stage = "resolve" /\ r_pc = "done" /\ r_graph # None /\ show.policies = <<>>
     /\ StartTimeline(r_graph)
  \/ /\ stage = "merge" /\ m_pc = "done" /\ m_graph # None
     /\ StartTimeline(m_graph)

Build ==
  /\ stage = "timeline"
  /\ Timeline!Next
  /\ UNCHANGED <<show, stage, resolver_vars, merge_vars>>

Built ==
  /\ stage = "timeline" /\ t_pc = "done"
  /\ stage' = "built"
  /\ UNCHANGED <<show, resolver_vars, merge_vars, timeline_vars>>

Next == Resolve \/ Unresolved \/ CallApply \/ Apply \/ Unmerged \/ CallBuild \/ Build \/ Built

\* One caller runs the calls in sequence and none of them waits.
Spec == Init /\ [][Next]_vars /\ WF_vars(Next)

-----------------------------------------------------------------------------
(* Properties *)

\* Each graph that the pipeline passes on is typed, and each stage begins only
\* when the one before it published. The compositions to be resolved have lanes,
\* also those of packages that are read from documents.
TypeOK ==
  /\ show \in Show
  /\ \A i \in DOMAIN show.packages : HasLanes(show.packages[i])
  /\ stage \in {"resolve", "merge", "timeline", "built", "rejected"}
  /\ r_graph \in Optional(CompositionGraph)
  /\ m_graph \in Optional(CompositionGraph)
  /\ stage = "merge" => r_graph # None
  /\ stage \in {"timeline", "built"} => composition_graph \in CompositionGraph

\* What resolve or apply publishes is show-ready for build: the only fault that
\* build can find in it is a reel whose lanes run at different rates, which
\* neither of the earlier stages looks at.
OnlyRatesFailTheTimeline ==
  /\ \A d \in t_diagnostics : d.code = "timeline.entry_edit_rate_mismatch"
  /\ stage = "built" => (playback_timeline = None <=> t_diagnostics # {})

\* Every lane that reaches the timeline can be played from a package that the
\* caller gave, under the id and path that the timeline names, and is marked
\* local exactly when that package is the origin of the base composition.
TimelineLanesAreBacked ==
  playback_timeline # None =>
    \A k \in DOMAIN playback_timeline.reel_entries :
      LET lanes == playback_timeline.reel_entries[k].lanes IN
      \A l \in Present(lanes) :
        \E packages \in {show.packages, show.merge_packages} : \E i \in DOMAIN packages :
          /\ packages[i].pkl_id = lanes[l].source_package_id
          /\ Backed(packages[i], lanes[l].asset_id, "track_file")
          /\ packages[i].backing[lanes[l].asset_id] = lanes[l].resolved_path
          /\ lanes[l].dependency_kind = "local" <=> packages[i].pkl_id = Resolver!OriginId

\* A supplemental changes lanes, never the structure: the timeline has the reels
\* of the composition in the order of its CPL, with the same lanes in each.
TimelineFollowsTheCpl ==
  playback_timeline # None =>
    LET reels == Resolver!CompositionReels
        listed == playback_timeline.reel_entries
    IN /\ Len(listed) = Len(reels)
       /\ \A k \in DOMAIN reels : /\ listed[k].reel_id = reels[k].reel_id
                                  /\ Present(listed[k].lanes) = Present(reels[k].refs)
=============================================================================
