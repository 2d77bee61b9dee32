----------------------- MODULE PlaybackTimeline_proofs -----------------------
(***************************************************************************)
(* Proofs about PlaybackTimeline, for every set of graphs. The inductive   *)
(* invariant says what the loop has collected as a function of the graph   *)
(* and of the reels behind it.                                             *)
(***************************************************************************)
EXTENDS PlaybackTimeline, FiniteSetTheorems, TLAPS

-----------------------------------------------------------------------------
(* What a turn of the loop collects from reel k of graph g *)

TracksAt(g, k) == g.resolved_reels[k].tracks

RatesAt(g, k) ==
  {TracksAt(g, k)[l].edit_rate :
     l \in {l \in Present(TracksAt(g, k)) : IsPositiveEditRate(TracksAt(g, k)[l].edit_rate)}}

Kept(g, k) == \E rate \in RatesAt(g, k) : RatesAt(g, k) = {rate}

HasExternalAt(g, k) == \E l \in Present(TracksAt(g, k)) : TracksAt(g, k)[l].dependency_kind = "external"

LaneDiagnosticsAt(g, k) ==
  (UNION {ValidateLane(g, TracksAt(g, k)[l], l, k) : l \in Present(TracksAt(g, k))})
  \cup UnsupportedShape(At(k, "none", "reel_id"), g.resolved_reels[k].reel_id = Empty)

ReelDiagnostics(g, k) ==
  LaneDiagnosticsAt(g, k)
  \cup UnsupportedShape(At(k, "none", "none"), Present(TracksAt(g, k)) = {})
  \cup Report("timeline.entry_edit_rate_mismatch", At(k, "none", "none"), MoreThanOne(RatesAt(g, k)))

Behind(n) == 1 .. n - 1

\* Everything reported before the kind of the composition is compared, when the
\* reels behind n are checked.
Reported(g, n) == ValidateGraphHeader(g) \cup UNION {ReelDiagnostics(g, k) : k \in Behind(n)}

LanesBehind(g, l, n) == {k \in Behind(n) : TracksAt(g, k)[l] # None}

\* The entries and the counts follow the reels as long as none was skipped.
EntriesFollow(g) ==
  (\A k \in Behind(reel_index) : Kept(g, k)) =>
    /\ Len(entries) = reel_index - 1
    /\ \A k \in Behind(reel_index) : /\ entries[k].entry_index = k - 1
                                     /\ entries[k].reel_id = g.resolved_reels[k].reel_id
                                     /\ entries[k].lanes = TracksAt(g, k)
    /\ \A l \in Lane : lane_counts[l] = Cardinality(LanesBehind(g, l, reel_index))

KindMismatch(g) ==
  Report("timeline.composition_kind_dependency_mismatch", AtCompositionKind,
         /\ g.composition_kind = "vf"
         /\ Reported(g, Len(g.resolved_reels) + 1) = {}
         /\ g.resolved_reels # <<>>
         /\ ~\E k \in DOMAIN g.resolved_reels : HasExternalAt(g, k))

TurnsAreDetermined ==
  LET g == composition_graph IN
  /\ graph_has_external_lane <=> \E k \in Behind(reel_index) : HasExternalAt(g, k)
  /\ EntriesFollow(g)
  /\ pc = "header" => reel_index = 1 /\ diagnostics = {}
  /\ pc = "reels" => diagnostics = Reported(g, reel_index)
  /\ pc # "done" => playback_timeline = None
  /\ pc = "done" => /\ reel_index = Len(g.resolved_reels) + 1
                    /\ diagnostics = Reported(g, reel_index) \cup KindMismatch(g)
                    /\ playback_timeline = IF diagnostics = {} THEN Collected ELSE None

-----------------------------------------------------------------------------
(* Types of what a turn reads *)

LEMMA ReelAtFacts ==
  ASSUME NEW g \in CompositionGraph, NEW k \in DOMAIN g.resolved_reels
  PROVE  /\ g.resolved_reels[k].reel_id \in ReelId
         /\ TracksAt(g, k) \in [Lane -> Optional(TrackFile)]
         /\ Present(TracksAt(g, k)) \subseteq Lane
         /\ \A l \in Present(TracksAt(g, k)) : TracksAt(g, k)[l] \in TrackFile
         /\ RatesAt(g, k) \subseteq Rate
         /\ \A rate \in RatesAt(g, k) : IsPositiveEditRate(rate)
  <1>1. g.resolved_reels[k] \in GraphReel
    BY DEF CompositionGraph
  <1>2. g.resolved_reels[k].reel_id \in ReelId /\ TracksAt(g, k) \in [Lane -> Optional(TrackFile)]
    BY <1>1 DEF GraphReel, TracksAt
  <1>3. /\ Present(TracksAt(g, k)) \subseteq Lane
        /\ \A l \in Present(TracksAt(g, k)) : TracksAt(g, k)[l] \in TrackFile
    BY <1>2 DEF Present, Optional
  <1>4. /\ RatesAt(g, k) \subseteq Rate
        /\ \A rate \in RatesAt(g, k) : IsPositiveEditRate(rate)
    BY <1>3 DEF RatesAt, TrackFile
  <1> QED BY <1>2, <1>3, <1>4

LEMMA OneOrNot ==
  ASSUME NEW S
  PROVE  (\E x \in S : S = {x}) <=> ~(S = {} \/ MoreThanOne(S))
  BY Zenon DEF MoreThanOne

LEMMA RatesNeedLanes ==
  ASSUME NEW g, NEW k, Kept(g, k)
  PROVE  Present(TracksAt(g, k)) # {} /\ ~MoreThanOne(RatesAt(g, k))
  BY OneOrNot DEF Kept, RatesAt

\* What every turn does, whether it skips the reel or keeps it.
LEMMA Turn ==
  ASSUME TypeOK, SkipReel \/ AppendEntry
  PROVE  /\ pc = "reels"
         /\ reel_index \in DOMAIN composition_graph.resolved_reels
         /\ reel_index' = reel_index + 1
         /\ UNCHANGED <<composition_graph, pc, playback_timeline>>
         /\ graph_has_external_lane' =
              (graph_has_external_lane \/ HasExternalAt(composition_graph, reel_index))
         /\ diagnostics' = diagnostics \cup ReelDiagnostics(composition_graph, reel_index)
         /\ SkipReel <=> ~Kept(composition_graph, reel_index)
  <1> DEFINE g == composition_graph
             k == reel_index
  <1>1. /\ EditRates = RatesAt(g, k) /\ Lanes = Present(TracksAt(g, k))
        /\ HasExternalLane = HasExternalAt(g, k)
    BY DEF EditRates, Lanes, Reel, RatesAt, TracksAt, HasExternalLane, HasExternalAt
  <1>2. ReelDiagnostics(g, k) = LaneDiagnostics
          \cup UnsupportedShape(At(k, "none", "none"), Lanes = {})
          \cup Report("timeline.entry_edit_rate_mismatch", At(k, "none", "none"), MoreThanOne(EditRates))
    <2>1. LaneDiagnostics = LaneDiagnosticsAt(g, k)
      BY DEF LaneDiagnostics, LaneDiagnosticsAt, Lanes, Reel, TracksAt
    <2> QED BY <1>1, <2>1 DEF ReelDiagnostics
  <1>3. k \in DOMAIN g.resolved_reels /\ ReelTurn
    <2>1. ReelTurn
      BY DEF SkipReel, AppendEntry
    <2>2. g.resolved_reels \in Seq(GraphReel) /\ k \in Nat \ {0} /\ k <= Len(g.resolved_reels)
      BY <2>1 DEF TypeOK, CompositionGraph, ReelTurn
    <2> QED BY <2>1, <2>2
  <1>4. SkipReel => ~Kept(g, k)
    BY <1>1, OneOrNot DEF SkipReel, Kept
  <1>5. AppendEntry => Kept(g, k)
    BY <1>1 DEF AppendEntry, Kept
  <1>6. CASE SkipReel
    BY <1>1, <1>2, <1>3, <1>4, <1>6 DEF SkipReel, ReelTurn
  <1>7. CASE AppendEntry
    <2>1. Lanes # {} /\ ~MoreThanOne(EditRates)
      BY <1>1, <1>5, <1>7, RatesNeedLanes
    <2>2. ReelDiagnostics(g, k) = LaneDiagnostics
      BY <1>2, <2>1 DEF UnsupportedShape, Report
    <2> QED BY <1>1, <1>3, <1>4, <1>5, <1>7, <2>2 DEF AppendEntry, ReelTurn
  <1> QED BY <1>6, <1>7

-----------------------------------------------------------------------------
(* Type correctness *)

LEMMA EntryType ==
  ASSUME TypeOK, AppendEntry
  PROVE  /\ entries' \in Seq(TimelineEntry) /\ Len(entries') = Len(entries) + 1
         /\ \A j \in DOMAIN entries : entries'[j] = entries[j]
         /\ entries'[Len(entries')].entry_index = reel_index - 1
         /\ entries'[Len(entries')].reel_id = Reel.reel_id
         /\ entries'[Len(entries')].lanes = Reel.tracks
  <1>1. PICK rate \in EditRates :
          entries' = Append(entries, [entry_index |-> reel_index - 1, reel_id |-> Reel.reel_id,
                                      edit_rate |-> rate, lanes |-> Reel.tracks])
    BY DEF AppendEntry
  <1> DEFINE entry == [entry_index |-> reel_index - 1, reel_id |-> Reel.reel_id,
                       edit_rate |-> rate, lanes |-> Reel.tracks]
  <1>2. /\ Reel.reel_id \in ReelId /\ Reel.tracks \in [Lane -> Optional(TrackFile)]
        /\ EditRates \subseteq Rate
    BY Turn, ReelAtFacts DEF TypeOK, Reel, Lanes, EditRates, TracksAt, RatesAt
  <1>3. reel_index - 1 \in Nat
    BY DEF TypeOK
  <1>4. entry \in TimelineEntry
    BY <1>2, <1>3 DEF TimelineEntry
  <1>5. entries \in Seq(TimelineEntry)
    BY DEF TypeOK
  <1>6. /\ entry.entry_index = reel_index - 1
        /\ entry.reel_id = Reel.reel_id
        /\ entry.lanes = Reel.tracks
    OBVIOUS
  <1> HIDE DEF entry
  <1>7. entries' = Append(entries, entry)
    BY <1>1 DEF entry
  <1> QED BY <1>4, <1>5, <1>6, <1>7

LEMMA CollectedType ==
  ASSUME TypeOK
  PROVE  Collected \in Timeline /\ Collected # None
  <1>1. lane_counts \in [Lane -> Nat]
    BY DEF TypeOK
  <1>2. Collected \in Timeline
    BY <1>1 DEF TypeOK, Collected, CompositionGraph, Timeline
  <1> QED BY <1>2, GraphsAssumption

LEMMA InitTyped == Init => TypeOK
  <1> SUFFICES ASSUME Init PROVE TypeOK
    OBVIOUS
  <1>1. composition_graph \in CompositionGraph
    BY GraphsAssumption DEF Init
  <1>2. reel_index \in 1 .. Len(composition_graph.resolved_reels) + 1
    BY <1>1 DEF Init, CompositionGraph
  <1>3. entries \in Seq(TimelineEntry) /\ Len(entries) = 0 /\ Len(entries) < reel_index
    BY DEF Init
  <1>4. lane_counts \in [Lane -> 0 .. Len(entries)]
    BY <1>3 DEF Init
  <1> QED BY <1>1, <1>2, <1>3, <1>4 DEF Init, TypeOK, Optional

LEMMA StepTyped == TypeOK /\ [Next]_vars => TypeOK'
  <1> SUFFICES ASSUME TypeOK, [Next]_vars PROVE TypeOK'
    OBVIOUS
  <1>1. CASE ValidateHeader
    BY <1>1 DEF ValidateHeader, TypeOK
  <1>2. CASE SkipReel
    <2>1. reel_index' \in 1 .. Len(composition_graph.resolved_reels) + 1 /\ reel_index < reel_index'
      BY <1>2, Turn DEF TypeOK, CompositionGraph
    <2>2. graph_has_external_lane' \in BOOLEAN
      BY <1>2 DEF SkipReel, ReelTurn
    <2>3. entries' = entries /\ lane_counts' = lane_counts
      BY <1>2 DEF SkipReel
    <2>4. Len(entries') < reel_index'
      BY <2>1, <2>3 DEF TypeOK
    <2> QED BY <1>2, <2>1, <2>2, <2>3, <2>4, Turn DEF TypeOK
  <1>3. CASE AppendEntry
    <2>1. reel_index' \in 1 .. Len(composition_graph.resolved_reels) + 1 /\ reel_index' = reel_index + 1
      BY <1>3, Turn DEF TypeOK, CompositionGraph
    <2>2. graph_has_external_lane' \in BOOLEAN
      BY <1>3 DEF AppendEntry, ReelTurn
    <2>3. entries' \in Seq(TimelineEntry) /\ Len(entries') = Len(entries) + 1 /\ Len(entries) \in Nat
      BY <1>3, EntryType DEF TypeOK
    <2>4. lane_counts' \in [Lane -> 0 .. Len(entries')]
      BY <1>3, <2>3 DEF TypeOK, AppendEntry
    <2> QED BY <1>3, <2>1, <2>2, <2>3, <2>4, Turn DEF TypeOK
  <1>4. CASE Finish
    BY <1>4, CollectedType DEF Finish, TypeOK, Optional
  <1>5. CASE UNCHANGED vars
    BY <1>5 DEF vars, TypeOK
  <1> QED BY <1>1, <1>2, <1>3, <1>4, <1>5 DEF Next

-----------------------------------------------------------------------------
(* One more reel behind the cursor *)

LEMMA BehindGrows ==
  /\ Behind(1) = {}
  /\ \A n \in Nat \ {0} : Behind(n + 1) = Behind(n) \cup {n} /\ n \notin Behind(n)
  BY DEF Behind

LEMMA ReportedGrows ==
  ASSUME NEW g, NEW n \in Nat \ {0}
  PROVE  Reported(g, n + 1) = Reported(g, n) \cup ReelDiagnostics(g, n)
  BY BehindGrows DEF Reported

LEMMA CountGrows ==
  ASSUME NEW g, NEW l, NEW n \in Nat \ {0}
  PROVE  Cardinality(LanesBehind(g, l, n + 1)) =
           IF TracksAt(g, n)[l] # None THEN Cardinality(LanesBehind(g, l, n)) + 1
                                       ELSE Cardinality(LanesBehind(g, l, n))
  <1> DEFINE behind == LanesBehind(g, l, n)
  <1>1. IsFiniteSet(behind) /\ n \notin behind
    <2>1. IsFiniteSet(Behind(n)) /\ behind \subseteq Behind(n)
      BY FS_Interval DEF Behind, LanesBehind
    <2> QED BY <2>1, FS_Subset, BehindGrows
  <1>2. LanesBehind(g, l, n + 1) = IF TracksAt(g, n)[l] # None THEN behind \cup {n} ELSE behind
    BY BehindGrows DEF LanesBehind
  <1> HIDE DEF behind
  <1>3. Cardinality(behind \cup {n}) = Cardinality(behind) + 1
    BY <1>1, FS_AddElement
  <1> QED BY <1>2, <1>3 DEF behind

LEMMA EntriesFollowTurn ==
  ASSUME TypeOK, EntriesFollow(composition_graph), SkipReel \/ AppendEntry
  PROVE  EntriesFollow(composition_graph)'
  <1> DEFINE g == composition_graph
             n == reel_index
  <1>1. g' = g /\ n' = n + 1 /\ n \in Nat \ {0} /\ (SkipReel <=> ~Kept(g, n))
    BY Turn DEF TypeOK, CompositionGraph
  <1>2. Behind(n') = Behind(n) \cup {n} /\ n \notin Behind(n)
    BY <1>1, BehindGrows
  <1>3. CASE SkipReel
    <2>1. ~\A k \in Behind(n') : Kept(g, k)
      BY <1>1, <1>2, <1>3
    <2> QED BY <1>1, <2>1 DEF EntriesFollow
  <1>4. CASE AppendEntry
    <2> SUFFICES ASSUME \A k \in Behind(n') : Kept(g, k)
                 PROVE  /\ Len(entries') = n' - 1
                        /\ \A k \in Behind(n') : /\ entries'[k].entry_index = k - 1
                                                 /\ entries'[k].reel_id = g.resolved_reels[k].reel_id
                                                 /\ entries'[k].lanes = TracksAt(g, k)
                        /\ \A l \in Lane : lane_counts'[l] = Cardinality(LanesBehind(g, l, n'))
      BY <1>1 DEF EntriesFollow, Behind, LanesBehind
    <2>1. /\ Len(entries) = n - 1
          /\ \A k \in Behind(n) : /\ entries[k].entry_index = k - 1
                                  /\ entries[k].reel_id = g.resolved_reels[k].reel_id
                                  /\ entries[k].lanes = TracksAt(g, k)
          /\ \A l \in Lane : lane_counts[l] = Cardinality(LanesBehind(g, l, n))
      BY <1>2 DEF EntriesFollow
    <2>2. Len(entries') = n /\ Behind(n) = DOMAIN entries
      BY <1>1, <1>4, <2>1, EntryType DEF TypeOK, Behind
    <2>3. ASSUME NEW k \in Behind(n')
          PROVE  /\ entries'[k].entry_index = k - 1
                 /\ entries'[k].reel_id = g.resolved_reels[k].reel_id
                 /\ entries'[k].lanes = TracksAt(g, k)
      <3>1. CASE k = n
        BY <1>4, <2>2, <3>1, EntryType DEF Reel, TracksAt
      <3>2. CASE k # n
        BY <1>2, <1>4, <2>1, <2>2, <3>2, EntryType
      <3> QED BY <3>1, <3>2
    <2>4. ASSUME NEW l \in Lane
          PROVE  lane_counts'[l] = Cardinality(LanesBehind(g, l, n'))
      <3>1. lane_counts'[l] = IF TracksAt(g, n)[l] # None THEN lane_counts[l] + 1 ELSE lane_counts[l]
        BY <1>4 DEF AppendEntry, Lanes, Reel, TracksAt, Present
      <3> QED BY <1>1, <2>1, <3>1, CountGrows
    <2> QED BY <1>1, <2>2, <2>3, <2>4
  <1> QED BY <1>3, <1>4

LEMMA TurnDetermined ==
  ASSUME TypeOK, TurnsAreDetermined, SkipReel \/ AppendEntry
  PROVE  TurnsAreDetermined'
  <1> DEFINE g == composition_graph
             n == reel_index
  <1>1. /\ g' = g /\ n' = n + 1 /\ n \in Nat \ {0} /\ pc = "reels" /\ pc' = "reels"
        /\ playback_timeline' = playback_timeline
        /\ graph_has_external_lane' = (graph_has_external_lane \/ HasExternalAt(g, n))
        /\ diagnostics' = diagnostics \cup ReelDiagnostics(g, n)
    BY Turn DEF TypeOK, CompositionGraph
  <1>2. Behind(n') = Behind(n) \cup {n}
    BY <1>1, BehindGrows
  <1>3. EntriesFollow(g)'
    BY EntriesFollowTurn DEF TurnsAreDetermined
  <1>4. graph_has_external_lane' <=> \E k \in Behind(n') : HasExternalAt(g, k)
    BY <1>1, <1>2 DEF TurnsAreDetermined
  <1>5. diagnostics' = Reported(g, n')
    BY <1>1, ReportedGrows DEF TurnsAreDetermined
  <1> QED BY <1>1, <1>3, <1>4, <1>5 DEF TurnsAreDetermined

LEMMA FinishDetermined ==
  ASSUME TypeOK, TurnsAreDetermined, Finish
  PROVE  TurnsAreDetermined'
  <1> DEFINE g == composition_graph
  <1>1. /\ UNCHANGED <<composition_graph, reel_index, entries, lane_counts, graph_has_external_lane>>
        /\ pc = "reels" /\ pc' = "done"
        /\ playback_timeline' = IF diagnostics' = {} THEN Collected ELSE None
    BY DEF Finish
  <1>2. reel_index = Len(g.resolved_reels) + 1
    BY DEF Finish, TypeOK, CompositionGraph
  <1>3. Collected' = Collected
    BY <1>1 DEF Collected
  <1>4. Behind(reel_index) = DOMAIN g.resolved_reels
    BY <1>2 DEF Behind, TypeOK, CompositionGraph
  <1>5. graph_has_external_lane <=> \E k \in DOMAIN g.resolved_reels : HasExternalAt(g, k)
    BY <1>4 DEF TurnsAreDetermined
  <1>6. diagnostics = Reported(g, Len(g.resolved_reels) + 1)
    BY <1>1, <1>2 DEF TurnsAreDetermined
  <1>7. diagnostics' = diagnostics \cup KindMismatch(g)
    BY <1>5, <1>6 DEF Finish, KindMismatch, Report
  <1>8. EntriesFollow(g)'
    BY <1>1 DEF TurnsAreDetermined, EntriesFollow
  <1> QED BY <1>1, <1>2, <1>3, <1>6, <1>7, <1>8 DEF TurnsAreDetermined

LEMMA StepDetermined == TypeOK /\ TurnsAreDetermined /\ [Next]_vars => TurnsAreDetermined'
  <1> SUFFICES ASSUME TypeOK, TurnsAreDetermined, [Next]_vars PROVE TurnsAreDetermined'
    OBVIOUS
  <1>1. CASE ValidateHeader
    <2>1. /\ UNCHANGED <<composition_graph, reel_index, entries, lane_counts,
                         graph_has_external_lane, playback_timeline>>
          /\ pc = "header" /\ pc' = "reels" /\ reel_index = 1
          /\ diagnostics' = ValidateGraphHeader(composition_graph)
      BY <1>1 DEF ValidateHeader, TurnsAreDetermined
    <2>2. Reported(composition_graph, 1) = ValidateGraphHeader(composition_graph)
      BY BehindGrows DEF Reported
    <2> QED BY <2>1, <2>2 DEF TurnsAreDetermined, EntriesFollow
  <1>2. CASE SkipReel
    BY <1>2, TurnDetermined
  <1>3. CASE AppendEntry
    BY <1>3, TurnDetermined
  <1>4. CASE Finish
    BY <1>4, FinishDetermined
  <1>5. CASE UNCHANGED vars
    BY <1>5 DEF vars, TurnsAreDetermined, EntriesFollow, Collected
  <1> QED BY <1>1, <1>2, <1>3, <1>4, <1>5 DEF Next

LEMMA InitDetermined == Init => TurnsAreDetermined
  <1> SUFFICES ASSUME Init PROVE TurnsAreDetermined
    OBVIOUS
  <1>1. Behind(reel_index) = {} /\ Len(entries) = 0
    BY BehindGrows DEF Init
  <1>2. \A l : LanesBehind(composition_graph, l, reel_index) = {}
    BY <1>1 DEF LanesBehind
  <1>3. EntriesFollow(composition_graph)
    BY <1>1, <1>2, FS_EmptySet DEF EntriesFollow, Init
  <1> QED BY <1>1, <1>3 DEF Init, TurnsAreDetermined

LEMMA InductiveInvariant == Spec => [](TypeOK /\ TurnsAreDetermined)
  <1>1. Init => TypeOK /\ TurnsAreDetermined
    BY InitTyped, InitDetermined
  <1>2. TypeOK /\ TurnsAreDetermined /\ [Next]_vars => (TypeOK /\ TurnsAreDetermined)'
    BY StepTyped, StepDetermined
  <1> QED BY <1>1, <1>2, PTL DEF Spec

\* Whatever graphs build is given, every variable keeps its type: the cursor
\* stays within the reels, and a reel makes at most one entry.
THEOREM TypeCorrectness == Spec => []TypeOK
  BY InductiveInvariant, PTL

-----------------------------------------------------------------------------
(* When nothing is reported *)

CleanHeader(g) ==
  /\ Empty \notin {g.composition_id, g.origin_package_id}
  /\ g.origin_package_id \in g.source_packages
  /\ g.missing_assets = {}
  /\ g.resolved_reels # <<>>

CleanLane(g, t, l) ==
  /\ t.track_type = l
  /\ IsPositiveEditRate(t.edit_rate)
  /\ Empty \notin {t.asset_id, t.resolved_path, t.source_package_id}
  /\ t.source_package_id \in g.source_packages
  /\ t.dependency_kind = "local" <=> t.source_package_id = g.origin_package_id
  /\ g.composition_kind = "ov" => t.dependency_kind # "external"

CleanReel(g, k) ==
  /\ g.resolved_reels[k].reel_id # Empty
  /\ \A l \in Present(TracksAt(g, k)) : CleanLane(g, TracksAt(g, k)[l], l)
  /\ Kept(g, k)

LEMMA HeaderVerdict ==
  ASSUME NEW g
  PROVE  ValidateGraphHeader(g) = {} <=> CleanHeader(g)
  BY DEF ValidateGraphHeader, UnsupportedShape, Report, CleanHeader

LEMMA LaneVerdict ==
  ASSUME NEW g, NEW t, NEW l, NEW k
  PROVE  ValidateLane(g, t, l, k) = {} <=> CleanLane(g, t, l)
  BY DEF ValidateLane, UnsupportedShape, Report, CleanLane

LEMMA LanesOfReelVerdict ==
  ASSUME NEW g, NEW k
  PROVE  LaneDiagnosticsAt(g, k) = {} <=>
           /\ g.resolved_reels[k].reel_id # Empty
           /\ \A l \in Present(TracksAt(g, k)) : CleanLane(g, TracksAt(g, k)[l], l)
  <1> DEFINE present == Present(TracksAt(g, k))
             lanes == {ValidateLane(g, TracksAt(g, k)[l], l, k) : l \in present}
  <1>1. UNION lanes = {} <=> \A l \in present : ValidateLane(g, TracksAt(g, k)[l], l, k) = {}
    OBVIOUS
  <1>2. UNION lanes = {} <=> \A l \in present : CleanLane(g, TracksAt(g, k)[l], l)
    BY <1>1, LaneVerdict
  <1> DEFINE unnamed == UnsupportedShape(At(k, "none", "reel_id"), g.resolved_reels[k].reel_id = Empty)
  <1>3. LaneDiagnosticsAt(g, k) = (UNION lanes) \cup unnamed
    BY DEF LaneDiagnosticsAt
  <1>4. unnamed = {} <=> g.resolved_reels[k].reel_id # Empty
    BY DEF UnsupportedShape, Report
  <1> HIDE DEF lanes, unnamed
  <1> QED BY <1>2, <1>3, <1>4

LEMMA ReelVerdict ==
  ASSUME NEW g, NEW k
  PROVE  ReelDiagnostics(g, k) = {} <=> CleanReel(g, k)
  <1> DEFINE present == Present(TracksAt(g, k))
  <1>1. ReelDiagnostics(g, k) = {} <=>
          LaneDiagnosticsAt(g, k) = {} /\ present # {} /\ ~MoreThanOne(RatesAt(g, k))
    BY DEF ReelDiagnostics, UnsupportedShape, Report
  <1>2. ASSUME \A l \in present : CleanLane(g, TracksAt(g, k)[l], l), present # {}
        PROVE  RatesAt(g, k) # {}
    BY <1>2 DEF RatesAt, CleanLane
  <1>3. Kept(g, k) => present # {} /\ ~MoreThanOne(RatesAt(g, k))
    BY RatesNeedLanes
  <1>4. RatesAt(g, k) # {} /\ ~MoreThanOne(RatesAt(g, k)) => Kept(g, k)
    BY OneOrNot DEF Kept
  <1> HIDE DEF present
  <1> QED BY <1>1, <1>2, <1>3, <1>4, LanesOfReelVerdict DEF CleanReel, present

LEMMA AllReported ==
  ASSUME NEW g \in CompositionGraph
  PROVE  Reported(g, Len(g.resolved_reels) + 1) = {} <=>
           CleanHeader(g) /\ \A k \in DOMAIN g.resolved_reels : CleanReel(g, k)
  <1> DEFINE last == Len(g.resolved_reels) + 1
  <1>1. Behind(last) = DOMAIN g.resolved_reels
    BY DEF Behind, CompositionGraph
  <1> HIDE DEF last
  <1>2. Reported(g, last) = {} <=>
          ValidateGraphHeader(g) = {} /\ \A k \in Behind(last) : ReelDiagnostics(g, k) = {}
    BY DEF Reported
  <1> QED BY <1>1, <1>2, HeaderVerdict, ReelVerdict DEF last

LEMMA KindVerdict ==
  ASSUME NEW g \in CompositionGraph, Reported(g, Len(g.resolved_reels) + 1) = {}
  PROVE  KindMismatch(g) = {} <=>
           (g.composition_kind = "vf" => \E k \in DOMAIN g.resolved_reels : HasExternalAt(g, k))
  BY AllReported DEF KindMismatch, Report, CleanHeader

-----------------------------------------------------------------------------
(* A timeline is published exactly for the show-ready graphs *)

LEMMA TracksOfGraph ==
  ASSUME NEW g, NEW t
  PROVE  t \in TracksOf(g.resolved_reels) <=>
           \E k \in DOMAIN g.resolved_reels : \E l \in Present(TracksAt(g, k)) : t = TracksAt(g, k)[l]
  BY DEF TracksOf, TracksAt

LEMMA OneRate ==
  ASSUME NEW g \in CompositionGraph, NEW k \in DOMAIN g.resolved_reels
  PROVE  (\E rate \in Rate : /\ IsPositiveEditRate(rate)
                             /\ {TracksAt(g, k)[l].edit_rate : l \in Present(TracksAt(g, k))} = {rate})
         <=> /\ \A l \in Present(TracksAt(g, k)) : IsPositiveEditRate(TracksAt(g, k)[l].edit_rate)
             /\ Kept(g, k)
  <1> DEFINE present == Present(TracksAt(g, k))
             all == {TracksAt(g, k)[l].edit_rate : l \in present}
             positive == \A l \in present : IsPositiveEditRate(TracksAt(g, k)[l].edit_rate)
  <1>1. positive => all = RatesAt(g, k)
    BY DEF RatesAt
  <1>2. ASSUME NEW rate, IsPositiveEditRate(rate), all = {rate}
        PROVE  positive
    BY <1>2
  <1>3. RatesAt(g, k) \subseteq Rate /\ \A rate \in RatesAt(g, k) : IsPositiveEditRate(rate)
    BY ReelAtFacts
  <1> HIDE DEF all, positive
  <1> QED BY <1>1, <1>2, <1>3 DEF Kept, all, positive

LEMMA HeaderOfExtended ==
  ASSUME NEW g \in CompositionGraph
  PROVE  LET tracks == TracksOf(g.resolved_reels) IN
         MetadataAgrees([g EXCEPT !.source_packages = {g.origin_package_id} \cup {t.source_package_id : t \in tracks}])
         <=> /\ \A t \in tracks : t.dependency_kind = "local" <=> t.source_package_id = g.origin_package_id
             /\ g.composition_kind = "vf" <=> \E t \in tracks : t.dependency_kind = "external"
  <1> DEFINE sources == {g.origin_package_id} \cup {t.source_package_id : t \in TracksOf(g.resolved_reels)}
             h == [g EXCEPT !.source_packages = sources]
  <1>1. /\ h.source_packages = sources
        /\ h.origin_package_id = g.origin_package_id
        /\ h.composition_kind = g.composition_kind
        /\ h.resolved_reels = g.resolved_reels
    BY DEF CompositionGraph
  <1> HIDE DEF h
  <1> QED BY <1>1 DEF MetadataAgrees, h

LEMMA ShowReadyIffClean ==
  ASSUME NEW g \in CompositionGraph
  PROVE  ShowReady(g) <=>
           /\ CleanHeader(g)
           /\ \A k \in DOMAIN g.resolved_reels : CleanReel(g, k)
           /\ g.composition_kind = "vf" => \E k \in DOMAIN g.resolved_reels : HasExternalAt(g, k)
  <1> DEFINE tracks == TracksOf(g.resolved_reels)
             reels == DOMAIN g.resolved_reels
             sources == {g.origin_package_id} \cup {t.source_package_id : t \in tracks}
             kindsAgree ==
               /\ \A t \in tracks : t.dependency_kind = "local" <=> t.source_package_id = g.origin_package_id
               /\ g.composition_kind = "vf" <=> \E t \in tracks : t.dependency_kind = "external"
             reelReady(k) ==
               /\ g.resolved_reels[k].reel_id # Empty
               /\ \A l \in Present(TracksAt(g, k)) : TracksAt(g, k)[l].track_type = l
               /\ \A l \in Present(TracksAt(g, k)) : IsPositiveEditRate(TracksAt(g, k)[l].edit_rate)
               /\ Kept(g, k)
  <1>1. ShowReady(g) <=>
          /\ Empty \notin {g.composition_id, g.origin_package_id}
          /\ g.missing_assets = {}
          /\ g.resolved_reels # <<>>
          /\ kindsAgree
          /\ sources \subseteq g.source_packages
          /\ \A t \in tracks : Empty \notin {t.asset_id, t.resolved_path, t.source_package_id}
          /\ \A k \in reels : reelReady(k)
    <2>1. \A k \in reels :
            reelReady(k) <=>
              /\ g.resolved_reels[k].reel_id # Empty
              /\ \A l \in Present(g.resolved_reels[k].tracks) : g.resolved_reels[k].tracks[l].track_type = l
              /\ \E rate \in Rate :
                   /\ IsPositiveEditRate(rate)
                   /\ {g.resolved_reels[k].tracks[l].edit_rate : l \in Present(g.resolved_reels[k].tracks)} = {rate}
      BY OneRate DEF TracksAt
    <2>2. MetadataAgrees([g EXCEPT !.source_packages = sources]) <=> kindsAgree
      BY HeaderOfExtended
    <2> HIDE DEF reelReady, kindsAgree
    <2> QED BY <2>1, <2>2 DEF ShowReady
  <1>2. \A t : t \in tracks <=> \E k \in reels : \E l \in Present(TracksAt(g, k)) : t = TracksAt(g, k)[l]
    BY TracksOfGraph
  <1>3. \A k \in reels : \A l \in Present(TracksAt(g, k)) : TracksAt(g, k)[l] \in tracks
    BY <1>2
  <1>4. g.composition_kind \in {"ov", "vf"}
    BY DEF CompositionGraph, CompositionKind
  <1>5. (\E t \in tracks : t.dependency_kind = "external") <=> \E k \in reels : HasExternalAt(g, k)
    BY <1>2 DEF HasExternalAt
  <1>6. sources \subseteq g.source_packages <=>
          /\ g.origin_package_id \in g.source_packages
          /\ \A t \in tracks : t.source_package_id \in g.source_packages
    OBVIOUS
  <1> HIDE DEF tracks, reels, sources
  <1>7. (\A k \in reels : CleanReel(g, k)) <=>
          /\ \A k \in reels : reelReady(k)
          /\ \A t \in tracks :
               /\ Empty \notin {t.asset_id, t.resolved_path, t.source_package_id}
               /\ t.source_package_id \in g.source_packages
               /\ t.dependency_kind = "local" <=> t.source_package_id = g.origin_package_id
               /\ g.composition_kind = "ov" => t.dependency_kind # "external"
    <2>1. (\A k \in reels : CleanReel(g, k)) <=>
            /\ \A k \in reels : g.resolved_reels[k].reel_id # Empty /\ Kept(g, k)
            /\ \A k \in reels : \A l \in Present(TracksAt(g, k)) : CleanLane(g, TracksAt(g, k)[l], l)
      BY DEF CleanReel
    <2> QED BY <1>2, <1>3, <2>1 DEF CleanLane
  <1>8. kindsAgree <=>
          /\ \A t \in tracks :
               /\ t.dependency_kind = "local" <=> t.source_package_id = g.origin_package_id
               /\ g.composition_kind = "ov" => t.dependency_kind # "external"
          /\ g.composition_kind = "vf" => \E k \in reels : HasExternalAt(g, k)
    BY <1>4, <1>5
  <1> HIDE DEF kindsAgree, reelReady
  <1> QED BY <1>1, <1>6, <1>7, <1>8 DEF CleanHeader, reels

LEMMA BuiltWhenReady ==
  ASSUME TypeOK, TurnsAreDetermined
  PROVE  BuiltIffShowReady
  <1> SUFFICES ASSUME pc = "done"
               PROVE  playback_timeline # None <=> ShowReady(composition_graph)
    BY DEF BuiltIffShowReady
  <1> DEFINE g == composition_graph
             reported == Reported(g, Len(g.resolved_reels) + 1)
  <1>1. g \in CompositionGraph
    BY DEF TypeOK
  <1>2. /\ diagnostics = reported \cup KindMismatch(g)
        /\ playback_timeline = IF diagnostics = {} THEN Collected ELSE None
    BY DEF TurnsAreDetermined
  <1>3. Collected # None
    BY CollectedType
  <1>4. playback_timeline # None <=> reported = {} /\ KindMismatch(g) = {}
    BY <1>2, <1>3
  <1> QED BY <1>1, <1>4, AllReported, KindVerdict, ShowReadyIffClean

\* Whatever graphs build is given, it publishes a timeline exactly for those that
\* are show-ready: no check it makes lane by lane is missing, none is too strict.
THEOREM BuildCorrectness == Spec => []BuiltIffShowReady
  BY InductiveInvariant, BuiltWhenReady, PTL

-----------------------------------------------------------------------------
(* What a published timeline holds *)

LEMMA PublishedIsTheGraph ==
  ASSUME TypeOK, TurnsAreDetermined
  PROVE  TimelineIsTheGraph
  <1> DEFINE g == composition_graph
             reels == g.resolved_reels
  <1> SUFFICES ASSUME playback_timeline # None
               PROVE  /\ Len(playback_timeline.reel_entries) = Len(reels)
                      /\ \A k \in DOMAIN reels :
                           /\ playback_timeline.reel_entries[k].entry_index = k - 1
                           /\ playback_timeline.reel_entries[k].reel_id = reels[k].reel_id
                           /\ playback_timeline.reel_entries[k].lanes = reels[k].tracks
                      /\ \A l \in Lane : playback_timeline.lane_summary[l] =
                                           Cardinality({k \in DOMAIN reels : reels[k].tracks[l] # None})
    BY DEF TimelineIsTheGraph
  <1>1. /\ pc = "done" /\ reel_index = Len(reels) + 1
        /\ Reported(g, reel_index) = {} /\ playback_timeline = Collected
        /\ EntriesFollow(g)
    BY DEF TurnsAreDetermined, TypeOK
  <1>2. Behind(reel_index) = DOMAIN reels /\ reel_index - 1 = Len(reels)
    BY <1>1 DEF TypeOK, CompositionGraph, Behind
  <1>3. \A k \in DOMAIN reels : Kept(g, k)
    BY <1>1, AllReported DEF TypeOK, CleanReel
  <1>4. playback_timeline.reel_entries = entries /\ playback_timeline.lane_summary = lane_counts
    BY <1>1 DEF Collected
  <1>5. /\ Len(entries) = reel_index - 1
        /\ \A k \in DOMAIN reels : /\ entries[k].entry_index = k - 1
                                   /\ entries[k].reel_id = reels[k].reel_id
                                   /\ entries[k].lanes = reels[k].tracks
        /\ \A l \in Lane : lane_counts[l] = Cardinality({k \in DOMAIN reels : reels[k].tracks[l] # None})
    BY <1>1, <1>2, <1>3 DEF EntriesFollow, LanesBehind, TracksAt
  <1> QED BY <1>2, <1>4, <1>5

\* Whatever graphs build is given, a timeline it publishes has every reel of the
\* graph at its place with its lanes, and counts the lanes of the whole graph.
THEOREM TimelineCompleteness == Spec => []TimelineIsTheGraph
  BY InductiveInvariant, PublishedIsTheGraph, PTL

-----------------------------------------------------------------------------
(* Which diagnostic is reported *)

LEMMA DiagnosticFields ==
  ASSUME NEW code, NEW where
  PROVE  Diagnostic(code, where).code = code /\ Diagnostic(code, where).where = where
  BY DEF Diagnostic

LEMMA PlaceParts ==
  ASSUME NEW k, NEW l, NEW field
  PROVE  At(k, l, field)[1] = k /\ At(k, l, field)[2] = l /\ At(k, l, field)[3] = field
  BY DEF At

LEMMA HeaderPlaces ==
  ASSUME NEW g, NEW d \in ValidateGraphHeader(g)
  PROVE  d.where[1] = 0 /\ d.where[3] # "composition_kind"
  <1>1. \E code, field : field # "composition_kind" /\ d = Diagnostic(code, At(0, "none", field))
    BY DEF ValidateGraphHeader, UnsupportedShape, Report
  <1>2. PICK code, field : field # "composition_kind" /\ d = Diagnostic(code, At(0, "none", field))
    BY <1>1
  <1>3. d.where = At(0, "none", field)
    BY <1>2, DiagnosticFields
  <1> QED BY <1>2, <1>3, PlaceParts

LEMMA LanePlaces ==
  ASSUME NEW g, NEW t, NEW l, NEW k, NEW d \in ValidateLane(g, t, l, k)
  PROVE  \E code, field : d = Diagnostic(code, At(k, l, field))
  BY DEF ValidateLane, UnsupportedShape, Report

\* What a turn reports is at its reel; without a lane and a field, it is a
\* mismatch of rates or it says that the reel has no lane.
LEMMA ReelPlaces ==
  ASSUME NEW g \in CompositionGraph, NEW k \in DOMAIN g.resolved_reels, NEW d \in ReelDiagnostics(g, k)
  PROVE  /\ d.where[1] = k
         /\ d = Diagnostic("timeline.unsupported_graph_shape", At(k, "none", "none")) =>
              Present(TracksAt(g, k)) = {}
  <1>1. CASE \E l \in Present(TracksAt(g, k)) : d \in ValidateLane(g, TracksAt(g, k)[l], l, k)
    <2>1. PICK l \in Present(TracksAt(g, k)) : d \in ValidateLane(g, TracksAt(g, k)[l], l, k)
      BY <1>1
    <2>2. PICK code, field : d = Diagnostic(code, At(k, l, field))
      BY <2>1, LanePlaces
    <2>3. l # "none"
      BY ReelAtFacts DEF Lane
    <2>4. d.where[1] = k /\ d.where[2] = l
      BY <2>2, DiagnosticFields, PlaceParts
    <2>5. Diagnostic("timeline.unsupported_graph_shape", At(k, "none", "none")).where[2] = "none"
      BY DiagnosticFields, PlaceParts
    <2> QED BY <2>3, <2>4, <2>5
  <1>2. CASE d \in UnsupportedShape(At(k, "none", "reel_id"), g.resolved_reels[k].reel_id = Empty)
    <2>1. d = Diagnostic("timeline.unsupported_graph_shape", At(k, "none", "reel_id"))
      BY <1>2 DEF UnsupportedShape, Report
    <2> QED BY <2>1, DiagnosticFields, PlaceParts
  <1>3. CASE d \in UnsupportedShape(At(k, "none", "none"), Present(TracksAt(g, k)) = {})
    <2>1. d = Diagnostic("timeline.unsupported_graph_shape", At(k, "none", "none")) /\ Present(TracksAt(g, k)) = {}
      BY <1>3 DEF UnsupportedShape, Report
    <2> QED BY <2>1, DiagnosticFields, PlaceParts
  <1>4. CASE d \in Report("timeline.entry_edit_rate_mismatch", At(k, "none", "none"), MoreThanOne(RatesAt(g, k)))
    <2>1. d = Diagnostic("timeline.entry_edit_rate_mismatch", At(k, "none", "none"))
      BY <1>4 DEF Report
    <2> QED BY <2>1, DiagnosticFields, PlaceParts
  <1>5. \/ d \in LaneDiagnosticsAt(g, k)
        \/ d \in UnsupportedShape(At(k, "none", "none"), Present(TracksAt(g, k)) = {})
        \/ d \in Report("timeline.entry_edit_rate_mismatch", At(k, "none", "none"), MoreThanOne(RatesAt(g, k)))
    BY DEF ReelDiagnostics
  <1>6. d \in LaneDiagnosticsAt(g, k) =>
          \/ \E l \in Present(TracksAt(g, k)) : d \in ValidateLane(g, TracksAt(g, k)[l], l, k)
          \/ d \in UnsupportedShape(At(k, "none", "reel_id"), g.resolved_reels[k].reel_id = Empty)
    BY DEF LaneDiagnosticsAt
  <1> QED BY <1>1, <1>2, <1>3, <1>4, <1>5, <1>6

LEMMA SpecificWins ==
  ASSUME TypeOK, TurnsAreDetermined
  PROVE  SpecificDiagnosticWins
  <1> DEFINE g == composition_graph
             reels == DOMAIN g.resolved_reels
             reported == Reported(g, reel_index)
  <1>1. /\ g \in CompositionGraph /\ Behind(reel_index) \subseteq reels
        /\ \A k \in reels : k # 0
    BY DEF TypeOK, CompositionGraph, Behind
  <1>2. \A d \in reported :
          \/ d \in ValidateGraphHeader(g)
          \/ \E k \in Behind(reel_index) : d \in ReelDiagnostics(g, k)
    BY DEF Reported
  <1>3. ASSUME NEW d \in reported
        PROVE  /\ d.where # AtCompositionKind
               /\ \A k \in reels : d = Diagnostic("timeline.unsupported_graph_shape", At(k, "none", "none")) =>
                                     Present(TracksAt(g, k)) = {}
    <2>1. /\ AtCompositionKind[1] = 0 /\ AtCompositionKind[3] = "composition_kind"
          /\ \A k : Diagnostic("timeline.unsupported_graph_shape", At(k, "none", "none")).where[1] = k
      BY DiagnosticFields, PlaceParts DEF AtCompositionKind
    <2>2. CASE d \in ValidateGraphHeader(g)
      <3>1. d.where[1] = 0 /\ d.where[3] # "composition_kind"
        BY <2>2, HeaderPlaces
      <3> QED BY <1>1, <2>1, <3>1
    <2>3. CASE \E j \in Behind(reel_index) : d \in ReelDiagnostics(g, j)
      <3>1. PICK j \in Behind(reel_index) : d \in ReelDiagnostics(g, j)
        BY <2>3
      <3>2. /\ j \in reels /\ d.where[1] = j
            /\ d = Diagnostic("timeline.unsupported_graph_shape", At(j, "none", "none")) =>
                 Present(TracksAt(g, j)) = {}
        BY <1>1, <3>1, ReelPlaces
      <3> QED BY <1>1, <2>1, <3>2
    <2> QED BY <1>2, <2>2, <2>3
  <1>4. ASSUME NEW d \in KindMismatch(g)
        PROVE  /\ d.where = AtCompositionKind
               /\ Reported(g, Len(g.resolved_reels) + 1) = {} /\ KindMismatch(g) = {d}
    BY DEF KindMismatch, Report, Diagnostic
  <1>5. CASE pc = "header"
    BY <1>5 DEF TurnsAreDetermined, SpecificDiagnosticWins
  <1>6. CASE pc = "reels"
    BY <1>3, <1>6 DEF TurnsAreDetermined, SpecificDiagnosticWins, TracksAt
  <1>7. CASE pc = "done"
    <2>1. diagnostics = reported \cup KindMismatch(g) /\ reel_index = Len(g.resolved_reels) + 1
      BY <1>7 DEF TurnsAreDetermined
    <2>2. ASSUME NEW d \in KindMismatch(g), NEW k \in reels
          PROVE  d # Diagnostic("timeline.unsupported_graph_shape", At(k, "none", "none"))
      BY <1>1, <1>4, <2>2, DiagnosticFields, PlaceParts DEF AtCompositionKind
    <2>3. ASSUME NEW d \in diagnostics
          PROVE  /\ d.where = AtCompositionKind => diagnostics = {d}
                 /\ \A k \in reels : d = Diagnostic("timeline.unsupported_graph_shape", At(k, "none", "none")) =>
                                       Present(TracksAt(g, k)) = {}
      <3>1. CASE d \in reported
        BY <1>3, <3>1
      <3>2. CASE d \in KindMismatch(g)
        BY <1>4, <2>1, <2>2, <3>2
      <3> QED BY <2>1, <3>1, <3>2
    <2> QED BY <2>3 DEF SpecificDiagnosticWins, TracksAt
  <1> QED BY <1>5, <1>6, <1>7 DEF TypeOK

\* Whatever graphs build is given, a reel is reported as shapeless only when it
\* has no lane, and the kind of the composition is reported alone.
THEOREM SpecificDiagnostic == Spec => []SpecificDiagnosticWins
  BY InductiveInvariant, SpecificWins, PTL

-----------------------------------------------------------------------------
(* What a caller may rely on *)

\* Of a graph without other faults, at most the rates of its reels are reported.
LEMMA OnlyRatesReported ==
  ASSUME TypeOK, TurnsAreDetermined, CleanHeader(composition_graph),
         \A k \in DOMAIN composition_graph.resolved_reels :
           /\ composition_graph.resolved_reels[k].reel_id # Empty
           /\ Present(TracksAt(composition_graph, k)) # {}
           /\ \A l \in Present(TracksAt(composition_graph, k)) :
                CleanLane(composition_graph, TracksAt(composition_graph, k)[l], l),
         composition_graph.composition_kind = "vf" =>
           \E k \in DOMAIN composition_graph.resolved_reels : HasExternalAt(composition_graph, k)
  PROVE  \A d \in diagnostics : d.code = "timeline.entry_edit_rate_mismatch"
  <1> DEFINE g == composition_graph
             last == Len(g.resolved_reels) + 1
  <1>1. ASSUME NEW n \in 1 .. last, NEW d \in Reported(g, n)
        PROVE  d.code = "timeline.entry_edit_rate_mismatch"
    <2>1. ValidateGraphHeader(g) = {}
      BY HeaderVerdict
    <2>2. PICK k \in Behind(n) : d \in ReelDiagnostics(g, k)
      BY <1>1, <2>1 DEF Reported
    <2>3. k \in DOMAIN g.resolved_reels
      BY <1>1 DEF Behind, TypeOK, CompositionGraph
    <2>4. LaneDiagnosticsAt(g, k) = {} /\ Present(TracksAt(g, k)) # {}
      BY <2>3, LanesOfReelVerdict
    <2>5. d \in Report("timeline.entry_edit_rate_mismatch", At(k, "none", "none"), MoreThanOne(RatesAt(g, k)))
      BY <2>2, <2>4 DEF ReelDiagnostics, UnsupportedShape, Report
    <2> QED BY <2>5 DEF Report, Diagnostic
  <1>2. KindMismatch(g) = {}
    BY DEF KindMismatch, Report
  <1>3. reel_index \in 1 .. last
    BY DEF TypeOK
  <1>4. CASE pc = "header"
    BY <1>4 DEF TurnsAreDetermined
  <1>5. CASE pc = "reels"
    BY <1>1, <1>3, <1>5 DEF TurnsAreDetermined
  <1>6. CASE pc = "done"
    BY <1>1, <1>2, <1>3, <1>6 DEF TurnsAreDetermined
  <1> QED BY <1>4, <1>5, <1>6 DEF TypeOK
=============================================================================
