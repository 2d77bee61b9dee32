# dcplayer: a verification project

This directory models the parts of dcplayer that hold its logic: how a composition is
parsed and resolved over several packages, how supplemental versions are merged into it, how
the result becomes a timeline, and which documents of the secure module (audit exports,
clock statuses, channel contracts, requests and responses) are accepted. The TLA+ is
translated from the C++ code. TLC checks it on small instances; TLAPS proves, component by
component, almost all of the safety properties for every value of the constants. `PROJECT.json`
maps each definition to its lines.

Paths below are those of the repository (`src/dcp/...`, `docs/...`, `specs/...`).

## 1. The system

All code is sequential: there are no threads, no network, no files written, no
retained state between calls. Each component is a function from values to a value or to
a list of diagnostics. What makes them hard is that each one accumulates state over
nested loops with many early exits, that one keeps what another has to find again, and
that a value is right only if several checks in several functions agree.

| component | code | state of a call | operations | what makes it right |
|---|---|---|---|---|
| ov_vf_resolver | `src/dcp/ov_vf_resolver` | origin package, collected reels, sources, dependency flags, diagnostics | `resolve` | the graph is the declarative resolution of the CPL, or there is none and the reason is true |
| supplemental | `src/dcp/supplemental` | sorted policies, copy of the base graph, overrides by reel and lane, diagnostics | `apply` | all policies or nothing; the order of the policies does not matter; metadata describe the merged tracks |
| playback timeline | `src/playout/timeline` | entries, next index, diagnostics | `build` | exactly the show-ready graphs give a timeline, and it loses no reel or lane |
| xml_dom | `src/dcp/assetmap/internal` | open elements, first error | `parse_document`, lookups | a document is read exactly if it is well-formed |
| cpl, pkl, assetmap | `src/dcp/cpl`, `pkl`, `assetmap` | ids and chunks seen so far, diagnostics | three `parse`, `validate_against_asset_map` | exactly the legal documents are accepted, and a diagnostic names the place of the fault |
| audit | `src/security_api/audit` | parsed events, tamper state, diagnostics | `parse_audit_export`, `validate_audit_export`, `parse_security_event` | accepted are the ordered, unique lists of events with a legal tamper history |
| secure_time | `src/security_api/secure_time` | gate flags, merged diagnostics | `evaluate_secure_time`, validators, parsers, writers | exactly the legal texts are accepted and survive being written again; time is usable exactly under the documented conditions |
| secure_channel | `src/security_api/secure_channel` | contract, module contract, requests, response | four parsers, `authorize_request`, `validate_response` | a request is authorized only for the client of the contract; a response is accepted only for its request |
| host_spb1_contract | `src/security_api/host_spb1_contract` | none | constants of the baseline | - |
| the rest | apps, `src/core`, `src/audio`, `video`, `subtitles`, `watermark`, `kdm`, `certs`, `link_crypto`, `log_client`, `ingest`, `storage`, `spb1`, `frame_queue`, `sync` | none | version strings, or build files without code | - |

Interactions. The parsers make packages (asset map, packing list, CPLs). `resolve` turns
packages and a composition id into a `CompositionGraph`; `apply` takes that graph and the same
packages and policies and returns a merged graph; `build` takes either graph. They communicate
by values only, and the only caller is the integration tests (`tests/integration`), which read
the documents of a package one by one, give up at the first that is refused, and never call
`validate_against_asset_map`. In the secure module a caller parses the contract, then requests,
authorizes them, parses a response and validates it against its request. Audit exports and clock
statuses stand alone: `secure_time_gated_api_names` has no caller yet, so no code joins the
clock and the channel.

The hard behaviours are listed one by one under `hazards` in `PROJECT.json`, with the
properties that would catch them going wrong. In short: flags kept apart from the tracks
they summarise; one lane, policy, entry or event failing while the loop continues;
results that depend on the order of packages or policies; sorting that leaves ties open;
derived data that is stale after a change; legal single steps that form an illegal
history; checks split over two stages; diagnostics that are merged or suppressed; numbers,
paths, entities and digests at their limits; documents that are compared only if the caller asks.

## 2. Modules

```
DcpModel ----------+-- OvVfResolver ------ OvVfResolver_proofs
                   |      '-- implements CompositionResolution
                   +-- SupplementalMerge - RepeatedMerge (two calls)
                   |      |-- implements SupplementalOverlay
                   |      '-- SupplementalMerge_proofs
                   +-- PlaybackTimeline - PlaybackTimeline_proofs
                   '-- DcpPipeline (instances of the three) - DcpPipeline_proofs (of their proofs)
                          '-- DcpLoad (the packages from their documents)
                                 |
XmlDom --- DcpFields --+-- AssetMapParser
UtcTime ----'          +-- PackingListParser
                       +-- CplParser
                       +-- DcpLegality (what the specifications allow)
                       '-- DcpDocuments (the parsers, one after another) -- DcpLoad

DcpDocuments - DcpDocuments_proofs (the parsers against DcpLegality), extended by DcpPipeline_proofs

AuditExport - AuditExport_proofs
UtcTime --+-- UtcCalendar -------------------------.
          '-- SecureTimeGate --+                    |
JsonReader --------------------'-- SecureTimeText --'-- SecureTime_proofs
ProtectedApi -- SecureChannelParser -- SecureChannel -- SecureChannel_proofs
```

Conventions. An optional without value is `None`; an unreadable or mistyped member is
`WrongType`. A vector whose order the code reads is a sequence, one that the code sorts
and searches only is a set. `pc` names the place in a function between two actions; a
finished call stays where it is, so the configurations say `CHECK_DEADLOCK FALSE`.
Operators named `Mut...` are the
plausible mistakes that the properties are tried against. They are used by no model.

**DcpModel** has the types that the three stages share (packages, reels, graphs) and the
lookups that both `ov_vf_resolver.cpp` and `supplemental_merge.cpp` make in one package. Ids are
atoms, since the code only compares them; names, digests and sizes are left out, since no
stage reads them.

**OvVfResolver** is `resolve`. `TargetNotFound`, `ConflictingOwner` and `SelectOwner` are the
three outcomes of the search for the owner package, `ResolveReel` is one turn of the loop
over reels with all its lanes (`ReferenceOutcome`: local, external, or one of the four
failures), `Finish` decides between graph and rejection. Diagnostics are sets of code and
place; their order and wording are dropped.
**CompositionResolution** says the same in one step: which graph a request has, or none.

**SupplementalMerge** is `apply`. `SortPolicies` chooses any order that `std::sort` may
produce: policies with equal keys come in any order. `SkipPolicy`, `SelectSupplemental`,
`UnknownReel`, `MergeReel`, `NextPolicy` and `Finish` are the branches of the loops.
**SupplementalOverlay** is its abstraction: the base graph overlaid by all policies, if they
are all valid and no two contradict each other. **RepeatedMerge** calls `apply` twice with
the policies in another order.

**PlaybackTimeline** is `build`: `ValidateHeader`, then `SkipReel` or `AppendEntry` for each
reel, then `Finish` with the generic diagnostic and its suppression. Its inputs are
arbitrary graphs, also those no resolver makes, because the function promises to refuse
them.

**DcpPipeline** composes instances of the three: `Resolve`, `Apply` and `Build` are their steps,
`CallApply` and `CallBuild` pass the results on, `Unresolved` and `Unmerged` end the show.

**XmlDom** is `xml_dom.cpp`. A document is the sequence of its tags, comments and texts;
`ReadToken` is one turn of the reader with the stack of open elements, `CodePoint` a numeric
entity, and the rest are the lookups in the tree. A text is a sequence of words, each a record
that says what the code can find out about it, such as a number, a spelled id, a path cut at its
slashes, or so many hexadecimal digits (the list is in DcpFields). A byte order mark and the XML
declaration are no tokens of their own.

**DcpFields** has what the three parsers share, each in its own copy in the code:
`required_text` and the checks of ids, times and integers, repeated ids, the header, and the
frame of `parse`. **AssetMapParser**, **PackingListParser** and **CplParser** are the three
`parse` functions: `XDiagnostics` is what is reported of a tree, with severity and path, and a
record of the name of the type is what is made of it. `ValidateAgainstAssetMap` is in
PackingListParser.
**DcpLegality** is not a model of code. It says which sequences of tags and texts are a document
(`WellFormed`), which trees `specs/objects/AssetMap.md`, `PKL.md` and `CPL.md` allow, and when a
path tells of a defect. It is written without looking at how the reader and the parsers go about
it.

**DcpDocuments** says what a package on disk may be and what the three parsers make of one,
each called only if those before it accepted their documents (`Parse`).

**DcpLoad** puts the documents in front of DcpPipeline. `LoadPackage` and `LoadMergePackage` read
one package each, `Run` is a step of DcpPipeline, and a refused package ends the program.
A show may say that its packing lists are compared with their asset maps, or not.

**AuditExport** is `parse_audit_export` and `validate_audit_export` on a document. The actions
follow the code: header, one `BuildEvent` per item, `AssembleExport`, then the
object-level checks and the walk over tamper events. A document is what the JSON reader
returns, with each member present, absent, mistyped or of bad value. The JSON reader
and writers are left out.

**UtcTime** has the calendar arithmetic of `secure_time.cpp`;
**UtcCalendar** walks over it. **SecureTimeGate** is `evaluate_secure_time` with the
validators of policy and status: one action per block of checks (`CheckTrust`,
`BlockTampered`, ... ) in the order of the code, and the merge of diagnostics by code.
**JsonReader** is the recursive descent over a JSON text, a sequence of tokens, with the
decoding of strings and the escapes that are written. **SecureTimeText** is a caller
that parses a policy and a status (`ParsePolicy`, `ParseStatus`) and hands what it got to the
gate (`CallGate`), or does not (`Refuse`); `PolicyText` and `StatusText` are the two writers.
Callers that build the objects themselves are in the same model.

**ProtectedApi** has the enumerations, the payload families with the fields each requires
and allows, and the payload rules of `secure_channel.cpp`. **SecureChannelParser** has its
four parsers: `XDiagnostics` is what is reported of a document, `XValue` the object made of
it. **SecureChannel** is the caller's view: each call is made at most once, in any order
its arguments allow, and `log` keeps what it reported.

## 3. Runs

Each run answers one question. Every passing run checks a type invariant, except `utc_calendar`,
whose walk has no state worth one. Properties are named in the order of their interest.

**ov_vf_resolver** (`MCOvVfResolver`). Three packages under four arrangements of `pkl_id`s, in
three of which two packages share one; the CPL owned by the first or the second package, by two,
or by none; two shapes of CPL (one reel with two lanes, two reels) over two assets; each of the
three packages knows the first asset in any of four ways (absent, listed only, backed, of a
wrong type), the second in six combinations, one per outcome. Three packages are needed for an
owner and two rival providers; four would add nothing, since the search counts up to two.
- `ImplementsResolution`: the walk answers as CompositionResolution does, and does answer.
- `PublishedGraphIsShowReady`, `PublishedMetadataAgrees`: no lane is lost or unbacked, and kind,
  sources and dependency kinds agree with the tracks.
- `RejectionIsExplained`, `WalkIsDetermined`: every rejection names its failed lane; the
  accumulated flags are those of the reels behind the cursor.

**supplemental_merge** (`MCSupplementalMerge`). Two base graphs (OV, and VF with an external
lane), six supplemental shapes and two of a second supplemental, twelve lists of up to two
policies, good and refused, ownership and asset status of the overriding asset varied. Two
policies suffice: conflicts are between pairs.
- `ImplementsOverlay`: all policies or none, and no order that the sort may choose matters.
- `ConflictIsReported`: two different overrides of a lane are found whichever is first.
- `MergedMetadataAgrees`: nothing of the base survives in the metadata of replaced tracks.

**playback_timeline** (`MCPlaybackTimeline`). Graphs of up to two reels: twelve variants of the
picture lane (one field wrong at a time), four of the sound lane, no second reel or one of four,
and wrong headers, kinds, source lists and missing assets. Two reels suffice for a skipped reel
before and after a good one.
- `BuiltIffShowReady`, `TimelineIsTheGraph`: exactly the show-ready graphs are built, entry by
  entry, none lost or renumbered.
- `SpecificDiagnosticWins`: the generic diagnostic appears only when no specific one explains
  it.

**dcp_pipeline** (`MCDcpPipeline`). A two-reel composition over an origin and an OV package, a
supplemental in four shapes, two edit rates; these shows are told by packages. Others are told
by documents: one show of two packages, and one with a third package for a supplemental, with
any one change in any one document. A change is another text, attribute or name of an element,
an element missing or repeated, and for asset maps also any token lost and any comment,
instruction, text or unreadable tag put anywhere. The texts of an element are chosen per kind,
at both sides of each limit; the two integer types end at 99 and 999. One change is enough to
find a condition that the parser lacks or has too much, since the parsers never stop at a fault
and a document is refused for one. Repetitions, which take two elements to violate, come from
repeated elements and from ids that the other elements have. The last group are all sequences of
up to 6 (`MarkupBound`) opening and closing tags of two names, and of up to 4 (`MixedBound`)
tokens of nine kinds, as an asset map.
- `OnlyRatesFailTheTimeline`: what the first two stages publish the third accepts, except when
  the rates of one reel differ: no earlier stage compares them.
- `TimelineLanesAreBacked`, `TimelineFollowsTheCpl`: the promise of the stages together.
- `LoadedIffLegal`: each parser accepts exactly what DcpLegality allows, and the path of a chunk
  leads where it is written to lead.
- `DiagnosticsPointIntoTheDocument`: each diagnostic names a node that has the fault.
- `CheckedPackagesAreBacked`: after the comparison of all packages a reference can be broken
  only for its type.
- `ReaderAcceptsTheMarkup`: refused is exactly what is not well-formed; the definition (`WellFormed`
  of DcpLegality) speaks of depths, the code of a stack.

**audit_export** (`MCAuditExport`). All tamper stories of up to four events (longer ones revisit
the four states), every order of three events over
three ids and two times, events of every type with one member wrong, and header variants.
- `AcceptedIffLegal`: accepted are exactly the complete, ordered, unique, legal histories; the
  reference definition speaks of pairs of events, the code of neighbours and of a state.
- `TamperStateIsLastAccepted`: a refused event does not change what later ones are judged by.
- `NestedMissingMeansAbsent`: a nested object that is present but wrong is never called missing.

**utc_calendar** (`MCUtcCalendar`). Days from 1600 to 2001 (a whole Gregorian cycle), of the
years 0 to 5 and 9990 to 9999 at the ends of what the parser accepts, and seconds over a
leap day and a new year.
- `EachStepCounts`: the next timestamp is one unit later, with no gap and no repetition.

**secure_time_gate** (`MCSecureTimeGate`). Window 60, skew limit 2; ages 0, 60 and 61, skews 2
and 3, so that each limit is met exactly and passed by one; four valid policies, invalid
policies, statuses with members missing or contradictory. Texts: every member of a legal policy
and status in turn missing, repeated, or with one of seventeen other values; the times of a
status in every combination; strings with every kind of escape; numbers around the limits of the
integer type (100 here, `MCMaxInt`); as policies also every sequence of up to 4 tokens
(`ShortBound`), and every text of the JSON grammar of up to 7 tokens (`GrammarBound`) with any
one token replaced. Seven tokens hold an object or an array in each other, with a comma.
- `GateIsTheDocs`: the documented conditions, although the code skips a condition whose number
  is absent.
- `BlockIsAnError`: merging diagnostics by code loses no error.
- `PrimaryCauseStandsAlone`: a tampered or unavailable clock is the only cause named.
- `TextIsAcceptedIffLegal`: accepted are exactly the objects of the specifications, and a
  refusal has a reason.
- `WrittenTextReadsBack`: an object is what its text says, and survives being written.
- `ReadIffGrammar`: the reader agrees with the grammar, which is generated without it.

**secure_channel** (`MCSecureChannel`). Each document with any one member wrong, access lists of
up to two rules, every payload family, one or two requests against every kind of response.
Two fingerprints and two identifiers, each in both letter cases. Calls interleave freely.
One wrong member at a time is enough for `RefusalIsExplained`, since a refusal needs one
cause and further ones can only add reports.
- `AuthorizedIffAdmissible`: parsing and checking together let pass what the contract
  documents allow, no more and no less.
- `AcceptedResponseAnswers`: with two requests outstanding a response is accepted only for
  those it answers.
- `RefusalIsExplained`, `ParsedContractIsBaseline`, `StagesAreDisjoint`: see their comments.

Four runs are expected to fail. Each refutes a sentence of the documentation:

| run | the sentence | what the code does |
|---|---|---|
| missing_asset | `docs/IMPLEMENT.md:159`: missing means listed in no package | the search skips every package with the owner's `pkl_id` (`ov_vf_resolver.cpp:235`) |
| repeated_merge | `docs/IMPLEMENT.md:186`: the merge does not depend on the input order | policies with equal keys come in any order, and diagnostics carry the index (`supplemental_merge.cpp:456`) |
| audit_surface | `specs/objects/SecurityEvent.md:78`: parsing and validation report the same of an event | a malformed optional id is dropped and found missing; an incomplete event is not checked further (`audit.cpp:1212`) |
| response_stages | `specs/objects/ProtectedApiEnvelope.md:66-78`: parsing does not check diagnostics against status | it does (`secure_channel.cpp:2085`), so the second check never fails |

In the first, a rejection is explained wrongly (the asset is there, in a package that is
not searched). In the others the verdict stays the same and only the report differs: for
`repeated_merge`, ImplementsOverlay shows that graph and verdict do not depend on the order.

Fairness. `WF_vars(Next)` is assumed of each function of the pipeline, of the program of DcpLoad
(`WF_load_vars(LoadNext)`) and of the audit validator: a call is one sequential loop that waits
for nothing, so a step that can be taken is taken. It is needed only for `ImplementsResolution`
and `ImplementsOverlay`, which contain that a request is answered. UtcCalendar, SecureTimeGate,
SecureTimeText and SecureChannel state safety only; a caller of the channel need not make any
call.

## 4. Proofs

`OvVfResolver_proofs` proves of `OvVfResolver!Spec`, for all sets of ids, rates and paths, all
numbers of packages and reels:
`TypeCorrectness` (TypeOK), `WalkCorrectness` (WalkIsDetermined), `MetadataCorrectness`
(PublishedMetadataAgrees), `ShowReadiness` (PublishedGraphIsShowReady) and
`RejectionCorrectness` (RejectionIsExplained). The inductive invariant is TypeOK and
WalkIsDetermined. The properties of the published graph are not inductive: at `Finish` they
need to know that reels, sources and flags were accumulated from exactly the reels
before the cursor, and that none is missing when no diagnostic was made.
WalkIsDetermined says this as a function of the cursor. `StepWalks` proves it step
by step, and the others follow from it at `Finish`. Its part `TargetCodes` says which code a
rejection before the walk has. `Refinement` is the safety part of `ImplementsResolution`: initial
states map to initial states and every step to a step of CompositionResolution or a stutter.

`SupplementalMerge_proofs` proves of `SupplementalMerge!Spec`, for every base graph, list of
packages and list of policies: `TypeCorrectness` (TypeOK), `MetadataCorrectness`
(MergedMetadataAgrees), `ConflictCorrectness` (ConflictIsReported) and `Refinement` (the safety
part of `ImplementsOverlay`: initial states map to initial states, every step to a step of
SupplementalOverlay or a stutter). The inductive invariant is TypeOK and `WalkIsDetermined`. It
speaks of the turns that the two loops have taken (`Taken`): a lane is decided exactly if a turn
overrides it, and by the track of such a turn (`DecisionsFollow`); a conflict is reported exactly
if a turn overrides a lane by another track than the decision (`ConflictsFollow`); anything else
exactly if a policy was refused or a turn failed (`FailuresFollow`). None of the properties is
inductive without it, since the code compares each override with the decision alone, not with
the overrides before it. Because these three do not mention the order of the turns, what holds at
the end does not depend on the order that the sort chose: `WholeWalk` and `SameAnswer` conclude
that the verdict and the graph are those of the unordered set of policies.

`PlaybackTimeline_proofs` proves, for every graph of the types: `TypeCorrectness`,
`BuildCorrectness` (BuiltIffShowReady), `TimelineCompleteness` (TimelineIsTheGraph) and
`SpecificDiagnostic` (SpecificDiagnosticWins). The inductive invariant is TypeOK and
`TurnsAreDetermined`: the diagnostics, the external flag and, as long as no reel was skipped, the
entries and lane counts are functions of the graph and of the reels behind the cursor.
`Turn` says what one turn adds, `ShowReadyIffClean` that a graph without a report is show-ready
in the words of the property, which does not mention reports.

`DcpPipeline_proofs` proves of `DcpPipeline!Spec`, for every set of shows: `TypeCorrectness`
(TypeOK), `HandoverCorrectness` (OnlyRatesFailTheTimeline), `StructureCorrectness`
(TimelineFollowsTheCpl) and `BackingCorrectness` (TimelineLanesAreBacked). It instantiates the
three proof modules above for the calls, with every possible argument as a request
(`ResolvingData` and the like: the instances speak of the same types), so that their lemmas can be
cited for a call within the program. The inductive invariant is `Stages`: each call keeps the
invariant of its component while it runs and afterwards, and its argument is what the call before
it has published. The types alone would not do, since build refuses most graphs that are well
typed: `ResolvedIsSound` and `MergedIsSound` collect what a caller may rely on (`Sound`: the reels
and lanes of the CPL, metadata that agree, a package behind each track), from the lemmas
`PublishedGraph` of the two components. `OnlyRatesReported` then says which of the checks of build
are left.

`DcpDocuments_proofs` is about the documents alone. It has no specification: it says of each
parser which documents it accepts and what it returns of them, in three parts.
- The tree of a document exists. The reader and the lookups in the tree are recursive functions,
  of which nothing is known until a function with their equation is found; `Induction` and
  `Recursion` find it, with sets of numbers in place of the properties that a theorem of the library
  would take. `DocumentTree` then says that what is read is a tree.
- The reader refuses exactly what is not well-formed (`RootIffWellFormed`). The code carries a
  stack, the definition counts depths, so the invariant of the reader, `ReaderAt`, ties the two
  after each token: the stack is as long as the depth is, its element at a height has the name of
  the opening tag that reached this height last (`Opener`), a root is there
  exactly if there was a tag and the depth is 0, and the reader has failed exactly if some token so far is
  out of place (`SoundToken`). `OneOpener` is the step from the stack to the tag that `Closes` speaks
  of. `CodePointIsNumber` says of a numeric entity that the check for overflow, which the code
  makes digit by digit, refuses exactly the numbers above the largest code point.
- A document without an error report is legal and gives a value of its type, and the other way
  round (the lemmas named `Clean...`): one per check of the code, from the digest and the path of a
  chunk up to `CleanAssetMap`, `CleanPackingList` and `CleanCpl`. The two sides speak of different
  things: the code of what it has read so far, DcpLegality of all pairs of nodes.

`DcpPipeline_proofs` begins with the reports of the parsers. Each tells of a defect at its path
(the lemmas named `Told...`): `Reaches` says that a path leads to a node and is kept up while the
code descends (`ReachesItem`, `ReachesBelow`), `NodeAtFacts` that this is where the path leads in
the words of DcpLegality. A document without a tree is called malformed, and no other is
(`ReadOrMalformed`).
`IsParsed` collects what is known of a package that was read.

`DcpPipeline_proofs` then proves of `DcpLoad!LoadSpec`, for every set of documents:
`LoadCorrectness` (LoadedIffLegal), `ReaderCorrectness` (ReaderAcceptsTheMarkup), `LoadDiagnostics` (DiagnosticsPointIntoTheDocument),
`ComparisonCorrectness` (CheckedPackagesAreBacked), and the four properties of the calls, of shows
that are read instead of given (`LoadTypeCorrectness`, `LoadHandoverCorrectness`,
`LoadStructureCorrectness`, `LoadBackingCorrectness`). The inductive invariant is `Loading`: the
invariant `Stages` of the calls, and `Reading`, that each package read so far is what its documents
say (`IsLoaded`), that the last one read is parsed by the parsers of this document, and that no
call has begun while packages are read (`Start`). `IsShow` is what the calls need of a show;
HasLanes, which they assume of shows that are given, here follows from what CplParser accepts.
For CheckedPackagesAreBacked the walk of the resolver is needed once more: that a reference is
broken says that a package lists its asset and cannot play it, and of a compared package only the
type is left as the reason.

`AuditExport_proofs` proves, for every document: `TypeCorrectness`, `Acceptance`
(AcceptedIffLegal), `TamperWalk` (TamperStateIsLastAccepted) and `NestedMissing`
(NestedMissingMeansAbsent). The inductive invariant is TypeOK and `CallIsDetermined`, with a part
for each stage: while items are built, there is no report exactly if header and items so far are
good, and then the events are their normal forms (`Building`); the validated object is the one of
the document (`Object`); during the walk the tamper state is that of the last accepted event
(`Walking`). `Acceptance` needs all three, since parsing accepts after two stages which look at
different forms of one event. `NeighboursSuffice` and `StrictOrderSuffices` go from the
neighbours that the code compares to the pairs that the property speaks of, `StoryVerdict` from
the state that it carries to the history.

`SecureChannel_proofs` proves, for every session and every order of the calls:
`TypeCorrectness`, `RefusalExplained` (RefusalIsExplained), `Baseline` (ParsedContractIsBaseline),
`Authorization` (AuthorizedIffAdmissible), `Stages` (StagesAreDisjoint) and `Answering`
(AcceptedResponseAnswers). The inductive invariant is `CallsAreDetermined`: each entry of the log
is what its call reports of the documents of the session, each value is there exactly if its call
reported nothing, and whoever was judged was judged with the values that are there now. This is
where the freedom of the order is dealt with; the rest are statements about the values. The lemmas
`RuleFacts`, `AclFacts`, `ContractFacts`, `RequestFacts`, `ResponseFacts` and others say that a
document without a report gives a value of its type which keeps the documented conditions;
`JudgedIffAdmissible` and `ComparedIffAnswers` then show that what the second stage still compares
is exactly what is missing for the property.

`SecureTime_proofs` has four parts. The first proves of `SecureTimeGate!Spec`, for every policy and
status: `GateCorrectness` (GateIsTheDocs), `ReportCorrectness` (BlockIsAnError),
`PrimaryCauseCorrectness` (PrimaryCauseStandsAlone) and `TypeCorrectness` (TypeOK). `IInv` is TypeOK
and `GateInv`: at each `pc` of the gate both objects are valid, the flags hold exactly if one of the
conditions checked so far failed, and the diagnostics match the flags; the end state then has all
conditions. That conditions are only evaluated on complete statuses is part of it.

The second proves of `SecureTimeText!TextSpec`, for every set of texts: `TextLegality`
(TextIsAcceptedIffLegal), `TextTypeCorrectness` (TypeOK) and `TextGateCorrectness` (the other three,
of a caller that parses what it gives to the gate). The invariant is `IInv` and `TextInv`: what is
parsed so far is what the texts of this caller parse to. The work is about the values.
- The reader is a recursive function, of which nothing is known until a function with its equation
  is found. `ParserExists` finds it from the end of the text down: a value begins before what it
  consists of, and behind the end nothing is found (`Advances`, `NothingBehind`, `KeepsOneMore`).
- What is read is a value of JSON (`ReadsJson`): a set of values that is closed under taking members
  and items (`IsJson`) stands for the induction over a value that the provers do not have.
- Of such a value the parsers and the documents say the same (`PolicyReads` and `StatusReads` for
  the members, `PolicyMade` and `StatusValid` for the object that is made), although the parsers
  speak of the first member of a name and of sorted, named sources, the documents of items. An
  object that is accepted is one that the gate may be given (`PolicyJudged`, `StatusJudged`).

The third proves of the same specification `TextRoundTrip` (WrittenTextReadsBack).
`StringReadsBack` says that a string which is escaped and decoded is itself, glyph by glyph.
`ReadsAs(tokens, v)` says that the reader finds v wherever these tokens stand in a text: it holds of
what is written for a string, a number or a literal, and the lemmas `ListReads`, `BracketedReads`
and `MemberReads` carry it to lists, members and objects, by induction from the last entry of a list
to the first. `WrittenObject` then says which value the written text has, and what it says of each
name; `PolicyMadeAgain` and `StatusMadeAgain` that the object made of it is the one that was
written.

The fourth proves of `UtcCalendar!CalendarSpec`, for every walk: `CalendarCorrectness`
(EachStepCounts), where the run takes one cycle of 400 years and the ends of the range. The
invariant is that the walk is at a timestamp the parser accepts (`CalendarInv`).
`MarchToMarch` is the arithmetic of the code: from one first of March to the next it counts 366
days exactly in the years that the separate function for leap years says; `NextMonthDays` and
`NextYearDays` carry it to the ends of months.

TLC has checked each inductive invariant on the instance of the run of its component before it was
proved (`Stages` on the shows of dcp_pipeline that are not told by documents).

Assumptions. All are named, stand in the module that declares the constants, and are evaluated by
TLC in every run. They are of four kinds:
- The inputs are of their types (`RequestsAssumption`, `GraphsAssumption`, `MergeAssumption`,
  `DocumentsAssumption`, `SessionsAssumption`, `TextsAssumption`, ...). The types contain wrong
  documents, malformed texts and inconsistent graphs; `FieldsAssumption` and `ListsAssumption` only say what a document is.
- `None` and `WrongType` are no values (`NoneAssumption`, the two `AbsenceAssumption`s,
  `None \notin Timeline` in GraphsAssumption, `None \notin AssetEntry` in `ValuesAssumption`, and
  that None is no text and no parsed object in `TextsAssumption`): the code has `std::optional` for
  this, TLA+ has untyped atoms.
- Texts behave as the code's conversions expect: the names in what is written are runs of plain
  characters, and so is the empty run (`TextsAssumption`, `RunsAssumption`); a text that has the
  form of a time stands for one (`TimesAssumption`); the lower-case copy of a text is a UUID, hexadecimal
  or empty exactly if the text is (`AuditAssumption`, `TextAssumption`), and the ranks by which
  policies are sorted are distinct for distinct ids (`MergeAssumption`).
- What a stage is given has passed the stage before it. The packages of a show come from the parsers:
  their compositions have reels with lanes (`ShowsAssumption`), ids and paths are not empty and rates
  are positive (`ParsersAssumption`). That the packages which the parsers return are such is proved
  of LoadSpec, where no show is given. `StagesAssumption` repeats the assumptions
  of the three components, which are instantiated without arguments.

Only model-checked:
- the liveness part of both refinements (`WF_vars(Next)`, ENABLED);
- the JSON reader against the grammar of its texts (`ReadIffGrammar`): the grammar is generated by
  recursive operators in the MC module, and the comparison is an induction over derivations;
- the four refuted sentences, which are examples by nature.

## 5. Not modelled, and abstractions

- How characters group into tokens and words. The whitespace around and between them is skipped,
  so texts that a comment or a tag cuts in two have whitespace at the cut, values of a namespace
  have none around them, and a path has none in it. A literal that is misspelt is one token
  ("junk").
- Members of DCP documents that no code reads after parsing (annotations, creators, hints).
- A digest is modelled by its number of bytes. The code allows the equals signs of base64
  in every block, and the specification does not say where they stand: both are modelled so. An
  algorithm whose name has both sha1 and sha256 in it is SHA-1, as in the code.
- The order in which files are found: a package has one packing list and at most one
  composition, as in the tests.
- The JSON readers of audit and secure_channel, copies of the one modelled: their documents are
  what the reader returns.
- JSON writers of timeline, audit, channel and of diagnostics: formatting without decisions.
- Diagnostics are sets; texts and repetition are dropped. In SecureChannel the path of a
  diagnostic is kept as far as a property reads it.
- Contracts built by hand, without a parser, are not given to `authorize_request`.
- Applications and modules without code: see `components`.

## 6. Plan

Done, in this order: DcpModel, OvVfResolver with its abstraction and proofs;
SupplementalMerge with its abstraction; PlaybackTimeline; DcpPipeline; AuditExport;
UtcTime and SecureTimeGate with proofs; SecureChannel; JsonReader and SecureTimeText; XmlDom, the
three parsers of DCP documents, and DcpLoad.
SupplementalMerge, PlaybackTimeline, AuditExport and SecureChannel with proofs of all their safety
properties, the refinement of SupplementalOverlay among them; DcpPipeline with proofs, composed of
those of its components; DcpLoad with the proofs of the three parsers; SecureTimeText with the
proofs of its parsers and writers.

What could follow:
1. The JSON reader against its grammar for all texts, as it was done for the reader of XML: the
   grammar would have to be said without derivations, as `WellFormed` says the other with depths.
2. The channel and the clock together, once code joins them.
