---------------------------- MODULE AuditExport -----------------------------
(***************************************************************************)
(* audit::parse_audit_export and audit::validate_audit_export: one call on *)
(* a document chosen in Init. Parsing reads the header, builds the events  *)
(* one by one, assembles the export if nothing was wrong, and validates    *)
(* it; validate is called directly on an object, with the same checks from *)
(* there on. Every diagnostic of this component has severity error.        *)
(*                                                                         *)
(* A document is the tree of a JSON text; an object is a document without  *)
(* an absent or mistyped mandatory part. Strings are kept as far as the    *)
(* checks tell them apart: identifiers and times are numbered in their     *)
(* byte order, and the members that are only compared to a list of known   *)
(* values are "known" or not. A definition whose name starts with Mut is a *)
(* plausible mistake in the definition after it.                           *)
(***************************************************************************)
EXTENDS Naturals, Sequences

CONSTANTS
  Documents,     \* the arguments
  Identifier,    \* strings given as ids; Uuid: those of them with the form of a
  Uuid,          \*   UUID, whatever the case of their letters
  LowerCopy,     \* lower_copy, a function on Identifier
  Instant,       \* strings given as times; UtcTimestamp: those that have the
  UtcTimestamp,  \*   form of one
  None,          \* an absent member; as a document, a text that is not JSON
  WrongType      \* a member of another JSON type than the expected one

ASSUME AuditAssumption ==
  /\ Uuid \subseteq Identifier /\ Identifier \subseteq Nat
  /\ UtcTimestamp \subseteq Instant /\ Instant \subseteq Nat
  /\ LowerCopy \in [Identifier -> Identifier]
  /\ \A i \in Identifier : i \in Uuid <=> LowerCopy[i] \in Uuid

Optional(S) == S \cup {None}

Json(S) == S \cup {None, WrongType}

TamperType == {"tamper_detected", "tamper_lockout", "recovery_started",
               "recovery_completed", "recovery_failed"}

EventType == TamperType \cup
  {"auth_session_authenticated", "trust_peer_validated", "acl_decision_recorded",
   "api_request_processed", "export_audit_exported"}

Enumeration == {"known", "unsupported"}
Text == {"empty", "text"}
Fingerprint == {"lower_hex", "other"}
PlaceholderType == {"none", "pending", "unsupported"}
OrderedBy == {"event_time_utc,event_id", "other"}
Direction == {"ascending", "other"}
Metadata == {"strings", "mixed"}   \* an object whose members are strings, or not all are

EventDocument ==
  [event_id         : Json(Identifier),
   event_type       : Json(EventType \cup {"unsupported"}),
   severity         : Json(Enumeration),
   event_time_utc   : Json(Instant),
   producer_role    : Json(Enumeration),
   actor_identity   : Json([role : Json(Enumeration), device_id : Json(Text),
                            certificate_fingerprint : Json(Fingerprint)]),
   peer_identity    : Json([role : Json(Enumeration), device_id : Json(Text),
                            certificate_fingerprint : Json(Fingerprint)]),
   correlation_id   : Json(Text),
   request_id       : Json(Identifier),
   export_id_ref    : Json(Identifier),
   payload_metadata : Json(Metadata),
   decision_summary : Json([content : Json(Text)]),
   result_summary   : Json([content : Json(Text)])]

Document ==
  [export_id          : Json(Identifier),
   export_time_utc    : Json(Instant),
   events             : Json(Seq(EventDocument \cup {WrongType})),
   ordering           : Json([ordered_by : Json(OrderedBy),
                              direction  : Json(Direction)]),
   export_metadata    : Json([completeness : Json(Enumeration), export_reason : Json(Text),
                              source_channel_id : Json(Text)]),
   integrity_metadata : Json([placeholder_type : Json(PlaceholderType),
                              placeholder_ref : Json(Text)])]

ASSUME DocumentsAssumption == Documents \subseteq Document \cup {None, WrongType}

IdentitySummary ==
  [role : Enumeration, device_id : Text, certificate_fingerprint : Fingerprint]

Summary == [content : Text]

SecurityEvent ==
  [event_id         : Identifier,
   event_type       : EventType \cup {"unsupported"},
   severity         : Enumeration,
   event_time_utc   : Instant,
   producer_role    : Enumeration,
   actor_identity   : Optional(IdentitySummary),
   peer_identity    : Optional(IdentitySummary),
   correlation_id   : Optional(Text),
   request_id       : Optional(Identifier),
   export_id_ref    : Optional(Identifier),
   payload_metadata : {"strings"},
   decision_summary : Optional(Summary),
   result_summary   : Optional(Summary)]

Ordering == [ordered_by : OrderedBy, direction : Direction]
ExportMetadata == [completeness : Enumeration, export_reason : Text, source_channel_id : Text]
IntegrityMetadata == [placeholder_type : PlaceholderType, placeholder_ref : Optional(Text)]

Export ==
  [export_id          : Identifier,
   export_time_utc    : Instant,
   events             : Seq(SecurityEvent),
   ordering           : Ordering,
   export_metadata    : ExportMetadata,
   integrity_metadata : IntegrityMetadata]

\* An absent member is not a mistyped one, and no value of the expected type is either.
ASSUME AbsenceAssumption ==
  /\ None # WrongType
  /\ \A v \in {None, WrongType} :
       /\ v \notin Identifier /\ v \notin Instant
       /\ v \notin EventType \cup Enumeration \cup Text \cup Fingerprint \cup PlaceholderType
                    \cup OrderedBy \cup Direction \cup Metadata
       /\ v \notin IdentitySummary \cup Summary \cup SecurityEvent \cup Seq(SecurityEvent)
       /\ v \notin Ordering \cup ExportMetadata \cup IntegrityMetadata \cup Export

-----------------------------------------------------------------------------
(* Diagnostics. A place is a triple: event (0 for the export), member, and *)
(* member of that member.                                                  *)

Report(code, where, failed) == IF failed THEN {[code |-> code, where |-> where]} ELSE {}

OptionalMember(v, legal, code, where) ==
  Report("audit.invalid_type", where, v = WrongType)
  \cup Report(code, where, v \notin legal \cup {None, WrongType})

RequiredMember(v, legal, code, where) ==
  Report("audit.missing_required_field", where, v = None)
  \cup OptionalMember(v, legal, code, where)

RequiredText(v, where) == RequiredMember(v, Text, "audit.invalid_value", where)

-----------------------------------------------------------------------------
(* One event *)

IdentityDiagnostics(v, k, field) ==
  IF v \in {None, WrongType} THEN Report("audit.invalid_type", <<k, field, "none">>, v = WrongType)
  ELSE RequiredMember(v.role, {"known"}, "audit.invalid_identity_role", <<k, field, "role">>)
       \cup RequiredText(v.device_id, <<k, field, "device_id">>)
       \cup RequiredMember(v.certificate_fingerprint, {"lower_hex"}, "audit.invalid_fingerprint",
                           <<k, field, "certificate_fingerprint">>)

SummaryDiagnostics(v, k, field, content) ==
  IF v \in {None, WrongType} THEN Report("audit.invalid_type", <<k, field, "none">>, v = WrongType)
  ELSE RequiredMember(v.content, {"text"}, "audit.invalid_value", <<k, field, content>>)

\* What is wrong with the members one by one. On an object, which has its
\* mandatory members, these are the checks of the object validator.
MemberDiagnostics(e, k) ==
  RequiredMember(e.event_id, Uuid, "audit.invalid_identifier", <<k, "event_id", "none">>)
  \cup RequiredMember(e.event_type, EventType, "audit.invalid_event_type", <<k, "event_type", "none">>)
  \cup RequiredMember(e.severity, {"known"}, "audit.invalid_severity", <<k, "severity", "none">>)
  \cup RequiredMember(e.event_time_utc, UtcTimestamp, "audit.invalid_event_time", <<k, "event_time_utc", "none">>)
  \cup RequiredMember(e.producer_role, {"known"}, "audit.invalid_producer_role", <<k, "producer_role", "none">>)
  \cup OptionalMember(e.correlation_id, Text, "audit.invalid_value", <<k, "correlation_id", "none">>)
  \cup OptionalMember(e.request_id, Uuid, "audit.invalid_identifier", <<k, "request_id", "none">>)
  \cup OptionalMember(e.export_id_ref, Uuid, "audit.invalid_identifier", <<k, "export_id_ref", "none">>)
  \cup RequiredMember(e.payload_metadata, {"strings"}, "audit.invalid_type", <<k, "payload_metadata", "none">>)
  \cup IdentityDiagnostics(e.actor_identity, k, "actor_identity")
  \cup IdentityDiagnostics(e.peer_identity, k, "peer_identity")
  \cup SummaryDiagnostics(e.decision_summary, k, "decision_summary", "decision")
  \cup SummaryDiagnostics(e.result_summary, k, "result_summary", "result")

\* The event types that require each optional member.
RequiringTypes ==
  [actor_identity   |-> {"auth_session_authenticated", "acl_decision_recorded", "api_request_processed"},
   peer_identity    |-> {"auth_session_authenticated", "trust_peer_validated"},
   decision_summary |-> {"auth_session_authenticated", "trust_peer_validated", "acl_decision_recorded"},
   result_summary   |-> TamperType \cup {"api_request_processed", "export_audit_exported"},
   request_id       |-> {"api_request_processed"},
   export_id_ref    |-> {"export_audit_exported"}]

Nested == {"actor_identity", "peer_identity", "decision_summary", "result_summary"}

SemanticsDiagnostics(type, present, k) ==
  {[code |-> "audit.missing_required_field", where |-> <<k, f, "none">>] :
     f \in {f \in DOMAIN RequiringTypes : type \in RequiringTypes[f] /\ f \notin present}}

\* Whether build_security_event has what it needs to make an event at all.
MandatoryMembersParse(e) ==
  /\ e.event_id \in Uuid /\ e.event_type \in EventType /\ e.severity = "known"
  /\ e.event_time_utc \in UtcTimestamp /\ e.producer_role = "known"
  /\ e.payload_metadata = "strings"

MutPresentAfterParsing(e) ==
  {f \in Nested : e[f] \notin {None, WrongType}} \cup {f \in {"request_id", "export_id_ref"} : e[f] \in Uuid}

\* An invalid nested object still counts as present; an invalid id does not.
PresentAfterParsing(e) ==
  {f \in Nested : e[f] # None} \cup {f \in {"request_id", "export_id_ref"} : e[f] \in Uuid}

BuildDiagnostics(e, k) ==
  IF e = WrongType THEN Report("audit.invalid_type", <<k, "none", "none">>, TRUE)
  ELSE MemberDiagnostics(e, k) \cup
       IF MandatoryMembersParse(e) THEN SemanticsDiagnostics(e.event_type, PresentAfterParsing(e), k) ELSE {}

LowerId(id) == IF id = None THEN None ELSE LowerCopy[id]

Normalized(e) ==
  [e EXCEPT !.event_id = LowerId(@), !.request_id = LowerId(@), !.export_id_ref = LowerId(@)]

-----------------------------------------------------------------------------
(* The export *)

ObjectMember(v, where, Inner(_)) ==
  Report("audit.missing_required_field", where, v = None)
  \cup Report("audit.invalid_type", where, v = WrongType)
  \cup IF v \in {None, WrongType} THEN {} ELSE Inner(v)

In(member, sub) == <<0, member, sub>>

\* parse_ordering_rules reports the first rule that is not the fixed one.
OrderingDiagnostics(o) ==
  LET shape == RequiredMember(o.ordered_by, OrderedBy, "audit.invalid_value", In("ordering", "ordered_by"))
               \cup RequiredMember(o.direction, Direction, "audit.invalid_value", In("ordering", "direction"))
  IN IF shape # {} THEN shape
     ELSE IF o.ordered_by = "other"
     THEN Report("audit.export_ordering_mismatch", In("ordering", "ordered_by"), TRUE)
     ELSE Report("audit.export_ordering_mismatch", In("ordering", "direction"), o.direction = "other")

MetadataDiagnostics(m) ==
  RequiredMember(m.completeness, {"known"}, "audit.invalid_export_completeness", In("export_metadata", "completeness"))
  \cup RequiredText(m.export_reason, In("export_metadata", "export_reason"))
  \cup RequiredText(m.source_channel_id, In("export_metadata", "source_channel_id"))

MissingPlaceholder(m) ==
  Report("audit.missing_required_field", In("integrity_metadata", "placeholder_ref"),
         m.placeholder_type # "none" /\ m.placeholder_ref # "text")

PlaceholderDiagnostics(m) ==
  RequiredMember(m.placeholder_type, {"none", "pending"}, "audit.invalid_integrity_placeholder",
                 In("integrity_metadata", "placeholder_type"))
  \cup OptionalMember(m.placeholder_ref, Text, "audit.invalid_value", In("integrity_metadata", "placeholder_ref"))
  \cup IF m.placeholder_type \in {"none", "pending"} THEN MissingPlaceholder(m) ELSE {}

ParseHeader(d) ==
  RequiredMember(d.export_id, Uuid, "audit.invalid_identifier", In("export_id", "none"))
  \cup RequiredMember(d.export_time_utc, UtcTimestamp, "audit.invalid_export_time", In("export_time_utc", "none"))
  \cup ObjectMember(d.ordering, In("ordering", "none"), OrderingDiagnostics)
  \cup ObjectMember(d.export_metadata, In("export_metadata", "none"), MetadataDiagnostics)
  \cup ObjectMember(d.integrity_metadata, In("integrity_metadata", "none"), PlaceholderDiagnostics)
  \cup Report("audit.missing_required_field", In("events", "none"), d.events = None)
  \cup Report("audit.invalid_type", In("events", "none"), d.events = WrongType)

ValidateHeader(x) ==
  Report("audit.invalid_identifier", In("export_id", "none"), x.export_id \notin Uuid)
  \cup Report("audit.invalid_export_time", In("export_time_utc", "none"), x.export_time_utc \notin UtcTimestamp)
  \cup Report("audit.export_ordering_mismatch", In("ordering", "ordered_by"), x.ordering.ordered_by = "other")
  \cup Report("audit.export_ordering_mismatch", In("ordering", "direction"), x.ordering.direction = "other")
  \cup Report("audit.invalid_export_completeness", In("export_metadata", "completeness"),
              x.export_metadata.completeness # "known")
  \cup Report("audit.invalid_integrity_placeholder", In("integrity_metadata", "placeholder_type"),
              x.integrity_metadata.placeholder_type = "unsupported")
  \cup MissingPlaceholder(x.integrity_metadata)

\* event_less: the bytes of the times, then those of the ids.
EventLess(e, f) ==
  \/ e.event_time_utc < f.event_time_utc
  \/ e.event_time_utc = f.event_time_utc /\ e.event_id < f.event_id

MutSeen(events, k) == k > 1 /\ events[k - 1].event_id = events[k].event_id

Seen(events, k) == \E j \in 1 .. k - 1 : events[j].event_id = events[k].event_id

ValidationSurface(e, k) ==
  MemberDiagnostics(e, k)
  \cup SemanticsDiagnostics(e.event_type, {f \in DOMAIN RequiringTypes : e[f] # None}, k)

EventDiagnostics(x, k) ==
  LET e == x.events[k] IN
  ValidationSurface(e, k)
  \cup Report("audit.duplicate_event_id", <<k, "event_id", "none">>, Seen(x.events, k))
  \cup Report("audit.export_ordering_mismatch", <<k, "none", "none">>, k > 1 /\ EventLess(e, x.events[k - 1]))
  \cup Report("audit.invalid_event_export_linkage", <<k, "export_id_ref", "none">>,
              e.export_id_ref \notin {None, x.export_id})

TamperState == {"clear", "detected", "locked_out", "recovery_in_progress"}

\* The states in which each event is legal, and the state it leads to.
LegalIn ==
  [tamper_detected    |-> TamperState,
   tamper_lockout     |-> {"detected"},
   recovery_started   |-> {"detected", "locked_out"},
   recovery_completed |-> {"recovery_in_progress"},
   recovery_failed    |-> {"recovery_in_progress"}]

LeadsTo ==
  [tamper_detected    |-> "detected",
   tamper_lockout     |-> "locked_out",
   recovery_started   |-> "recovery_in_progress",
   recovery_completed |-> "clear",
   recovery_failed    |-> "locked_out"]

-----------------------------------------------------------------------------
(* The call *)

VARIABLES
  call,          \* "parse" or "validate"
  document,
  pc,            \* "parse", "build", "validate", "check", "tamper" or "done"
  index,
  events,        \* built so far
  export,        \* the object under validation, None before
  diagnostics,
  tamper_state,
  value          \* result.value of a parse

vars == <<call, document, pc, index, events, export, diagnostics, tamper_state, value>>

Items == IF document.events \in {None, WrongType} THEN <<>> ELSE document.events

Init ==
  /\ document \in Documents
  /\ call \in {"parse"} \cup IF document \in Export THEN {"validate"} ELSE {}
  /\ pc = call
  /\ index = 1
  /\ events = <<>>
  /\ export = IF call = "validate" THEN document ELSE None
  /\ diagnostics = {}
  /\ tamper_state = "clear"
  /\ value = None

RejectRoot ==
  /\ pc = "parse"
  /\ document \in {None, WrongType}
  /\ diagnostics' = Report("audit.json_malformed", In("none", "none"), document = None)
                    \cup Report("audit.invalid_type", In("none", "none"), document = WrongType)
  /\ pc' = "done"
  /\ UNCHANGED <<call, document, index, events, export, tamper_state, value>>

ParseExportHeader ==
  /\ pc = "parse"
  /\ document \notin {None, WrongType}
  /\ diagnostics' = ParseHeader(document)
  /\ pc' = "build"
  /\ UNCHANGED <<call, document, index, events, export, tamper_state, value>>

\* An event is dropped when anything was wrong so far, in it or before it.
BuildEvent ==
  /\ pc = "build"
  /\ index <= Len(Items)
  /\ diagnostics' = diagnostics \cup BuildDiagnostics(Items[index], index)
  /\ events' = IF diagnostics' = {} THEN Append(events, Normalized(Items[index])) ELSE events
  /\ index' = index + 1
  /\ UNCHANGED <<call, document, pc, export, tamper_state, value>>

RejectDocument ==
  /\ pc = "build"
  /\ index > Len(Items)
  /\ diagnostics # {}
  /\ pc' = "done"
  /\ UNCHANGED <<call, document, index, events, export, diagnostics, tamper_state, value>>

MutAssembleExport ==
  /\ pc = "build"
  /\ index > Len(Items)
  /\ \A d \in diagnostics : d.where[1] > 0
  /\ export' = [document EXCEPT !.export_id = LowerCopy[@], !.events = events]
  /\ pc' = "validate"
  /\ UNCHANGED <<call, document, index, events, diagnostics, tamper_state, value>>

AssembleExport ==
  /\ pc = "build"
  /\ index > Len(Items)
  /\ diagnostics = {}
  /\ export' = [document EXCEPT !.export_id = LowerCopy[@], !.events = events]
  /\ pc' = "validate"
  /\ UNCHANGED <<call, document, index, events, diagnostics, tamper_state, value>>

ValidateExportHeader ==
  /\ pc = "validate"
  /\ diagnostics' = ValidateHeader(export)
  /\ pc' = "check"
  /\ index' = 1
  /\ UNCHANGED <<call, document, events, export, tamper_state, value>>

CheckEvent ==
  /\ pc = "check"
  /\ index <= Len(export.events)
  /\ diagnostics' = diagnostics \cup EventDiagnostics(export, index)
  /\ index' = index + 1
  /\ UNCHANGED <<call, document, pc, events, export, tamper_state, value>>

StartTamperWalk ==
  /\ pc = "check"
  /\ index > Len(export.events)
  /\ pc' = "tamper"
  /\ index' = 1
  /\ UNCHANGED <<call, document, events, export, diagnostics, tamper_state, value>>

OtherEvent ==
  /\ pc = "tamper"
  /\ index <= Len(export.events)
  /\ export.events[index].event_type \notin TamperType
  /\ index' = index + 1
  /\ UNCHANGED <<call, document, pc, events, export, diagnostics, tamper_state, value>>

MutTamperEvent ==
  /\ pc = "tamper"
  /\ index <= Len(export.events)
  /\ LET type == export.events[index].event_type IN
       /\ type \in TamperType
       /\ tamper_state' = LeadsTo[type]
       /\ diagnostics' = diagnostics \cup
            Report("audit.invalid_tamper_transition", <<index, "event_type", "none">>, tamper_state \notin LegalIn[type])
  /\ index' = index + 1
  /\ UNCHANGED <<call, document, pc, events, export, value>>

\* An illegal event is reported and leaves the state as it was.
TamperEvent ==
  /\ pc = "tamper"
  /\ index <= Len(export.events)
  /\ LET type == export.events[index].event_type IN
       /\ type \in TamperType
       /\ tamper_state' = IF tamper_state \in LegalIn[type] THEN LeadsTo[type] ELSE tamper_state
       /\ diagnostics' = diagnostics \cup
            Report("audit.invalid_tamper_transition", <<index, "event_type", "none">>, tamper_state \notin LegalIn[type])
  /\ index' = index + 1
  /\ UNCHANGED <<call, document, pc, events, export, value>>

Finish ==
  /\ pc = "tamper"
  /\ index > Len(export.events)
  /\ value' = IF call = "parse" /\ diagnostics = {} THEN export ELSE None
  /\ pc' = "done"
  /\ UNCHANGED <<call, document, index, events, export, diagnostics, tamper_state>>

Next ==
  \/ RejectRoot \/ ParseExportHeader \/ BuildEvent \/ RejectDocument \/ AssembleExport
  \/ ValidateExportHeader \/ CheckEvent \/ StartTamperWalk \/ OtherEvent \/ TamperEvent \/ Finish

\* The call is one sequential function: it never waits, so it keeps stepping.
Spec == Init /\ [][Next]_vars /\ WF_vars(Next)

-----------------------------------------------------------------------------
(* Properties *)

\* Every variable keeps its type, what is validated is an object, and no event
\* that was dropped is among those of the object.
TypeOK ==
  /\ call \in {"parse", "validate"}
  /\ document \in Document \cup {None, WrongType}
  /\ pc \in {"parse", "build", "validate", "check", "tamper", "done"}
  /\ index \in Nat \ {0}
  /\ events \in Seq(SecurityEvent)
  /\ export \in Optional(Export)
  /\ tamper_state \in TamperState
  /\ value \in Optional(Export)
  /\ pc \in {"validate", "check", "tamper"} => export # None
  /\ (export # None /\ call = "parse") => Len(export.events) = Len(document.events)

TamperEventsBefore(x, k) == {j \in 1 .. k - 1 : x.events[j].event_type \in TamperType}

\* What the last tamper or recovery event before one of the type must be.
Follows ==
  [tamper_lockout     |-> {"tamper_detected"},
   recovery_started   |-> {"tamper_detected", "tamper_lockout", "recovery_failed"},
   recovery_completed |-> {"recovery_started"},
   recovery_failed    |-> {"recovery_started"}]

TamperStoryHolds(x) ==
  \A k \in DOMAIN x.events : x.events[k].event_type \in DOMAIN Follows =>
    \E j \in TamperEventsBefore(x, k) :
      /\ x.events[j].event_type \in Follows[x.events[k].event_type]
      /\ \A i \in TamperEventsBefore(x, k) : i <= j

EventIsSound(x, k) ==
  LET e == x.events[k] IN
  /\ e.event_id \in Uuid /\ e.event_time_utc \in UtcTimestamp /\ e.event_type \in EventType
  /\ e.severity = "known" /\ e.producer_role = "known"
  /\ e.request_id \in Optional(Uuid) /\ e.export_id_ref \in {None, x.export_id}
  /\ \A f \in {"actor_identity", "peer_identity"} :
       e[f] # None => e[f].role = "known" /\ e[f].certificate_fingerprint = "lower_hex"
  /\ \A f \in {"decision_summary", "result_summary"} : e[f] # None => e[f].content # "empty"
  /\ \A f \in DOMAIN RequiringTypes : e.event_type \in RequiringTypes[f] => e[f] # None

\* An export as it should be: sound events of one export, strictly ordered by
\* time and id over the whole list with no id twice, and a tamper story in which
\* each step follows from the last one.
Legal(x) ==
  /\ x.export_id \in Uuid /\ x.export_time_utc \in UtcTimestamp
  /\ x.ordering = [ordered_by |-> "event_time_utc,event_id", direction |-> "ascending"]
  /\ x.export_metadata.completeness = "known"
  /\ \/ x.integrity_metadata.placeholder_type = "none"
     \/ x.integrity_metadata.placeholder_type = "pending" /\ x.integrity_metadata.placeholder_ref = "text"
  /\ \A k \in DOMAIN x.events : EventIsSound(x, k)
  /\ \A j, k \in DOMAIN x.events :
       j < k => EventLess(x.events[j], x.events[k]) /\ x.events[j].event_id # x.events[k].event_id
  /\ TamperStoryHolds(x)

LowerExport(x) ==
  [x EXCEPT !.export_id = LowerCopy[@], !.events = [k \in DOMAIN @ |-> Normalized(@[k])]]

\* Both entry points accept exactly the legal exports, and parsing one that it
\* accepts yields its content with lower-case ids: although validation compares
\* neighbours, drops events, and keeps walking after a violation, no illegal
\* export passes and no legal one is refused.
AcceptedIffLegal ==
  pc = "done" =>
    IF call = "parse"
    THEN /\ diagnostics = {} <=> document \in Export /\ Legal(LowerExport(document))
         /\ value = IF diagnostics = {} THEN LowerExport(document) ELSE None
    ELSE diagnostics = {} <=> Legal(document)

\* The tamper state is that of the last event that was not refused: a refused
\* event leaves no trace in what is demanded of the later ones.
TamperStateIsLastAccepted ==
  pc = "tamper" =>
    LET accepted == {j \in TamperEventsBefore(export, index) :
          \A d \in diagnostics : ~(d.code = "audit.invalid_tamper_transition" /\ d.where[1] = j)}
    IN IF accepted = {} THEN tamper_state = "clear"
       ELSE \E j \in accepted : /\ \A i \in accepted : i <= j
                                /\ tamper_state = LeadsTo[export.events[j].event_type]

\* specs/objects/SecurityEvent.md: a nested object that is present but invalid
\* is never reported as missing on top of its own defect.
NestedMissingMeansAbsent ==
  \A d \in diagnostics :
    (d.code = "audit.missing_required_field" /\ d.where[1] > 0 /\ d.where[2] \in Nested /\ d.where[3] = "none") =>
      document.events[d.where[1]][d.where[2]] = None

\* What the checks of one event report of the k-th one, the comparisons with the
\* other events and the export left aside.
EventSurface(k) ==
  {d \in diagnostics : d.where[1] = k /\ d.code \notin
     {"audit.duplicate_event_id", "audit.export_ordering_mismatch",
      "audit.invalid_event_export_linkage", "audit.invalid_tamper_transition"}}

\* specs/objects/SecurityEvent.md: parsing a document reports of each event what
\* validating the object it describes does.
ParsingReportsWhatValidationDoes ==
  (pc = "done" /\ call = "parse" /\ document \in Export) =>
    \A k \in DOMAIN document.events :
      EventSurface(k) = ValidationSurface(document.events[k], k)
=============================================================================
