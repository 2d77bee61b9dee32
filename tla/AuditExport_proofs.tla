------------------------- MODULE AuditExport_proofs -------------------------
(***************************************************************************)
(* Proofs about AuditExport, for every document: its type, that both entry *)
(* points accept exactly the legal exports, the state of the tamper walk   *)
(* and the absence of misleading reports. The inductive invariant says     *)
(* what each stage has reported as a function of the events it has seen.   *)
(***************************************************************************)
EXTENDS AuditExport, WellFoundedInduction, TLAPS

-----------------------------------------------------------------------------
(* The inductive invariant *)

\* What validation reports of the header and of the first n events, tamper walk aside.
CheckDiagnostics(x, n) == ValidateHeader(x) \cup UNION {EventDiagnostics(x, k) : k \in 1 .. n}

\* The story of the first n events.
StoryUpTo(x, n) ==
  \A k \in 1 .. n : x.events[k].event_type \in DOMAIN Follows =>
    \E j \in TamperEventsBefore(x, k) :
      /\ x.events[j].event_type \in Follows[x.events[k].event_type]
      /\ \A i \in TamperEventsBefore(x, k) : i <= j

Valid(x) == CheckDiagnostics(x, Len(x.events)) = {} /\ StoryUpTo(x, Len(x.events))

WellBuilt(d) ==
  /\ d \notin {None, WrongType}
  /\ ParseHeader(d) = {}
  /\ \A k \in DOMAIN d.events : BuildDiagnostics(d.events[k], k) = {}

\* While the document is parsed.
Building ==
  /\ pc \in {"parse", "build"} => call = "parse" /\ export = None
  /\ pc = "parse" => index = 1 /\ events = <<>> /\ diagnostics = {}
  /\ pc = "build" =>
       /\ document \notin {None, WrongType} /\ index \in 1 .. Len(Items) + 1
       /\ diagnostics = {} <=>
            ParseHeader(document) = {} /\ \A k \in 1 .. index - 1 : BuildDiagnostics(Items[k], k) = {}
       /\ diagnostics = {} => events = [k \in 1 .. index - 1 |-> Normalized(Items[k])]

\* The object under validation is the one described by the document.
Object ==
  export # None =>
    IF call = "parse" THEN document \in Export /\ export = LowerExport(document)
    ELSE document \in Export /\ export = document

Refusal(k) == [code |-> "audit.invalid_tamper_transition", where |-> <<k, "event_type", "none">>]

Refused == {k \in 1 .. index - 1 : Refusal(k) \in diagnostics}

Accepted == TamperEventsBefore(export, index) \ Refused

\* While the object is validated.
Walking ==
  /\ pc \in {"validate", "check", "tamper"} => export # None
  /\ pc \in {"parse", "build", "validate", "check"} => tamper_state = "clear"
  /\ pc = "validate" => diagnostics = {}
  /\ pc = "check" => /\ index \in 1 .. Len(export.events) + 1
                     /\ diagnostics = CheckDiagnostics(export, index - 1)
  /\ pc = "tamper" =>
       /\ index \in 1 .. Len(export.events) + 1
       /\ diagnostics = CheckDiagnostics(export, Len(export.events)) \cup {Refusal(k) : k \in Refused}
       /\ IF Accepted = {} THEN tamper_state = "clear"
          ELSE \E j \in Accepted : /\ \A i \in Accepted : i <= j
                                   /\ tamper_state = LeadsTo[export.events[j].event_type]
       /\ Refused = {} <=> StoryUpTo(export, index - 1)

Answered ==
  /\ pc # "done" => value = None
  /\ pc = "done" =>
       IF export = None
       THEN call = "parse" /\ diagnostics # {} /\ value = None /\ ~WellBuilt(document)
       ELSE /\ diagnostics = {} <=> Valid(export)
            /\ value = IF call = "parse" /\ diagnostics = {} THEN export ELSE None

CallIsDetermined == Building /\ Object /\ Walking /\ Answered /\ NestedMissingMeansAbsent

-----------------------------------------------------------------------------
(* Members, one by one *)

LEMMA Absence ==
  /\ None # WrongType
  /\ \A v \in {None, WrongType} :
       /\ v \notin Identifier /\ v \notin Uuid /\ v \notin Instant /\ v \notin UtcTimestamp
       /\ v \notin EventType /\ v \notin Enumeration /\ v \notin Text /\ v \notin Fingerprint
       /\ v \notin PlaceholderType /\ v \notin OrderedBy /\ v \notin Direction /\ v \notin Metadata
       /\ v \notin IdentitySummary /\ v \notin Summary /\ v \notin SecurityEvent /\ v \notin Seq(SecurityEvent)
       /\ v \notin Ordering /\ v \notin ExportMetadata /\ v \notin IntegrityMetadata /\ v \notin Export
  BY AbsenceAssumption, AuditAssumption

LEMMA OptionalMemberFacts ==
  ASSUME NEW v, NEW legal, NEW code, NEW where
  PROVE  /\ OptionalMember(v, legal, code, where) = {} <=> v # WrongType /\ v \in legal \cup {None}
         /\ \A d \in OptionalMember(v, legal, code, where) :
              d.where = where /\ d.code \in {"audit.invalid_type", code}
  <1>1. OptionalMember(v, legal, code, where) = {} <=> v # WrongType /\ v \in legal \cup {None}
    BY AbsenceAssumption DEF OptionalMember, Report
  <1>2. ASSUME NEW d \in OptionalMember(v, legal, code, where)
        PROVE  \/ d = [code |-> "audit.invalid_type", where |-> where]
               \/ d = [code |-> code, where |-> where]
    BY DEF OptionalMember, Report
  <1> QED BY <1>1, <1>2

LEMMA RequiredMemberFacts ==
  ASSUME NEW v, NEW legal, NEW code, NEW where
  PROVE  /\ RequiredMember(v, legal, code, where) = {} <=> v \in legal \ {None, WrongType}
         /\ \A d \in RequiredMember(v, legal, code, where) :
              d.where = where /\ d.code \in {"audit.missing_required_field", "audit.invalid_type", code}
  <1>1. \A d \in Report("audit.missing_required_field", where, v = None) :
          d.where = where /\ d.code = "audit.missing_required_field"
    BY DEF Report
  <1>2. Report("audit.missing_required_field", where, v = None) = {} <=> v # None
    BY DEF Report
  <1> QED BY <1>1, <1>2, OptionalMemberFacts DEF RequiredMember

-----------------------------------------------------------------------------
(* Events *)

SoundIdentity(v) ==
  v # WrongType /\ (v # None => /\ v.role = "known" /\ v.device_id \in Text
                                /\ v.certificate_fingerprint = "lower_hex")

SoundSummary(v) == v # WrongType /\ (v # None => v.content = "text")

SoundMembers(e) ==
  /\ e.event_id \in Uuid /\ e.event_type \in EventType /\ e.severity = "known"
  /\ e.event_time_utc \in UtcTimestamp /\ e.producer_role = "known"
  /\ e.correlation_id \in Optional(Text)
  /\ e.request_id \in Optional(Uuid) /\ e.export_id_ref \in Optional(Uuid)
  /\ e.payload_metadata = "strings"
  /\ SoundIdentity(e.actor_identity) /\ SoundIdentity(e.peer_identity)
  /\ SoundSummary(e.decision_summary) /\ SoundSummary(e.result_summary)

HasRequired(e) == \A f \in DOMAIN RequiringTypes : e.event_type \in RequiringTypes[f] => e[f] # None

LEMMA IdentityFacts ==
  ASSUME NEW v, NEW k, NEW field
  PROVE  /\ IdentityDiagnostics(v, k, field) = {} <=> SoundIdentity(v)
         /\ \A d \in IdentityDiagnostics(v, k, field) :
              /\ d.where[1] = k
              /\ d.where[3] = "none" => d.code = "audit.invalid_type"
              /\ d.code \in {"audit.missing_required_field", "audit.invalid_type",
                             "audit.invalid_identity_role", "audit.invalid_value", "audit.invalid_fingerprint"}
  <1>1. CASE v \in {None, WrongType}
    <2>1. IdentityDiagnostics(v, k, field) =
            IF v = WrongType THEN {[code |-> "audit.invalid_type", where |-> <<k, field, "none">>]} ELSE {}
      BY <1>1 DEF IdentityDiagnostics, Report
    <2>2. CASE v = WrongType
      <3> DEFINE report == [code |-> "audit.invalid_type", where |-> <<k, field, "none">>]
      <3>1. report.code = "audit.invalid_type" /\ report.where[1] = k
        OBVIOUS
      <3>2. IdentityDiagnostics(v, k, field) = {report}
        BY <2>1, <2>2
      <3> HIDE DEF report
      <3> QED BY <2>2, <3>1, <3>2 DEF SoundIdentity
    <2>3. CASE v # WrongType
      BY <1>1, <2>1, <2>3 DEF SoundIdentity
    <2> QED BY <2>2, <2>3
  <1>2. CASE v \notin {None, WrongType}
    <2> DEFINE role == RequiredMember(v.role, {"known"}, "audit.invalid_identity_role", <<k, field, "role">>)
               device == RequiredText(v.device_id, <<k, field, "device_id">>)
               fingerprint == RequiredMember(v.certificate_fingerprint, {"lower_hex"}, "audit.invalid_fingerprint",
                                             <<k, field, "certificate_fingerprint">>)
    <2>1. IdentityDiagnostics(v, k, field) = role \cup device \cup fingerprint
      BY <1>2 DEF IdentityDiagnostics
    <2>2. /\ role = {} <=> v.role = "known"
          /\ \A d \in role : d.where = <<k, field, "role">> /\
               d.code \in {"audit.missing_required_field", "audit.invalid_type", "audit.invalid_identity_role"}
      BY RequiredMemberFacts, Absence DEF Enumeration
    <2>3. /\ device = {} <=> v.device_id \in Text
          /\ \A d \in device : d.where = <<k, field, "device_id">> /\
               d.code \in {"audit.missing_required_field", "audit.invalid_type", "audit.invalid_value"}
      BY RequiredMemberFacts, Absence DEF RequiredText
    <2>4. /\ fingerprint = {} <=> v.certificate_fingerprint = "lower_hex"
          /\ \A d \in fingerprint : d.where = <<k, field, "certificate_fingerprint">> /\
               d.code \in {"audit.missing_required_field", "audit.invalid_type", "audit.invalid_fingerprint"}
      BY RequiredMemberFacts, Absence DEF Fingerprint
    <2> HIDE DEF role, device, fingerprint
    <2>5. IdentityDiagnostics(v, k, field) = {} <=> SoundIdentity(v)
      BY <1>2, <2>1, <2>2, <2>3, <2>4 DEF SoundIdentity
    <2>6. ASSUME NEW d \in IdentityDiagnostics(v, k, field)
          PROVE  /\ d.where[1] = k /\ d.where[3] # "none"
                 /\ d.code \in {"audit.missing_required_field", "audit.invalid_type",
                                "audit.invalid_identity_role", "audit.invalid_value", "audit.invalid_fingerprint"}
      BY <2>1, <2>2, <2>3, <2>4
    <2> QED BY <2>5, <2>6
  <1> QED BY <1>1, <1>2

LEMMA SummaryFacts ==
  ASSUME NEW v, NEW k, NEW field, NEW content, content # "none"
  PROVE  /\ SummaryDiagnostics(v, k, field, content) = {} <=> SoundSummary(v)
         /\ \A d \in SummaryDiagnostics(v, k, field, content) :
              /\ d.where[1] = k
              /\ d.where[3] = "none" => d.code = "audit.invalid_type"
              /\ d.code \in {"audit.missing_required_field", "audit.invalid_type", "audit.invalid_value"}
  <1>1. CASE v \in {None, WrongType}
    <2>1. SummaryDiagnostics(v, k, field, content) =
            IF v = WrongType THEN {[code |-> "audit.invalid_type", where |-> <<k, field, "none">>]} ELSE {}
      BY <1>1 DEF SummaryDiagnostics, Report
    <2>2. CASE v = WrongType
      <3> DEFINE report == [code |-> "audit.invalid_type", where |-> <<k, field, "none">>]
      <3>1. report.code = "audit.invalid_type" /\ report.where[1] = k
        OBVIOUS
      <3>2. SummaryDiagnostics(v, k, field, content) = {report}
        BY <2>1, <2>2
      <3> HIDE DEF report
      <3> QED BY <2>2, <3>1, <3>2 DEF SoundSummary
    <2>3. CASE v # WrongType
      BY <1>1, <2>1, <2>3 DEF SoundSummary
    <2> QED BY <2>2, <2>3
  <1>2. CASE v \notin {None, WrongType}
    <2>1. SummaryDiagnostics(v, k, field, content) =
            RequiredMember(v.content, {"text"}, "audit.invalid_value", <<k, field, content>>)
      BY <1>2 DEF SummaryDiagnostics
    <2> QED BY <1>2, <2>1, RequiredMemberFacts, Absence DEF Text, SoundSummary
  <1> QED BY <1>1, <1>2

\* A report of a member that does not say that a nested object is missing.
Harmless(d, k) ==
  /\ d.where[1] = k /\ d.code # "audit.invalid_tamper_transition"
  /\ (d.code = "audit.missing_required_field" /\ d.where[3] = "none") => d.where[2] \notin Nested

LEMMA PlainMemberFacts ==
  ASSUME NEW v, NEW legal, NEW code, NEW k, NEW field,
         field \notin Nested, code # "audit.invalid_tamper_transition"
  PROVE  /\ \A d \in RequiredMember(v, legal, code, <<k, field, "none">>) : Harmless(d, k)
         /\ \A d \in OptionalMember(v, legal, code, <<k, field, "none">>) : Harmless(d, k)
  <1>1. /\ \A d \in RequiredMember(v, legal, code, <<k, field, "none">>) :
             d.where = <<k, field, "none">> /\ d.code # "audit.invalid_tamper_transition"
        /\ \A d \in OptionalMember(v, legal, code, <<k, field, "none">>) :
             d.where = <<k, field, "none">> /\ d.code # "audit.invalid_tamper_transition"
    BY RequiredMemberFacts, OptionalMemberFacts
  <1> QED BY <1>1 DEF Harmless

LEMMA NestedMemberFacts ==
  ASSUME NEW v, NEW k, NEW field
  PROVE  /\ \A d \in IdentityDiagnostics(v, k, field) : Harmless(d, k)
         /\ \A content : content # "none" => \A d \in SummaryDiagnostics(v, k, field, content) : Harmless(d, k)
  BY IdentityFacts, SummaryFacts DEF Harmless

LEMMA MemberFacts ==
  ASSUME NEW e, NEW k
  PROVE  /\ MemberDiagnostics(e, k) = {} <=> SoundMembers(e)
         /\ \A d \in MemberDiagnostics(e, k) : Harmless(d, k)
  <1> DEFINE ids == RequiredMember(e.event_id, Uuid, "audit.invalid_identifier", <<k, "event_id", "none">>)
             types == RequiredMember(e.event_type, EventType, "audit.invalid_event_type", <<k, "event_type", "none">>)
             severities == RequiredMember(e.severity, {"known"}, "audit.invalid_severity", <<k, "severity", "none">>)
             times == RequiredMember(e.event_time_utc, UtcTimestamp, "audit.invalid_event_time", <<k, "event_time_utc", "none">>)
             producers == RequiredMember(e.producer_role, {"known"}, "audit.invalid_producer_role", <<k, "producer_role", "none">>)
             correlations == OptionalMember(e.correlation_id, Text, "audit.invalid_value", <<k, "correlation_id", "none">>)
             requests == OptionalMember(e.request_id, Uuid, "audit.invalid_identifier", <<k, "request_id", "none">>)
             links == OptionalMember(e.export_id_ref, Uuid, "audit.invalid_identifier", <<k, "export_id_ref", "none">>)
             payloads == RequiredMember(e.payload_metadata, {"strings"}, "audit.invalid_type", <<k, "payload_metadata", "none">>)
             actors == IdentityDiagnostics(e.actor_identity, k, "actor_identity")
             peers == IdentityDiagnostics(e.peer_identity, k, "peer_identity")
             decisions == SummaryDiagnostics(e.decision_summary, k, "decision_summary", "decision")
             results == SummaryDiagnostics(e.result_summary, k, "result_summary", "result")
  <1>1. MemberDiagnostics(e, k) = ids \cup types \cup severities \cup times \cup producers
          \cup correlations \cup requests \cup links \cup payloads
          \cup actors \cup peers \cup decisions \cup results
    BY DEF MemberDiagnostics
  <1>2. /\ ids = {} <=> e.event_id \in Uuid \ {None, WrongType}
        /\ types = {} <=> e.event_type \in EventType \ {None, WrongType}
        /\ severities = {} <=> e.severity \in {"known"} \ {None, WrongType}
        /\ times = {} <=> e.event_time_utc \in UtcTimestamp \ {None, WrongType}
        /\ producers = {} <=> e.producer_role \in {"known"} \ {None, WrongType}
        /\ payloads = {} <=> e.payload_metadata \in {"strings"} \ {None, WrongType}
    <2>1. ids = {} <=> e.event_id \in Uuid \ {None, WrongType}
      BY RequiredMemberFacts
    <2>2. types = {} <=> e.event_type \in EventType \ {None, WrongType}
      BY RequiredMemberFacts
    <2>3. severities = {} <=> e.severity \in {"known"} \ {None, WrongType}
      BY RequiredMemberFacts
    <2>4. times = {} <=> e.event_time_utc \in UtcTimestamp \ {None, WrongType}
      BY RequiredMemberFacts
    <2>5. producers = {} <=> e.producer_role \in {"known"} \ {None, WrongType}
      BY RequiredMemberFacts
    <2>6. payloads = {} <=> e.payload_metadata \in {"strings"} \ {None, WrongType}
      BY RequiredMemberFacts
    <2> QED BY <2>1, <2>2, <2>3, <2>4, <2>5, <2>6
  <1>3. /\ correlations = {} <=> e.correlation_id # WrongType /\ e.correlation_id \in Text \cup {None}
        /\ requests = {} <=> e.request_id # WrongType /\ e.request_id \in Uuid \cup {None}
        /\ links = {} <=> e.export_id_ref # WrongType /\ e.export_id_ref \in Uuid \cup {None}
    <2>1. correlations = {} <=> e.correlation_id # WrongType /\ e.correlation_id \in Text \cup {None}
      BY OptionalMemberFacts
    <2>2. requests = {} <=> e.request_id # WrongType /\ e.request_id \in Uuid \cup {None}
      BY OptionalMemberFacts
    <2>3. links = {} <=> e.export_id_ref # WrongType /\ e.export_id_ref \in Uuid \cup {None}
      BY OptionalMemberFacts
    <2> QED BY <2>1, <2>2, <2>3
  <1>4. /\ actors = {} <=> SoundIdentity(e.actor_identity)
        /\ peers = {} <=> SoundIdentity(e.peer_identity)
        /\ decisions = {} <=> SoundSummary(e.decision_summary)
        /\ results = {} <=> SoundSummary(e.result_summary)
    BY IdentityFacts, SummaryFacts
  <1>5. \A d \in ids \cup types \cup severities \cup times \cup producers
                 \cup correlations \cup requests \cup links \cup payloads : Harmless(d, k)
    <2>1. /\ \A d \in ids : Harmless(d, k)
          /\ \A d \in types : Harmless(d, k)
          /\ \A d \in severities : Harmless(d, k)
          /\ \A d \in times : Harmless(d, k)
          /\ \A d \in producers : Harmless(d, k)
          /\ \A d \in payloads : Harmless(d, k)
      BY PlainMemberFacts DEF Nested
    <2>2. /\ \A d \in correlations : Harmless(d, k)
          /\ \A d \in requests : Harmless(d, k)
          /\ \A d \in links : Harmless(d, k)
      BY PlainMemberFacts DEF Nested
    <2> HIDE DEF ids, types, severities, times, producers, correlations, requests,
                 links, payloads
    <2> QED BY <2>1, <2>2
  <1>6. /\ \A d \in actors : Harmless(d, k)
        /\ \A d \in peers : Harmless(d, k)
        /\ \A d \in decisions : Harmless(d, k)
        /\ \A d \in results : Harmless(d, k)
    <2>1. /\ \A d \in actors : Harmless(d, k)
          /\ \A d \in peers : Harmless(d, k)
      BY NestedMemberFacts
    <2>2. "decision" # "none" /\ "result" # "none"
      OBVIOUS
    <2>3. /\ \A d \in decisions : Harmless(d, k)
          /\ \A d \in results : Harmless(d, k)
      BY <2>2, NestedMemberFacts
    <2> QED BY <2>1, <2>2, <2>3
  <1> HIDE DEF ids, types, severities, times, producers, correlations, requests, links, payloads, actors, peers, decisions, results
  <1>7. MemberDiagnostics(e, k) = {} <=> SoundMembers(e)
    <2>1. /\ \A S \in {Uuid, EventType, UtcTimestamp, {"known"}, {"strings"}} : S \ {None, WrongType} = S
          /\ WrongType \notin Text /\ WrongType \notin Uuid /\ None # WrongType
      BY Absence DEF Enumeration, Metadata
    <2> QED BY <1>1, <1>2, <1>3, <1>4, <2>1 DEF SoundMembers, Optional
  <1> QED BY <1>1, <1>5, <1>6, <1>7

LEMMA SemanticsFacts ==
  ASSUME NEW e, NEW present, NEW k
  PROVE  /\ SemanticsDiagnostics(e.event_type, present, k) = {} <=>
              \A f \in DOMAIN RequiringTypes : e.event_type \in RequiringTypes[f] => f \in present
         /\ \A d \in SemanticsDiagnostics(e.event_type, present, k) :
              /\ d.where[1] = k /\ d.code = "audit.missing_required_field"
              /\ d.where[2] \in DOMAIN RequiringTypes \ present
  <1> DEFINE report(f) == [code |-> "audit.missing_required_field", where |-> <<k, f, "none">>]
  <1>1. \A f : report(f).code = "audit.missing_required_field" /\ report(f).where[1] = k /\ report(f).where[2] = f
    OBVIOUS
  <1>2. SemanticsDiagnostics(e.event_type, present, k) =
          {report(f) : f \in {f \in DOMAIN RequiringTypes : e.event_type \in RequiringTypes[f] /\ f \notin present}}
    BY DEF SemanticsDiagnostics
  <1> HIDE DEF report
  <1> QED BY <1>1, <1>2

LEMMA RequirableMembers ==
  DOMAIN RequiringTypes = Nested \cup {"request_id", "export_id_ref"}
  BY DEF RequiringTypes, Nested

\* What is reported of one event says that a nested object is missing only if it is.
Faithful(d, e, k) ==
  /\ d.code # "audit.invalid_tamper_transition" /\ d.where[1] = k
  /\ (d.code = "audit.missing_required_field" /\ d.where[3] = "none" /\ d.where[2] \in Nested)
       => e[d.where[2]] = None

LEMMA BuildFacts ==
  ASSUME NEW e, NEW k
  PROVE  /\ BuildDiagnostics(e, k) = {} <=> e # WrongType /\ SoundMembers(e) /\ HasRequired(e)
         /\ \A d \in BuildDiagnostics(e, k) : Faithful(d, e, k)
  <1> DEFINE wrong == [code |-> "audit.invalid_type", where |-> <<k, "none", "none">>]
             semantics == SemanticsDiagnostics(e.event_type, PresentAfterParsing(e), k)
  <1>1. CASE e = WrongType
    <2>1. wrong.code = "audit.invalid_type" /\ wrong.where[1] = k
      OBVIOUS
    <2>2. BuildDiagnostics(e, k) = {wrong}
      BY <1>1 DEF BuildDiagnostics, Report
    <2> HIDE DEF wrong
    <2> QED BY <1>1, <2>1, <2>2 DEF Faithful
  <1>2. CASE e # WrongType
    <2>1. BuildDiagnostics(e, k) = MemberDiagnostics(e, k) \cup IF MandatoryMembersParse(e) THEN semantics ELSE {}
      BY <1>2 DEF BuildDiagnostics
    <2>2. /\ semantics = {} <=>
               \A f \in DOMAIN RequiringTypes : e.event_type \in RequiringTypes[f] => f \in PresentAfterParsing(e)
          /\ \A d \in semantics : /\ d.where[1] = k /\ d.code = "audit.missing_required_field"
                                  /\ d.where[2] \in DOMAIN RequiringTypes \ PresentAfterParsing(e)
      BY SemanticsFacts
    <2>3. SoundMembers(e) => MandatoryMembersParse(e)
      BY DEF SoundMembers, MandatoryMembersParse
    <2>4. SoundMembers(e) => \A f \in DOMAIN RequiringTypes : f \in PresentAfterParsing(e) <=> e[f] # None
      BY RequirableMembers, Absence DEF SoundMembers, PresentAfterParsing, Optional, Nested
    <2>5. \A f \in Nested : f \notin PresentAfterParsing(e) => e[f] = None
      BY DEF PresentAfterParsing
    <2> HIDE DEF semantics
    <2>6. BuildDiagnostics(e, k) = {} <=> SoundMembers(e) /\ HasRequired(e)
      BY <2>1, <2>2, <2>3, <2>4, MemberFacts DEF HasRequired
    <2>7. \A d \in BuildDiagnostics(e, k) : Faithful(d, e, k)
      BY <2>1, <2>2, <2>5, MemberFacts DEF Harmless, Faithful
    <2> QED BY <1>2, <2>6, <2>7
  <1> QED BY <1>1, <1>2

LEMMA SurfaceFacts ==
  ASSUME NEW e, NEW k
  PROVE  /\ ValidationSurface(e, k) = {} <=> SoundMembers(e) /\ HasRequired(e)
         /\ \A d \in ValidationSurface(e, k) : Faithful(d, e, k)
  <1> DEFINE given == {f \in DOMAIN RequiringTypes : e[f] # None}
             semantics == SemanticsDiagnostics(e.event_type, given, k)
  <1>1. ValidationSurface(e, k) = MemberDiagnostics(e, k) \cup semantics
    BY DEF ValidationSurface
  <1>2. /\ semantics = {} <=> \A f \in DOMAIN RequiringTypes : e.event_type \in RequiringTypes[f] => f \in given
        /\ \A d \in semantics : /\ d.where[1] = k /\ d.code = "audit.missing_required_field"
                                /\ d.where[2] \in DOMAIN RequiringTypes \ given
    BY SemanticsFacts
  <1>3. \A f \in DOMAIN RequiringTypes : f \in given <=> e[f] # None
    OBVIOUS
  <1> HIDE DEF semantics, given
  <1>4. semantics = {} <=> HasRequired(e)
    BY <1>2, <1>3 DEF HasRequired
  <1>5. \A d \in semantics : Faithful(d, e, k)
    BY <1>2, <1>3 DEF Faithful
  <1>6. \A d \in MemberDiagnostics(e, k) : Faithful(d, e, k)
    BY MemberFacts DEF Harmless, Faithful
  <1> QED BY <1>1, <1>4, <1>5, <1>6, MemberFacts

LEMMA EventFacts ==
  ASSUME NEW x, NEW k
  PROVE  /\ EventDiagnostics(x, k) = {} <=>
              /\ SoundMembers(x.events[k]) /\ HasRequired(x.events[k])
              /\ ~Seen(x.events, k)
              /\ ~(k > 1 /\ EventLess(x.events[k], x.events[k - 1]))
              /\ x.events[k].export_id_ref \in {None, x.export_id}
         /\ \A d \in EventDiagnostics(x, k) : Faithful(d, x.events[k], k)
  <1> DEFINE surface == ValidationSurface(x.events[k], k)
             duplicate == Report("audit.duplicate_event_id", <<k, "event_id", "none">>, Seen(x.events, k))
             disorder == Report("audit.export_ordering_mismatch", <<k, "none", "none">>,
                                k > 1 /\ EventLess(x.events[k], x.events[k - 1]))
             stranger == Report("audit.invalid_event_export_linkage", <<k, "export_id_ref", "none">>,
                                x.events[k].export_id_ref \notin {None, x.export_id})
  <1>1. EventDiagnostics(x, k) = surface \cup duplicate \cup disorder \cup stranger
    BY DEF EventDiagnostics
  <1>2. /\ duplicate = {} <=> ~Seen(x.events, k)
        /\ disorder = {} <=> ~(k > 1 /\ EventLess(x.events[k], x.events[k - 1]))
        /\ stranger = {} <=> x.events[k].export_id_ref \in {None, x.export_id}
    BY DEF Report
  <1>3. /\ \A d \in duplicate : Faithful(d, x.events[k], k)
        /\ \A d \in disorder : Faithful(d, x.events[k], k)
        /\ \A d \in stranger : Faithful(d, x.events[k], k)
    <2>1. \A d \in duplicate : d.code = "audit.duplicate_event_id" /\ d.where[1] = k
      BY DEF Report
    <2>2. \A d \in disorder : d.code = "audit.export_ordering_mismatch" /\ d.where[1] = k
      BY DEF Report
    <2>3. \A d \in stranger : d.code = "audit.invalid_event_export_linkage" /\ d.where[1] = k
      BY DEF Report
    <2> HIDE DEF duplicate, disorder, stranger
    <2> QED BY <2>1, <2>2, <2>3 DEF Faithful
  <1> HIDE DEF surface, duplicate, disorder, stranger
  <1> QED BY <1>1, <1>2, <1>3, SurfaceFacts DEF surface

LEMMA SoundIdentityTyped ==
  ASSUME NEW v \in Json([role : Json(Enumeration), device_id : Json(Text),
                         certificate_fingerprint : Json(Fingerprint)]),
         SoundIdentity(v)
  PROVE  v \in Optional(IdentitySummary)
  <1>1. CASE v = None
    BY <1>1 DEF Optional
  <1>2. CASE v # None
    <2>1. v \in [role : Json(Enumeration), device_id : Json(Text), certificate_fingerprint : Json(Fingerprint)]
      BY <1>2 DEF Json, SoundIdentity
    <2>2. v.role \in Enumeration /\ v.device_id \in Text /\ v.certificate_fingerprint \in Fingerprint
      BY <1>2 DEF SoundIdentity, Enumeration, Fingerprint
    <2> QED BY <2>1, <2>2 DEF IdentitySummary, Optional
  <1> QED BY <1>1, <1>2

LEMMA SoundSummaryTyped ==
  ASSUME NEW v \in Json([content : Json(Text)]), SoundSummary(v)
  PROVE  v \in Optional(Summary)
  <1>1. CASE v = None
    BY <1>1 DEF Optional
  <1>2. CASE v # None
    <2>1. v \in [content : Json(Text)]
      BY <1>2 DEF Json, SoundSummary
    <2>2. v.content \in Text
      BY <1>2 DEF SoundSummary, Text
    <2> QED BY <2>1, <2>2 DEF Summary, Optional
  <1> QED BY <1>1, <1>2

LEMMA SoundEventTyped ==
  ASSUME NEW e \in EventDocument, SoundMembers(e)
  PROVE  e \in SecurityEvent
  <1>1. /\ e.actor_identity \in Optional(IdentitySummary) /\ e.peer_identity \in Optional(IdentitySummary)
        /\ e.decision_summary \in Optional(Summary) /\ e.result_summary \in Optional(Summary)
    BY SoundIdentityTyped, SoundSummaryTyped DEF EventDocument, SoundMembers
  <1>2. /\ e.event_id \in Identifier /\ e.event_type \in EventType \cup {"unsupported"}
        /\ e.severity \in Enumeration /\ e.event_time_utc \in Instant /\ e.producer_role \in Enumeration
        /\ e.correlation_id \in Optional(Text) /\ e.request_id \in Optional(Identifier)
        /\ e.export_id_ref \in Optional(Identifier) /\ e.payload_metadata \in {"strings"}
    BY AuditAssumption DEF SoundMembers, Optional, Enumeration
  <1> QED BY <1>1, <1>2 DEF EventDocument, SecurityEvent

LEMMA NormalizedFacts ==
  ASSUME NEW e \in SecurityEvent
  PROVE  /\ Normalized(e) \in SecurityEvent
         /\ \A f \in DOMAIN e \ {"event_id", "request_id", "export_id_ref"} : Normalized(e)[f] = e[f]
         /\ SoundMembers(Normalized(e)) <=> SoundMembers(e)
         /\ HasRequired(Normalized(e)) <=> HasRequired(e)
  <1> DEFINE lowered == Normalized(e)
  <1>1. /\ DOMAIN e = {"event_id", "event_type", "severity", "event_time_utc", "producer_role", "actor_identity",
                       "peer_identity", "correlation_id", "request_id", "export_id_ref", "payload_metadata",
                       "decision_summary", "result_summary"}
        /\ e.event_id \in Identifier /\ e.request_id \in Optional(Identifier) /\ e.export_id_ref \in Optional(Identifier)
    BY DEF SecurityEvent
  <1>2. /\ lowered.event_id = LowerId(e.event_id) /\ lowered.request_id = LowerId(e.request_id)
        /\ lowered.export_id_ref = LowerId(e.export_id_ref) /\ DOMAIN lowered = DOMAIN e
        /\ \A f \in DOMAIN e \ {"event_id", "request_id", "export_id_ref"} : lowered[f] = e[f]
    BY <1>1 DEF Normalized
  <1>3. \A id \in Optional(Identifier) :
          /\ LowerId(id) = None <=> id = None
          /\ id # None => LowerId(id) \in Identifier /\ (LowerId(id) \in Uuid <=> id \in Uuid)
    BY AuditAssumption, Absence DEF LowerId, Optional
  <1>4. None \notin Identifier
    BY Absence
  <1>5. Normalized(e) \in SecurityEvent
    <2>1. LowerId(e.event_id) \in Identifier /\ LowerId(e.request_id) \in Optional(Identifier)
          /\ LowerId(e.export_id_ref) \in Optional(Identifier)
      BY <1>1, <1>3, <1>4 DEF Optional
    <2> QED BY <2>1 DEF Normalized, SecurityEvent
  <1> HIDE DEF lowered
  <1>6. /\ lowered.event_type = e.event_type /\ lowered.severity = e.severity
        /\ lowered.event_time_utc = e.event_time_utc /\ lowered.producer_role = e.producer_role
        /\ lowered.actor_identity = e.actor_identity /\ lowered.peer_identity = e.peer_identity
        /\ lowered.correlation_id = e.correlation_id /\ lowered.payload_metadata = e.payload_metadata
        /\ lowered.decision_summary = e.decision_summary /\ lowered.result_summary = e.result_summary
    BY <1>1, <1>2
  <1>7. SoundMembers(lowered) <=> SoundMembers(e)
    <2>1. /\ lowered.event_id \in Uuid <=> e.event_id \in Uuid
          /\ lowered.request_id \in Optional(Uuid) <=> e.request_id \in Optional(Uuid)
          /\ lowered.export_id_ref \in Optional(Uuid) <=> e.export_id_ref \in Optional(Uuid)
      BY <1>1, <1>2, <1>3, <1>4 DEF Optional
    <2> QED BY <1>6, <2>1 DEF SoundMembers
  <1>8. HasRequired(lowered) <=> HasRequired(e)
    <2>1. \A f \in DOMAIN RequiringTypes : lowered[f] = None <=> e[f] = None
      BY <1>1, <1>2, <1>3, <1>6, RequirableMembers DEF Nested
    <2> QED BY <1>6, <2>1 DEF HasRequired
  <1> QED BY <1>2, <1>5, <1>7, <1>8 DEF lowered

-----------------------------------------------------------------------------
(* The header *)

FixedOrdering == [ordered_by |-> "event_time_utc,event_id", direction |-> "ascending"]

SoundPlaceholder(m) ==
  \/ m.placeholder_type = "none"
  \/ m.placeholder_type = "pending" /\ m.placeholder_ref = "text"

SoundHeader(d) ==
  /\ d.export_id \in Uuid /\ d.export_time_utc \in UtcTimestamp
  /\ d.ordering = FixedOrdering
  /\ d.export_metadata \in ExportMetadata /\ d.export_metadata.completeness = "known"
  /\ d.integrity_metadata \in IntegrityMetadata /\ SoundPlaceholder(d.integrity_metadata)

\* Reports of the header are not about an event, let alone about a tamper transition.
AboutHeader(d) == d.where[1] = 0 /\ d.code # "audit.invalid_tamper_transition"

LEMMA HeaderMemberFacts ==
  ASSUME NEW v, NEW legal, NEW code, NEW member, NEW sub, code # "audit.invalid_tamper_transition"
  PROVE  /\ \A d \in RequiredMember(v, legal, code, In(member, sub)) : AboutHeader(d)
         /\ \A d \in OptionalMember(v, legal, code, In(member, sub)) : AboutHeader(d)
  <1>1. In(member, sub)[1] = 0
    BY DEF In
  <1>2. /\ \A d \in RequiredMember(v, legal, code, In(member, sub)) :
             d.where = In(member, sub) /\ d.code # "audit.invalid_tamper_transition"
        /\ \A d \in OptionalMember(v, legal, code, In(member, sub)) :
             d.where = In(member, sub) /\ d.code # "audit.invalid_tamper_transition"
    BY RequiredMemberFacts, OptionalMemberFacts
  <1> QED BY <1>1, <1>2 DEF AboutHeader

LEMMA OrderingFacts ==
  ASSUME NEW o \in [ordered_by : Json(OrderedBy), direction : Json(Direction)]
  PROVE  /\ OrderingDiagnostics(o) = {} <=> o = FixedOrdering
         /\ \A d \in OrderingDiagnostics(o) : AboutHeader(d)
  <1> DEFINE by == RequiredMember(o.ordered_by, OrderedBy, "audit.invalid_value", In("ordering", "ordered_by"))
             way == RequiredMember(o.direction, Direction, "audit.invalid_value", In("ordering", "direction"))
             badBy == [code |-> "audit.export_ordering_mismatch", where |-> In("ordering", "ordered_by")]
             badWay == [code |-> "audit.export_ordering_mismatch", where |-> In("ordering", "direction")]
  <1>1. /\ by = {} <=> o.ordered_by \in OrderedBy
        /\ way = {} <=> o.direction \in Direction
    <2>1. by = {} <=> o.ordered_by \in OrderedBy \ {None, WrongType}
      BY RequiredMemberFacts
    <2>2. way = {} <=> o.direction \in Direction \ {None, WrongType}
      BY RequiredMemberFacts
    <2> HIDE DEF by, way
    <2> QED BY <2>1, <2>2, Absence
  <1>2. /\ \A d \in by : AboutHeader(d)
        /\ \A d \in way : AboutHeader(d)
        /\ AboutHeader(badBy) /\ AboutHeader(badWay)
    <2>1. AboutHeader(badBy) /\ AboutHeader(badWay)
      BY DEF AboutHeader, In
    <2> QED BY <2>1, HeaderMemberFacts
  <1>3. OrderingDiagnostics(o) =
          IF by \cup way # {} THEN by \cup way
          ELSE IF o.ordered_by = "other" THEN {badBy} ELSE IF o.direction = "other" THEN {badWay} ELSE {}
    BY DEF OrderingDiagnostics, Report
  <1>4. o = FixedOrdering <=> o.ordered_by = "event_time_utc,event_id" /\ o.direction = "ascending"
    <2>1. o = [ordered_by |-> o.ordered_by, direction |-> o.direction]
      OBVIOUS
    <2>2. FixedOrdering.ordered_by = "event_time_utc,event_id" /\ FixedOrdering.direction = "ascending"
      BY DEF FixedOrdering
    <2>3. ASSUME o.ordered_by = "event_time_utc,event_id", o.direction = "ascending" PROVE o = FixedOrdering
      BY <2>1, <2>3, Zenon DEF FixedOrdering
    <2> QED BY <2>2, <2>3
  <1> HIDE DEF by, way, badBy, badWay
  <1> QED BY <1>1, <1>2, <1>3, <1>4 DEF OrderedBy, Direction

LEMMA MetadataFacts ==
  ASSUME NEW m \in [completeness : Json(Enumeration), export_reason : Json(Text), source_channel_id : Json(Text)]
  PROVE  /\ MetadataDiagnostics(m) = {} <=> m \in ExportMetadata /\ m.completeness = "known"
         /\ \A d \in MetadataDiagnostics(m) : AboutHeader(d)
  <1> DEFINE whole == RequiredMember(m.completeness, {"known"}, "audit.invalid_export_completeness",
                                     In("export_metadata", "completeness"))
             reason == RequiredText(m.export_reason, In("export_metadata", "export_reason"))
             channel == RequiredText(m.source_channel_id, In("export_metadata", "source_channel_id"))
  <1>1. MetadataDiagnostics(m) = whole \cup reason \cup channel
    BY DEF MetadataDiagnostics
  <1>2. /\ whole = {} <=> m.completeness \in {"known"} \ {None, WrongType}
        /\ reason = {} <=> m.export_reason \in Text \ {None, WrongType}
        /\ channel = {} <=> m.source_channel_id \in Text \ {None, WrongType}
    <2>1. whole = {} <=> m.completeness \in {"known"} \ {None, WrongType}
      BY RequiredMemberFacts
    <2>2. reason = {} <=> m.export_reason \in Text \ {None, WrongType}
      BY RequiredMemberFacts DEF RequiredText
    <2>3. channel = {} <=> m.source_channel_id \in Text \ {None, WrongType}
      BY RequiredMemberFacts DEF RequiredText
    <2> QED BY <2>1, <2>2, <2>3
  <1>3. /\ \A d \in whole : AboutHeader(d)
        /\ \A d \in reason : AboutHeader(d)
        /\ \A d \in channel : AboutHeader(d)
    BY HeaderMemberFacts DEF RequiredText
  <1> HIDE DEF whole, reason, channel
  <1>4. /\ whole = {} <=> m.completeness = "known"
        /\ reason = {} <=> m.export_reason \in Text
        /\ channel = {} <=> m.source_channel_id \in Text
    BY <1>2, Absence DEF Enumeration
  <1>5. m \in ExportMetadata /\ m.completeness = "known" <=>
          m.completeness = "known" /\ m.export_reason \in Text /\ m.source_channel_id \in Text
    BY DEF ExportMetadata, Enumeration
  <1> QED BY <1>1, <1>3, <1>4, <1>5

LEMMA PlaceholderFacts ==
  ASSUME NEW m \in [placeholder_type : Json(PlaceholderType), placeholder_ref : Json(Text)]
  PROVE  /\ PlaceholderDiagnostics(m) = {} <=> m \in IntegrityMetadata /\ SoundPlaceholder(m)
         /\ \A d \in PlaceholderDiagnostics(m) : AboutHeader(d)
         /\ \A d \in MissingPlaceholder(m) : AboutHeader(d)
         /\ MissingPlaceholder(m) = {} <=> m.placeholder_type = "none" \/ m.placeholder_ref = "text"
  <1> DEFINE kind == RequiredMember(m.placeholder_type, {"none", "pending"}, "audit.invalid_integrity_placeholder",
                                    In("integrity_metadata", "placeholder_type"))
             given == OptionalMember(m.placeholder_ref, Text, "audit.invalid_value",
                                     In("integrity_metadata", "placeholder_ref"))
             missing == MissingPlaceholder(m)
  <1>1. PlaceholderDiagnostics(m) =
          kind \cup given \cup IF m.placeholder_type \in {"none", "pending"} THEN missing ELSE {}
    BY DEF PlaceholderDiagnostics
  <1>2. /\ kind = {} <=> m.placeholder_type \in {"none", "pending"} \ {None, WrongType}
        /\ given = {} <=> m.placeholder_ref # WrongType /\ m.placeholder_ref \in Text \cup {None}
    BY RequiredMemberFacts, OptionalMemberFacts
  <1>3. missing = {} <=> m.placeholder_type = "none" \/ m.placeholder_ref = "text"
    BY DEF MissingPlaceholder, Report
  <1>4. /\ \A d \in kind : AboutHeader(d)
        /\ \A d \in given : AboutHeader(d)
        /\ \A d \in missing : AboutHeader(d)
    <2>1. \A d \in missing : AboutHeader(d)
      <3>1. \A d \in missing : d = [code |-> "audit.missing_required_field",
                                    where |-> <<0, "integrity_metadata", "placeholder_ref">>]
        BY DEF MissingPlaceholder, Report, In
      <3> HIDE DEF missing
      <3> QED BY <3>1 DEF AboutHeader
    <2> QED BY <2>1, HeaderMemberFacts
  <1> HIDE DEF kind, given, missing
  <1>5. /\ kind = {} <=> m.placeholder_type \in {"none", "pending"}
        /\ given = {} <=> m.placeholder_ref \in Optional(Text)
    BY <1>2, Absence DEF PlaceholderType, Optional
  <1>6. m \in IntegrityMetadata /\ SoundPlaceholder(m) <=>
          /\ m.placeholder_type \in {"none", "pending"} /\ m.placeholder_ref \in Optional(Text)
          /\ m.placeholder_type = "none" \/ m.placeholder_ref = "text"
    BY DEF IntegrityMetadata, SoundPlaceholder, PlaceholderType
  <1> QED BY <1>1, <1>3, <1>4, <1>5, <1>6 DEF missing

\* What is reported of a member that is an object, given what is reported of its members.
ObjectReports(v, member, inner) ==
  Report("audit.missing_required_field", In(member, "none"), v = None)
  \cup Report("audit.invalid_type", In(member, "none"), v = WrongType)
  \cup IF v \in {None, WrongType} THEN {} ELSE inner

LEMMA ObjectFacts ==
  ASSUME NEW v, NEW member, NEW inner,
         v \notin {None, WrongType} => \A d \in inner : AboutHeader(d)
  PROVE  /\ ObjectReports(v, member, inner) = {} <=> v \notin {None, WrongType} /\ inner = {}
         /\ \A d \in ObjectReports(v, member, inner) : AboutHeader(d)
  <1> DEFINE absent == Report("audit.missing_required_field", In(member, "none"), v = None)
             mistyped == Report("audit.invalid_type", In(member, "none"), v = WrongType)
  <1>1. absent = {} <=> v # None
    BY DEF Report
  <1>2. mistyped = {} <=> v # WrongType
    BY DEF Report
  <1>3. \A d \in absent : AboutHeader(d)
    BY DEF Report, In, AboutHeader
  <1>4. \A d \in mistyped : AboutHeader(d)
    BY DEF Report, In, AboutHeader
  <1>5. ObjectReports(v, member, inner) = absent \cup mistyped \cup IF v \in {None, WrongType} THEN {} ELSE inner
    BY DEF ObjectReports
  <1> HIDE DEF absent, mistyped
  <1> QED BY <1>1, <1>2, <1>3, <1>4, <1>5

LEMMA ParsedHeaderFacts ==
  ASSUME NEW d \in Document
  PROVE  /\ ParseHeader(d) = {} <=> SoundHeader(d) /\ d.events \notin {None, WrongType}
         /\ \A r \in ParseHeader(d) : AboutHeader(r)
  <1> DEFINE ids == RequiredMember(d.export_id, Uuid, "audit.invalid_identifier", In("export_id", "none"))
             times == RequiredMember(d.export_time_utc, UtcTimestamp, "audit.invalid_export_time",
                                     In("export_time_utc", "none"))
             rules == ObjectReports(d.ordering, "ordering", OrderingDiagnostics(d.ordering))
             facts == ObjectReports(d.export_metadata, "export_metadata", MetadataDiagnostics(d.export_metadata))
             marks == ObjectReports(d.integrity_metadata, "integrity_metadata",
                                    PlaceholderDiagnostics(d.integrity_metadata))
             items == ObjectReports(d.events, "events", {})
  <1>1. ParseHeader(d) = ids \cup times \cup rules \cup facts \cup marks \cup items
    BY DEF ParseHeader, ObjectMember, ObjectReports
  <1>2. /\ ids = {} <=> d.export_id \in Uuid \ {None, WrongType}
        /\ \A r \in ids : AboutHeader(r)
    BY RequiredMemberFacts, HeaderMemberFacts
  <1>3. /\ times = {} <=> d.export_time_utc \in UtcTimestamp \ {None, WrongType}
        /\ \A r \in times : AboutHeader(r)
    BY RequiredMemberFacts, HeaderMemberFacts
  <1>4. /\ rules = {} <=> d.ordering = FixedOrdering
        /\ \A r \in rules : AboutHeader(r)
    <2>1. d.ordering \notin {None, WrongType} =>
            d.ordering \in [ordered_by : Json(OrderedBy), direction : Json(Direction)]
      BY DEF Document, Json
    <2>2. FixedOrdering \in Ordering
      BY DEF FixedOrdering, Ordering, OrderedBy, Direction
    <2>3. FixedOrdering \notin {None, WrongType}
      BY <2>2, Absence
    <2>4. d.ordering \notin {None, WrongType} =>
            /\ OrderingDiagnostics(d.ordering) = {} <=> d.ordering = FixedOrdering
            /\ \A r \in OrderingDiagnostics(d.ordering) : AboutHeader(r)
      BY <2>1, OrderingFacts
    <2> QED BY <2>3, <2>4, ObjectFacts
  <1>5. /\ facts = {} <=> d.export_metadata \in ExportMetadata /\ d.export_metadata.completeness = "known"
        /\ \A r \in facts : AboutHeader(r)
    <2>1. d.export_metadata \notin {None, WrongType} =>
            d.export_metadata \in [completeness : Json(Enumeration), export_reason : Json(Text),
                                   source_channel_id : Json(Text)]
      BY DEF Document, Json
    <2>2. d.export_metadata \notin {None, WrongType} =>
            /\ MetadataDiagnostics(d.export_metadata) = {} <=>
                 d.export_metadata \in ExportMetadata /\ d.export_metadata.completeness = "known"
            /\ \A r \in MetadataDiagnostics(d.export_metadata) : AboutHeader(r)
      BY <2>1, MetadataFacts
    <2> QED BY <2>2, ObjectFacts, Absence
  <1>6. /\ marks = {} <=> d.integrity_metadata \in IntegrityMetadata /\ SoundPlaceholder(d.integrity_metadata)
        /\ \A r \in marks : AboutHeader(r)
    <2>1. d.integrity_metadata \notin {None, WrongType} =>
            d.integrity_metadata \in [placeholder_type : Json(PlaceholderType), placeholder_ref : Json(Text)]
      BY DEF Document, Json
    <2>2. d.integrity_metadata \notin {None, WrongType} =>
            /\ PlaceholderDiagnostics(d.integrity_metadata) = {} <=>
                 d.integrity_metadata \in IntegrityMetadata /\ SoundPlaceholder(d.integrity_metadata)
            /\ \A r \in PlaceholderDiagnostics(d.integrity_metadata) : AboutHeader(r)
      BY <2>1, PlaceholderFacts
    <2> QED BY <2>2, ObjectFacts, Absence
  <1>7. /\ items = {} <=> d.events \notin {None, WrongType}
        /\ \A r \in items : AboutHeader(r)
    BY ObjectFacts
  <1> HIDE DEF ids, times, rules, facts, marks, items
  <1>8. Uuid \ {None, WrongType} = Uuid /\ UtcTimestamp \ {None, WrongType} = UtcTimestamp
    BY Absence
  <1> QED BY <1>1, <1>2, <1>3, <1>4, <1>5, <1>6, <1>7, <1>8 DEF SoundHeader

LEMMA ValidatedHeaderFacts ==
  ASSUME NEW x \in Export
  PROVE  /\ ValidateHeader(x) = {} <=> SoundHeader(x)
         /\ \A r \in ValidateHeader(x) : AboutHeader(r)
  <1> DEFINE ids == Report("audit.invalid_identifier", In("export_id", "none"), x.export_id \notin Uuid)
             times == Report("audit.invalid_export_time", In("export_time_utc", "none"),
                             x.export_time_utc \notin UtcTimestamp)
             rules == Report("audit.export_ordering_mismatch", In("ordering", "ordered_by"),
                             x.ordering.ordered_by = "other")
             ways == Report("audit.export_ordering_mismatch", In("ordering", "direction"),
                            x.ordering.direction = "other")
             facts == Report("audit.invalid_export_completeness", In("export_metadata", "completeness"),
                             x.export_metadata.completeness # "known")
             kinds == Report("audit.invalid_integrity_placeholder", In("integrity_metadata", "placeholder_type"),
                             x.integrity_metadata.placeholder_type = "unsupported")
             missing == MissingPlaceholder(x.integrity_metadata)
  <1>1. ValidateHeader(x) = ids \cup times \cup rules \cup ways \cup facts \cup kinds \cup missing
    BY DEF ValidateHeader
  <1>2. /\ ids = {} <=> x.export_id \in Uuid
        /\ times = {} <=> x.export_time_utc \in UtcTimestamp
        /\ rules = {} <=> x.ordering.ordered_by # "other"
        /\ ways = {} <=> x.ordering.direction # "other"
        /\ facts = {} <=> x.export_metadata.completeness = "known"
        /\ kinds = {} <=> x.integrity_metadata.placeholder_type # "unsupported"
    BY DEF Report
  <1>3. /\ \A r \in ids : AboutHeader(r)
        /\ \A r \in times : AboutHeader(r)
        /\ \A r \in rules : AboutHeader(r)
        /\ \A r \in ways : AboutHeader(r)
        /\ \A r \in facts : AboutHeader(r)
        /\ \A r \in kinds : AboutHeader(r)
    BY DEF Report, In, AboutHeader
  <1>4. /\ x.ordering \in Ordering /\ x.export_metadata \in ExportMetadata
        /\ x.integrity_metadata \in IntegrityMetadata
    BY DEF Export
  <1>5. x.ordering.ordered_by # "other" /\ x.ordering.direction # "other" <=> x.ordering = FixedOrdering
    <2>1. x.ordering = [ordered_by |-> x.ordering.ordered_by, direction |-> x.ordering.direction]
          /\ x.ordering.ordered_by \in OrderedBy /\ x.ordering.direction \in Direction
      BY <1>4 DEF Ordering
    <2>2. FixedOrdering.ordered_by = "event_time_utc,event_id" /\ FixedOrdering.direction = "ascending"
      BY DEF FixedOrdering
    <2>3. ASSUME x.ordering.ordered_by # "other", x.ordering.direction # "other" PROVE x.ordering = FixedOrdering
      <3>1. x.ordering.ordered_by = "event_time_utc,event_id" /\ x.ordering.direction = "ascending"
        BY <2>1, <2>3 DEF OrderedBy, Direction
      <3> QED BY <2>1, <3>1, Zenon DEF FixedOrdering
    <2> QED BY <2>2, <2>3
  <1>6. /\ \A r \in missing : AboutHeader(r)
        /\ missing = {} <=> x.integrity_metadata.placeholder_type = "none"
                              \/ x.integrity_metadata.placeholder_ref = "text"
    <2>1. x.integrity_metadata \in [placeholder_type : Json(PlaceholderType), placeholder_ref : Json(Text)]
      BY <1>4 DEF IntegrityMetadata, Json, Optional
    <2> QED BY <2>1, PlaceholderFacts
  <1>7. SoundPlaceholder(x.integrity_metadata) <=>
          /\ x.integrity_metadata.placeholder_type # "unsupported"
          /\ x.integrity_metadata.placeholder_type = "none" \/ x.integrity_metadata.placeholder_ref = "text"
    BY <1>4 DEF SoundPlaceholder, IntegrityMetadata, PlaceholderType
  <1> HIDE DEF ids, times, rules, ways, facts, kinds, missing
  <1> QED BY <1>1, <1>2, <1>3, <1>4, <1>5, <1>6, <1>7 DEF SoundHeader

-----------------------------------------------------------------------------
(* The order of the events *)

LEMMA LeastIndex ==
  ASSUME NEW S \in SUBSET Nat, S # {}
  PROVE  \E i \in S : \A j \in S : i <= j
  <1>1. IsWellFoundedOn(OpToRel(<, Nat), Nat)
    BY NatLessThanWellFounded
  <1>2. PICK i \in S : \A j \in S : ~(<<j, i>> \in OpToRel(<, Nat))
    BY <1>1, WFMin
  <1>3. ASSUME NEW j \in S PROVE i <= j
    <2>1. ~(<<j, i>> \in OpToRel(<, Nat))
      BY <1>2
    <2>2. i \in Nat /\ j \in Nat
      OBVIOUS
    <2>3. j < i => <<j, i>> \in OpToRel(<, Nat)
      BY <2>2 DEF OpToRel
    <2>4. ~(j < i)
      BY <2>1, <2>3, Zenon
    <2> QED BY <2>2, <2>4
  <1> QED BY <1>3

\* What validation compares: an event with its neighbour, and its id with the earlier ones.
NeighboursOrdered(s) ==
  \A k \in DOMAIN s : ~Seen(s, k) /\ ~(k > 1 /\ EventLess(s[k], s[k - 1]))

StrictlyOrdered(s) ==
  \A j, k \in DOMAIN s : j < k => EventLess(s[j], s[k]) /\ s[j].event_id # s[k].event_id

LEMMA EventLessFacts ==
  ASSUME NEW e \in SecurityEvent, NEW f \in SecurityEvent, NEW g \in SecurityEvent
  PROVE  /\ ~(EventLess(e, f) /\ EventLess(f, e))
         /\ e.event_id # f.event_id => EventLess(e, f) \/ EventLess(f, e)
         /\ EventLess(e, f) /\ EventLess(f, g) => EventLess(e, g)
  <1>1. /\ e.event_time_utc \in Nat /\ f.event_time_utc \in Nat /\ g.event_time_utc \in Nat
        /\ e.event_id \in Nat /\ f.event_id \in Nat /\ g.event_id \in Nat
    BY AuditAssumption DEF SecurityEvent
  <1> QED BY <1>1 DEF EventLess

LEMMA NeighboursSuffice ==
  ASSUME NEW s \in Seq(SecurityEvent), NeighboursOrdered(s)
  PROVE  StrictlyOrdered(s)
  <1>1. DOMAIN s = 1 .. Len(s) /\ Len(s) \in Nat /\ \A k \in DOMAIN s : s[k] \in SecurityEvent
    OBVIOUS
  <1>2. \A j, k \in DOMAIN s : j < k => s[j].event_id # s[k].event_id
    BY <1>1 DEF NeighboursOrdered, Seen
  <1>3. ASSUME NEW k \in DOMAIN s, k > 1 PROVE EventLess(s[k - 1], s[k])
    <2>1. k - 1 \in DOMAIN s /\ k - 1 < k
      BY <1>1, <1>3
    <2>2. s[k - 1].event_id # s[k].event_id /\ ~EventLess(s[k], s[k - 1])
      BY <1>2, <1>3, <2>1 DEF NeighboursOrdered
    <2> QED BY <1>1, <2>1, <2>2, EventLessFacts
  <1> DEFINE late == {k \in DOMAIN s : \E j \in DOMAIN s : j < k /\ ~EventLess(s[j], s[k])}
  <1>4. ASSUME late # {} PROVE FALSE
    <2>1. late \in SUBSET Nat
      BY <1>1
    <2>2. PICK k \in late : \A i \in late : k <= i
      BY <1>4, <2>1, LeastIndex
    <2>3. PICK j \in DOMAIN s : j < k /\ ~EventLess(s[j], s[k])
      BY <2>2
    <2>4. k \in DOMAIN s /\ k - 1 \in DOMAIN s /\ k > 1 /\ j <= k - 1
      BY <1>1, <2>2, <2>3
    <2>5. j # k - 1
      BY <1>3, <2>3, <2>4
    <2>6. k - 1 \notin late
      BY <1>1, <2>1, <2>2, <2>4
    <2>7. EventLess(s[j], s[k - 1])
      BY <1>1, <2>3, <2>4, <2>5, <2>6
    <2>8. EventLess(s[k - 1], s[k])
      BY <1>3, <2>4
    <2> QED BY <1>1, <2>3, <2>4, <2>7, <2>8, EventLessFacts
  <1> QED BY <1>2, <1>4 DEF StrictlyOrdered

LEMMA StrictOrderSuffices ==
  ASSUME NEW s \in Seq(SecurityEvent), StrictlyOrdered(s)
  PROVE  NeighboursOrdered(s)
  <1>1. DOMAIN s = 1 .. Len(s) /\ Len(s) \in Nat /\ \A k \in DOMAIN s : s[k] \in SecurityEvent
    OBVIOUS
  <1>2. ASSUME NEW k \in DOMAIN s PROVE ~Seen(s, k)
    <2>1. \A j \in 1 .. k - 1 : j \in DOMAIN s /\ j < k
      BY <1>1
    <2> QED BY <2>1 DEF Seen, StrictlyOrdered
  <1>3. ASSUME NEW k \in DOMAIN s, k > 1 PROVE ~EventLess(s[k], s[k - 1])
    <2>1. k - 1 \in DOMAIN s /\ k - 1 < k
      BY <1>1, <1>3
    <2>2. EventLess(s[k - 1], s[k])
      BY <2>1 DEF StrictlyOrdered
    <2> QED BY <1>1, <2>1, <2>2, EventLessFacts
  <1> QED BY <1>2, <1>3 DEF NeighboursOrdered

-----------------------------------------------------------------------------
(* What is valid is legal, and what is legal can be built *)

LEMMA SoundEvents ==
  ASSUME NEW x \in Export, x.export_id \in Uuid, NEW k \in DOMAIN x.events
  PROVE  EventIsSound(x, k) <=>
           SoundMembers(x.events[k]) /\ HasRequired(x.events[k]) /\ x.events[k].export_id_ref \in {None, x.export_id}
  <1> DEFINE e == x.events[k]
  <1>1. e \in SecurityEvent
    BY DEF Export
  <1> HIDE DEF e
  <1>2. /\ e.actor_identity \in Optional(IdentitySummary) /\ e.peer_identity \in Optional(IdentitySummary)
        /\ e.decision_summary \in Optional(Summary) /\ e.result_summary \in Optional(Summary)
        /\ e.correlation_id \in Optional(Text) /\ e.payload_metadata = "strings"
    BY <1>1 DEF SecurityEvent
  <1>3. \A v \in Optional(IdentitySummary) :
          SoundIdentity(v) <=> (v # None => v.role = "known" /\ v.certificate_fingerprint = "lower_hex")
    <2> TAKE v \in Optional(IdentitySummary)
    <2>1. v # WrongType
      BY Absence DEF Optional
    <2>2. v # None => v.device_id \in Text
      BY DEF Optional, IdentitySummary
    <2> QED BY <2>1, <2>2 DEF SoundIdentity
  <1>4. \A v \in Optional(Summary) : SoundSummary(v) <=> (v # None => v.content # "empty")
    <2> TAKE v \in Optional(Summary)
    <2>1. v # WrongType
      BY Absence DEF Optional
    <2>2. v # None => v.content \in {"empty", "text"}
      BY DEF Optional, Summary, Text
    <2> QED BY <2>1, <2>2 DEF SoundSummary
  <1>5. e.export_id_ref \in {None, x.export_id} => e.export_id_ref \in Optional(Uuid)
    BY DEF Optional
  <1>6. /\ SoundIdentity(e.actor_identity) /\ SoundIdentity(e.peer_identity) <=>
             \A f \in {"actor_identity", "peer_identity"} :
               e[f] # None => e[f].role = "known" /\ e[f].certificate_fingerprint = "lower_hex"
        /\ SoundSummary(e.decision_summary) /\ SoundSummary(e.result_summary) <=>
             \A f \in {"decision_summary", "result_summary"} : e[f] # None => e[f].content # "empty"
    BY <1>2, <1>3, <1>4
  <1>7. EventIsSound(x, k) <=>
          /\ e.event_id \in Uuid /\ e.event_time_utc \in UtcTimestamp /\ e.event_type \in EventType
          /\ e.severity = "known" /\ e.producer_role = "known"
          /\ e.request_id \in Optional(Uuid) /\ e.export_id_ref \in {None, x.export_id}
          /\ SoundIdentity(e.actor_identity) /\ SoundIdentity(e.peer_identity)
          /\ SoundSummary(e.decision_summary) /\ SoundSummary(e.result_summary)
          /\ HasRequired(e)
    BY <1>6 DEF EventIsSound, HasRequired, e
  <1> QED BY <1>2, <1>5, <1>7 DEF SoundMembers, e

LEMMA NothingToReport ==
  ASSUME NEW x, NEW n
  PROVE  CheckDiagnostics(x, n) = {} <=>
           ValidateHeader(x) = {} /\ \A k \in 1 .. n : EventDiagnostics(x, k) = {}
  BY DEF CheckDiagnostics

LEMMA ValidIffLegal ==
  ASSUME NEW x \in Export
  PROVE  Valid(x) <=> Legal(x)
  <1>1. /\ x.events \in Seq(SecurityEvent) /\ DOMAIN x.events = 1 .. Len(x.events)
        /\ x.export_metadata \in ExportMetadata /\ x.integrity_metadata \in IntegrityMetadata
    BY DEF Export
  <1>2. StoryUpTo(x, Len(x.events)) <=> TamperStoryHolds(x)
    BY <1>1 DEF StoryUpTo, TamperStoryHolds
  <1>3. ValidateHeader(x) = {} <=>
          /\ x.export_id \in Uuid /\ x.export_time_utc \in UtcTimestamp
          /\ x.ordering = FixedOrdering
          /\ x.export_metadata.completeness = "known" /\ SoundPlaceholder(x.integrity_metadata)
    BY <1>1, ValidatedHeaderFacts DEF SoundHeader
  <1>4. (\A k \in DOMAIN x.events : EventDiagnostics(x, k) = {}) <=>
          /\ NeighboursOrdered(x.events)
          /\ \A k \in DOMAIN x.events :
               /\ SoundMembers(x.events[k]) /\ HasRequired(x.events[k])
               /\ x.events[k].export_id_ref \in {None, x.export_id}
    BY EventFacts DEF NeighboursOrdered
  <1>5. NeighboursOrdered(x.events) <=> StrictlyOrdered(x.events)
    BY <1>1, NeighboursSuffice, StrictOrderSuffices
  <1>6. x.export_id \in Uuid =>
          ((\A k \in DOMAIN x.events : EventDiagnostics(x, k) = {}) <=>
             StrictlyOrdered(x.events) /\ \A k \in DOMAIN x.events : EventIsSound(x, k))
    BY <1>4, <1>5, SoundEvents
  <1>7. Valid(x) <=> /\ ValidateHeader(x) = {} /\ TamperStoryHolds(x)
                     /\ \A k \in DOMAIN x.events : EventDiagnostics(x, k) = {}
    BY <1>1, <1>2, NothingToReport DEF Valid
  <1>8. Legal(x) <=> /\ ValidateHeader(x) = {} /\ TamperStoryHolds(x) /\ StrictlyOrdered(x.events)
                     /\ \A k \in DOMAIN x.events : EventIsSound(x, k)
    BY <1>3 DEF Legal, FixedOrdering, SoundPlaceholder, StrictlyOrdered
  <1> QED BY <1>3, <1>6, <1>7, <1>8

LEMMA LoweredExport ==
  ASSUME NEW x \in Export
  PROVE  /\ LowerExport(x) \in Export
         /\ LowerExport(x) = [x EXCEPT !.export_id = LowerCopy[x.export_id],
                                       !.events = [k \in DOMAIN x.events |-> Normalized(x.events[k])]]
         /\ LowerExport(x).export_id = LowerCopy[x.export_id]
         /\ LowerExport(x).events = [k \in 1 .. Len(x.events) |-> Normalized(x.events[k])]
         /\ Len(LowerExport(x).events) = Len(x.events)
         /\ LowerExport(x).export_time_utc = x.export_time_utc
         /\ LowerExport(x).ordering = x.ordering
         /\ LowerExport(x).export_metadata = x.export_metadata
         /\ LowerExport(x).integrity_metadata = x.integrity_metadata
  <1> DEFINE lowered == [k \in DOMAIN x.events |-> Normalized(x.events[k])]
  <1>1. /\ DOMAIN x = {"export_id", "export_time_utc", "events", "ordering", "export_metadata", "integrity_metadata"}
        /\ x.export_id \in Identifier /\ x.events \in Seq(SecurityEvent)
    BY DEF Export
  <1>2. LowerExport(x) = [x EXCEPT !.export_id = LowerCopy[x.export_id], !.events = lowered]
    BY <1>1 DEF LowerExport
  <1>3. DOMAIN x.events = 1 .. Len(x.events) /\ Len(x.events) \in Nat
        /\ \A k \in DOMAIN x.events : x.events[k] \in SecurityEvent
    BY <1>1
  <1>4. \A k \in 1 .. Len(x.events) : Normalized(x.events[k]) \in SecurityEvent
    BY <1>3, NormalizedFacts
  <1>5. lowered = [k \in 1 .. Len(x.events) |-> Normalized(x.events[k])]
    BY <1>3
  <1>6. lowered \in Seq(SecurityEvent) /\ Len(lowered) = Len(x.events)
    BY <1>3, <1>4, <1>5
  <1>7. LowerCopy[x.export_id] \in Identifier
    BY <1>1, AuditAssumption
  <1> HIDE DEF lowered
  <1>8. LowerExport(x) \in Export
    BY <1>2, <1>6, <1>7 DEF Export
  <1>9. /\ LowerExport(x).export_id = LowerCopy[x.export_id] /\ LowerExport(x).events = lowered
        /\ LowerExport(x).export_time_utc = x.export_time_utc /\ LowerExport(x).ordering = x.ordering
        /\ LowerExport(x).export_metadata = x.export_metadata
        /\ LowerExport(x).integrity_metadata = x.integrity_metadata
    BY <1>1, <1>2
  <1>10. LowerExport(x) = [x EXCEPT !.export_id = LowerCopy[x.export_id],
                                    !.events = [k \in DOMAIN x.events |-> Normalized(x.events[k])]]
    BY <1>2 DEF lowered
  <1> QED BY <1>5, <1>6, <1>8, <1>9, <1>10

LEMMA WellBuiltFacts ==
  ASSUME NEW d \in Document \cup {None, WrongType}
  PROVE  WellBuilt(d) <=>
           /\ d \notin {None, WrongType} /\ SoundHeader(d) /\ d.events \notin {None, WrongType}
           /\ \A k \in DOMAIN d.events :
                d.events[k] # WrongType /\ SoundMembers(d.events[k]) /\ HasRequired(d.events[k])
  <1>1. CASE d \in {None, WrongType}
    BY <1>1 DEF WellBuilt
  <1>2. CASE d \notin {None, WrongType}
    <2>1. \A k \in DOMAIN d.events : BuildDiagnostics(d.events[k], k) = {} <=>
            d.events[k] # WrongType /\ SoundMembers(d.events[k]) /\ HasRequired(d.events[k])
      BY BuildFacts
    <2> QED BY <1>2, <2>1, ParsedHeaderFacts DEF WellBuilt
  <1> QED BY <1>1, <1>2

LEMMA BuiltTyped ==
  ASSUME NEW d \in Document \cup {None, WrongType}, WellBuilt(d)
  PROVE  d \in Export
  <1>1. /\ d \notin {None, WrongType} /\ SoundHeader(d) /\ d.events \notin {None, WrongType}
        /\ \A k \in DOMAIN d.events :
             d.events[k] # WrongType /\ SoundMembers(d.events[k]) /\ HasRequired(d.events[k])
    BY WellBuiltFacts
  <1>2. d.events \in Seq(EventDocument \cup {WrongType})
    BY <1>1 DEF Document, Json
  <1>3. \A k \in 1 .. Len(d.events) : d.events[k] \in SecurityEvent
    <2> TAKE k \in 1 .. Len(d.events)
    <2>1. k \in DOMAIN d.events /\ d.events[k] \in EventDocument
      BY <1>1, <1>2
    <2> QED BY <1>1, <2>1, SoundEventTyped
  <1>4. d.events \in Seq(SecurityEvent)
    <2>1. Len(d.events) \in Nat /\ d.events = [k \in 1 .. Len(d.events) |-> d.events[k]]
      BY <1>2
    <2> QED BY <1>3, <2>1
  <1>5. d.export_id \in Identifier /\ d.export_time_utc \in Instant
    BY <1>1, AuditAssumption DEF SoundHeader
  <1>6. d.ordering \in Ordering
    <2>1. FixedOrdering \in Ordering
      BY DEF FixedOrdering, Ordering, OrderedBy, Direction
    <2> QED BY <1>1, <2>1 DEF SoundHeader
  <1>7. d.export_metadata \in ExportMetadata /\ d.integrity_metadata \in IntegrityMetadata
    BY <1>1 DEF SoundHeader
  <1> QED BY <1>1, <1>4, <1>5, <1>6, <1>7 DEF Document, Export

LEMMA LegalIsWellBuilt ==
  ASSUME NEW d \in Document \cup {None, WrongType}, d \in Export, Legal(LowerExport(d))
  PROVE  WellBuilt(d)
  <1> DEFINE x == LowerExport(d)
  <1>1. d \notin {None, WrongType}
    BY Absence
  <1>2. /\ x \in Export /\ x.export_id = LowerCopy[d.export_id] /\ x.export_time_utc = d.export_time_utc
        /\ x.events = [k \in 1 .. Len(d.events) |-> Normalized(d.events[k])]
        /\ x.ordering = d.ordering /\ x.export_metadata = d.export_metadata
        /\ x.integrity_metadata = d.integrity_metadata
    BY LoweredExport
  <1>3. /\ d.export_id \in Identifier /\ d.events \in Seq(SecurityEvent)
        /\ d.export_metadata \in ExportMetadata /\ d.integrity_metadata \in IntegrityMetadata
    BY DEF Export
  <1>4. Legal(x)
    OBVIOUS
  <1> HIDE DEF x
  <1>5. SoundHeader(d)
    <2>1. d.export_id \in Uuid
      BY <1>2, <1>3, <1>4, AuditAssumption DEF Legal
    <2>2. d.export_time_utc \in UtcTimestamp /\ d.ordering = FixedOrdering
          /\ d.export_metadata.completeness = "known" /\ SoundPlaceholder(d.integrity_metadata)
      BY <1>2, <1>4 DEF Legal, FixedOrdering, SoundPlaceholder
    <2> QED BY <1>3, <2>1, <2>2 DEF SoundHeader
  <1>6. d.events \notin {None, WrongType}
    BY <1>3, Absence
  <1>7. ASSUME NEW k \in DOMAIN d.events
        PROVE  d.events[k] # WrongType /\ SoundMembers(d.events[k]) /\ HasRequired(d.events[k])
    <2>1. d.events[k] \in SecurityEvent /\ k \in 1 .. Len(d.events)
      BY <1>3
    <2>2. d.events[k] # WrongType
      BY <2>1, Absence
    <2>3. x.events[k] = Normalized(d.events[k]) /\ k \in DOMAIN x.events
      BY <1>2, <2>1
    <2>4. EventIsSound(x, k) /\ x.export_id \in Uuid
      BY <1>4, <2>3 DEF Legal
    <2>5. SoundMembers(x.events[k]) /\ HasRequired(x.events[k])
      BY <1>2, <2>3, <2>4, SoundEvents
    <2> QED BY <2>1, <2>2, <2>3, <2>5, NormalizedFacts
  <1> QED BY <1>1, <1>5, <1>6, <1>7, WellBuiltFacts

-----------------------------------------------------------------------------
(* The type *)

LEMMA InitTyped == Init => TypeOK
  <1> SUFFICES ASSUME Init PROVE TypeOK
    OBVIOUS
  <1>1. call \in {"parse", "validate"} /\ (call = "validate" => document \in Export)
    BY DEF Init
  <1>2. document \in Document \cup {None, WrongType}
    BY DocumentsAssumption DEF Init
  <1>3. export \in Optional(Export) /\ value \in Optional(Export)
    BY <1>1 DEF Init, Optional
  <1>4. call = "validate" => export # None
    BY <1>1, Absence DEF Init
  <1>5. call = "parse" => export = None
    BY DEF Init
  <1>6. pc = call /\ index = 1 /\ events = <<>> /\ tamper_state = "clear"
    BY DEF Init
  <1> QED BY <1>1, <1>2, <1>3, <1>4, <1>5, <1>6 DEF TypeOK, TamperState

LEMMA ItemsTyped ==
  ASSUME TypeOK, document \notin {None, WrongType}
  PROVE  /\ Items \in Seq(EventDocument \cup {WrongType}) /\ Len(Items) \in Nat
         /\ document.events \notin {None, WrongType} => Items = document.events
         /\ \A k \in 1 .. Len(Items) : Items[k] = document.events[k]
  <1>1. document \in Document
    BY DEF TypeOK
  <1>2. document.events \in Json(Seq(EventDocument \cup {WrongType}))
    BY <1>1 DEF Document
  <1>3. Items \in Seq(EventDocument \cup {WrongType})
    BY <1>2 DEF Items, Json
  <1>4. CASE document.events \in {None, WrongType}
    <2>1. Items = <<>>
      BY <1>4 DEF Items
    <2> QED BY <1>4, <2>1
  <1>5. CASE document.events \notin {None, WrongType}
    <2>1. Items = document.events
      BY <1>5 DEF Items
    <2> QED BY <1>3, <1>5, <2>1
  <1> QED BY <1>4, <1>5, <1>3

\* An event without a report is that of an object.
LEMMA BuiltEvent ==
  ASSUME TypeOK, document \notin {None, WrongType}, NEW k \in 1 .. Len(Items),
         BuildDiagnostics(Items[k], k) = {}
  PROVE  Normalized(Items[k]) \in SecurityEvent
  <1>1. Items[k] \in EventDocument \cup {WrongType}
    BY ItemsTyped
  <1>2. Items[k] # WrongType /\ SoundMembers(Items[k])
    BY BuildFacts
  <1> QED BY <1>1, <1>2, SoundEventTyped, NormalizedFacts

\* At the end of the list, nothing was wrong exactly when the whole document builds.
LEMMA AllBuilt ==
  ASSUME TypeOK, Building, pc = "build", index > Len(Items)
  PROVE  /\ diagnostics = {} <=> WellBuilt(document)
         /\ diagnostics = {} => events = [k \in 1 .. Len(Items) |-> Normalized(Items[k])]
  <1>1. /\ document \notin {None, WrongType} /\ index \in 1 .. Len(Items) + 1
        /\ diagnostics = {} <=>
             ParseHeader(document) = {} /\ \A k \in 1 .. index - 1 : BuildDiagnostics(Items[k], k) = {}
        /\ diagnostics = {} => events = [k \in 1 .. index - 1 |-> Normalized(Items[k])]
    BY DEF Building
  <1>2. document \in Document /\ Items \in Seq(EventDocument \cup {WrongType}) /\ Len(Items) \in Nat
    BY <1>1, ItemsTyped DEF TypeOK
  <1>3. index - 1 = Len(Items)
    BY <1>1, <1>2
  <1>4. ParseHeader(document) = {} => Items = document.events
    BY <1>1, <1>2, ItemsTyped, ParsedHeaderFacts
  <1>5. DOMAIN Items = 1 .. Len(Items)
    BY <1>2
  <1> QED BY <1>1, <1>3, <1>4, <1>5 DEF WellBuilt

LEMMA Assembled ==
  ASSUME TypeOK, Building, AssembleExport
  PROVE  document \in Export /\ export' = LowerExport(document) /\ WellBuilt(document)
  <1>1. WellBuilt(document) /\ events = [k \in 1 .. Len(Items) |-> Normalized(Items[k])]
    BY AllBuilt DEF AssembleExport
  <1>2. document \in Document \cup {None, WrongType}
    BY DEF TypeOK
  <1>3. document \in Export
    BY <1>1, <1>2, BuiltTyped
  <1>4. Items = document.events
    BY <1>1, <1>2, WellBuiltFacts DEF Items
  <1>5. DOMAIN document.events = 1 .. Len(document.events)
    BY <1>3 DEF Export
  <1>6. export' = [document EXCEPT !.export_id = LowerCopy[document.export_id], !.events = events]
    BY <1>3 DEF AssembleExport, Export
  <1> QED BY <1>1, <1>3, <1>4, <1>5, <1>6, LoweredExport

LEMMA StepTyped == ASSUME TypeOK, Building, Object, Walking, [Next]_vars PROVE TypeOK'
  <1> USE DEF TypeOK
  <1>1. CASE RejectRoot
    BY <1>1 DEF RejectRoot
  <1>2. CASE ParseExportHeader
    BY <1>2 DEF ParseExportHeader
  <1>3. CASE BuildEvent
    <2>1. document \notin {None, WrongType} /\ index \in 1 .. Len(Items)
      BY <1>3, ItemsTyped DEF BuildEvent, Building
    <2>2. events' \in Seq(SecurityEvent)
      <3>1. CASE diagnostics' = {}
        <4>1. BuildDiagnostics(Items[index], index) = {} /\ events' = Append(events, Normalized(Items[index]))
          BY <1>3, <3>1 DEF BuildEvent
        <4>2. Normalized(Items[index]) \in SecurityEvent
          BY <2>1, <4>1, BuiltEvent
        <4> QED BY <4>1, <4>2
      <3>2. CASE diagnostics' # {}
        BY <1>3, <3>2 DEF BuildEvent
      <3> QED BY <3>1, <3>2
    <2> QED BY <1>3, <2>2 DEF BuildEvent
  <1>4. CASE RejectDocument
    BY <1>4 DEF RejectDocument
  <1>5. CASE AssembleExport
    <2>1. document \in Export /\ export' = LowerExport(document)
      BY <1>5, Assembled
    <2>2. export' \in Export /\ Len(export'.events) = Len(document.events)
      BY <2>1, LoweredExport
    <2>3. export' # None
      BY <2>2, Absence
    <2> QED BY <1>5, <2>2, <2>3 DEF AssembleExport, Optional
  <1>6. CASE ValidateExportHeader
    BY <1>6 DEF ValidateExportHeader
  <1>7. CASE CheckEvent
    BY <1>7 DEF CheckEvent
  <1>8. CASE StartTamperWalk
    BY <1>8 DEF StartTamperWalk
  <1>9. CASE OtherEvent
    BY <1>9 DEF OtherEvent
  <1>10. CASE TamperEvent
    <2>1. tamper_state' \in TamperState
      BY <1>10 DEF TamperEvent, TamperState, TamperType, LeadsTo
    <2> QED BY <1>10, <2>1 DEF TamperEvent
  <1>11. CASE Finish
    BY <1>11 DEF Finish, Optional
  <1>12. CASE UNCHANGED vars
    BY <1>12 DEF vars
  <1> QED BY <1>1, <1>2, <1>3, <1>4, <1>5, <1>6, <1>7, <1>8, <1>9, <1>10, <1>11, <1>12 DEF Next

-----------------------------------------------------------------------------
(* The stages that read the document *)

\* What may be reported: nothing nested is said to be missing that is there.
Excused(d, doc) ==
  (d.code = "audit.missing_required_field" /\ d.where[1] > 0 /\ d.where[2] \in Nested /\ d.where[3] = "none") =>
    doc.events[d.where[1]][d.where[2]] = None

LEMMA ExcusedFacts ==
  /\ \A d, doc : AboutHeader(d) => Excused(d, doc)
  /\ \A d, e, k, doc : (Faithful(d, e, k) /\ \A f \in Nested : e[f] = None => doc.events[k][f] = None) => Excused(d, doc)
  /\ NestedMissingMeansAbsent <=> \A d \in diagnostics : Excused(d, document)
  <1>1. \A d, doc : AboutHeader(d) => Excused(d, doc)
    BY DEF AboutHeader, Excused
  <1>2. \A d, e, k, doc : (Faithful(d, e, k) /\ \A f \in Nested : e[f] = None => doc.events[k][f] = None)
                            => Excused(d, doc)
    BY DEF Faithful, Excused
  <1>3. NestedMissingMeansAbsent <=> \A d \in diagnostics : Excused(d, document)
    BY DEF NestedMissingMeansAbsent, Excused
  <1> QED BY <1>1, <1>2, <1>3

\* A step that adds excused reports, or none, on the same document.
LEMMA StillExcused ==
  ASSUME NestedMissingMeansAbsent, document' = document, NEW new,
         diagnostics' \subseteq diagnostics \cup new, \A d \in new : Excused(d, document)
  PROVE  NestedMissingMeansAbsent'
  <1>1. \A d \in diagnostics : Excused(d, document)
    BY ExcusedFacts
  <1>2. \A d \in diagnostics' : Excused(d, document')
    BY <1>1
  <1> QED BY <1>2 DEF NestedMissingMeansAbsent, Excused

LEMMA InitFollows == Init => CallIsDetermined
  <1> SUFFICES ASSUME Init PROVE CallIsDetermined
    OBVIOUS
  <1>1. call \in {"parse", "validate"} /\ pc = call /\ (call = "validate" => document \in Export)
    BY DEF Init
  <1>2. Building
    BY <1>1 DEF Init, Building
  <1>3. Object
    BY <1>1 DEF Init, Object
  <1>4. Walking
    BY <1>1, Absence DEF Init, Walking
  <1>5. Answered
    BY <1>1 DEF Init, Answered
  <1>6. NestedMissingMeansAbsent
    BY DEF Init, NestedMissingMeansAbsent
  <1> QED BY <1>2, <1>3, <1>4, <1>5, <1>6 DEF CallIsDetermined

LEMMA RejectRootFollows ==
  ASSUME TypeOK, CallIsDetermined, RejectRoot PROVE CallIsDetermined'
  <1> USE DEF CallIsDetermined
  <1> DEFINE malformed == Report("audit.json_malformed", In("none", "none"), document = None)
             mistyped == Report("audit.invalid_type", In("none", "none"), document = WrongType)
  <1>1. /\ pc = "parse" /\ pc' = "done" /\ document \in {None, WrongType}
        /\ diagnostics' = malformed \cup mistyped
        /\ UNCHANGED <<call, document, index, events, export, tamper_state, value>>
    BY DEF RejectRoot
  <1>2. malformed \cup mistyped # {} /\ \A d \in malformed \cup mistyped : AboutHeader(d)
    <2>1. /\ malformed = {} <=> document # None
          /\ mistyped = {} <=> document # WrongType
      BY DEF Report
    <2>2. \A d \in malformed : AboutHeader(d)
      BY DEF Report, In, AboutHeader
    <2>3. \A d \in mistyped : AboutHeader(d)
      BY DEF Report, In, AboutHeader
    <2> HIDE DEF malformed, mistyped
    <2> QED BY <1>1, <2>1, <2>2, <2>3
  <1> HIDE DEF malformed, mistyped
  <1>3. call = "parse" /\ export = None /\ value = None
    BY <1>1 DEF Building, Answered
  <1>4. Building' /\ Object' /\ Walking'
    BY <1>1, <1>3 DEF Building, Object, Walking
  <1>5. Answered'
    <2>1. ~WellBuilt(document')
      BY <1>1 DEF WellBuilt
    <2> QED BY <1>1, <1>2, <1>3, <2>1 DEF Answered
  <1>6. NestedMissingMeansAbsent'
    BY <1>1, <1>2, StillExcused, ExcusedFacts
  <1> QED BY <1>4, <1>5, <1>6

LEMMA ParseHeaderFollows ==
  ASSUME TypeOK, CallIsDetermined, ParseExportHeader PROVE CallIsDetermined'
  <1> USE DEF CallIsDetermined
  <1>1. /\ pc = "parse" /\ pc' = "build" /\ document \notin {None, WrongType}
        /\ diagnostics' = ParseHeader(document)
        /\ UNCHANGED <<call, document, index, events, export, tamper_state, value>>
    BY DEF ParseExportHeader
  <1>2. call = "parse" /\ export = None /\ value = None /\ index = 1 /\ events = <<>>
    BY <1>1 DEF Building, Answered
  <1>3. Len(Items) \in Nat /\ Items' = Items
    BY <1>1, ItemsTyped DEF Items
  <1>4. Building'
    <2>1. index' \in 1 .. Len(Items') + 1 /\ 1 .. index' - 1 = {}
      BY <1>1, <1>2, <1>3
    <2>2. events' = [k \in 1 .. index' - 1 |-> Normalized(Items'[k])]
      BY <1>1, <1>2, <2>1
    <2> QED BY <1>1, <1>2, <2>1, <2>2 DEF Building
  <1>5. Object' /\ Walking' /\ Answered'
    BY <1>1, <1>2 DEF Object, Walking, Answered
  <1>6. NestedMissingMeansAbsent'
    <2>1. \A d \in ParseHeader(document) : AboutHeader(d)
      BY <1>1, ParsedHeaderFacts DEF TypeOK
    <2> QED BY <1>1, <2>1, StillExcused, ExcusedFacts
  <1> QED BY <1>4, <1>5, <1>6

LEMMA BuildEventFollows ==
  ASSUME TypeOK, CallIsDetermined, BuildEvent PROVE CallIsDetermined'
  <1> USE DEF CallIsDetermined
  <1> DEFINE new == BuildDiagnostics(Items[index], index)
             built == [k \in 1 .. index |-> Normalized(Items[k])]
  <1>1. /\ pc = "build" /\ pc' = "build" /\ index <= Len(Items) /\ index' = index + 1
        /\ diagnostics' = diagnostics \cup new
        /\ events' = IF diagnostics' = {} THEN Append(events, Normalized(Items[index])) ELSE events
        /\ UNCHANGED <<call, document, export, tamper_state, value>>
    BY DEF BuildEvent
  <1>2. /\ call = "parse" /\ export = None /\ value = None
        /\ document \notin {None, WrongType} /\ index \in 1 .. Len(Items) + 1
        /\ diagnostics = {} <=>
             ParseHeader(document) = {} /\ \A k \in 1 .. index - 1 : BuildDiagnostics(Items[k], k) = {}
        /\ diagnostics = {} => events = [k \in 1 .. index - 1 |-> Normalized(Items[k])]
    BY <1>1 DEF Building, Answered
  <1>3. Len(Items) \in Nat /\ Items' = Items
    BY <1>1, <1>2, ItemsTyped DEF Items
  <1>4. index \in 1 .. Len(Items)
    BY <1>1, <1>2, <1>3
  <1>5. 1 .. index' - 1 = (1 .. index - 1) \cup {index} /\ index' - 1 = index
    BY <1>1, <1>3, <1>4
  <1>6. diagnostics' = {} <=>
          ParseHeader(document) = {} /\ \A k \in 1 .. index' - 1 : BuildDiagnostics(Items[k], k) = {}
    BY <1>1, <1>2, <1>5
  <1>7. diagnostics' = {} => events' = built
    <2> SUFFICES ASSUME diagnostics' = {} PROVE events' = built
      OBVIOUS
    <2>1. events' = Append(events, Normalized(Items[index])) /\ diagnostics = {}
      BY <1>1
    <2>2. events = [k \in 1 .. index - 1 |-> Normalized(Items[k])]
      BY <1>2, <2>1
    <2>3. index - 1 \in Nat /\ Len(events) = index - 1
      BY <1>3, <1>4, <2>2
    <2> DEFINE appended == Append(events, Normalized(Items[index]))
    <2>4. /\ appended = [k \in 1 .. index |-> appended[k]]
          /\ appended[index] = Normalized(Items[index])
          /\ \A k \in 1 .. index - 1 : appended[k] = Normalized(Items[k])
      BY <1>4, <2>2, <2>3
    <2> QED BY <1>5, <2>1, <2>4
  <1>8. Building'
    <2>1. index' \in 1 .. Len(Items') + 1
      BY <1>1, <1>3, <1>4
    <2> QED BY <1>1, <1>2, <1>3, <1>5, <1>6, <1>7, <2>1 DEF Building
  <1>9. Object' /\ Walking' /\ Answered'
    BY <1>1, <1>2 DEF Object, Walking, Answered
  <1>10. NestedMissingMeansAbsent'
    <2>1. \A d \in new : Faithful(d, document.events[index], index)
      BY <1>2, <1>4, BuildFacts, ItemsTyped
    <2>2. \A d \in new : Excused(d, document)
      BY <2>1, ExcusedFacts
    <2> QED BY <1>1, <2>2, StillExcused
  <1> QED BY <1>8, <1>9, <1>10

LEMMA RejectDocumentFollows ==
  ASSUME TypeOK, CallIsDetermined, RejectDocument PROVE CallIsDetermined'
  <1> USE DEF CallIsDetermined
  <1>1. /\ pc = "build" /\ pc' = "done" /\ index > Len(Items) /\ diagnostics # {}
        /\ UNCHANGED <<call, document, index, events, export, diagnostics, tamper_state, value>>
    BY DEF RejectDocument
  <1>2. call = "parse" /\ export = None /\ value = None
    BY <1>1 DEF Building, Answered
  <1>3. ~WellBuilt(document)
    BY <1>1, AllBuilt
  <1>4. Building' /\ Object' /\ Walking'
    BY <1>1, <1>2 DEF Building, Object, Walking
  <1>5. Answered'
    BY <1>1, <1>2, <1>3 DEF Answered
  <1>6. NestedMissingMeansAbsent'
    BY <1>1 DEF NestedMissingMeansAbsent
  <1> QED BY <1>4, <1>5, <1>6

LEMMA AssembleFollows ==
  ASSUME TypeOK, CallIsDetermined, AssembleExport PROVE CallIsDetermined'
  <1> USE DEF CallIsDetermined
  <1>1. /\ pc = "build" /\ pc' = "validate" /\ diagnostics = {}
        /\ UNCHANGED <<call, document, index, events, diagnostics, tamper_state, value>>
    BY DEF AssembleExport
  <1>2. call = "parse" /\ value = None /\ tamper_state = "clear"
    BY <1>1 DEF Building, Answered, Walking
  <1>3. document \in Export /\ export' = LowerExport(document) /\ export' # None
    <2>1. document \in Export /\ export' = LowerExport(document)
      BY Assembled
    <2>2. export' \in Export
      BY <2>1, LoweredExport
    <2> QED BY <2>1, <2>2, Absence
  <1>4. Building' /\ Object' /\ Walking' /\ Answered'
    BY <1>1, <1>2, <1>3 DEF Building, Object, Walking, Answered
  <1>5. NestedMissingMeansAbsent'
    BY <1>1 DEF NestedMissingMeansAbsent
  <1> QED BY <1>4, <1>5

-----------------------------------------------------------------------------
(* The stages that validate the object *)

\* A nested object is in the export under validation if it is in the document.
LEMMA SameNested ==
  ASSUME TypeOK, Object, export # None, NEW k \in 1 .. Len(export.events), NEW f \in Nested
  PROVE  export.events[k][f] = document.events[k][f]
  <1>1. document \in Export /\ export = (IF call = "parse" THEN LowerExport(document) ELSE document)
    BY DEF Object
  <1>2. CASE call = "parse"
    <2>1. k \in 1 .. Len(document.events) /\ export.events[k] = Normalized(document.events[k])
      BY <1>1, <1>2, LoweredExport
    <2>2. document.events[k] \in SecurityEvent
      BY <1>1, <2>1 DEF Export
    <2>3. f \in DOMAIN document.events[k] \ {"event_id", "request_id", "export_id_ref"}
      BY <2>2 DEF SecurityEvent, Nested
    <2> QED BY <2>1, <2>2, <2>3, NormalizedFacts
  <1>3. CASE call # "parse"
    BY <1>1, <1>3
  <1> QED BY <1>2, <1>3

LEMMA ExportTyped ==
  ASSUME TypeOK, export # None
  PROVE  /\ export \in Export /\ export.events \in Seq(SecurityEvent) /\ Len(export.events) \in Nat
         /\ \A k \in 1 .. Len(export.events) : export.events[k] \in SecurityEvent
  <1>1. export \in Export
    BY DEF TypeOK, Optional
  <1>2. export.events \in Seq(SecurityEvent)
    BY <1>1 DEF Export
  <1> QED BY <1>1, <1>2

LEMMA CheckedSoFar ==
  ASSUME NEW x \in Export, NEW n \in Nat
  PROVE  /\ CheckDiagnostics(x, 0) = ValidateHeader(x)
         /\ CheckDiagnostics(x, n + 1) = CheckDiagnostics(x, n) \cup EventDiagnostics(x, n + 1)
         /\ \A d \in CheckDiagnostics(x, n) : d.code # "audit.invalid_tamper_transition"
  <1>1. CheckDiagnostics(x, 0) = ValidateHeader(x)
    <2>1. 1 .. 0 = {}
      OBVIOUS
    <2> QED BY <2>1 DEF CheckDiagnostics
  <1>2. CheckDiagnostics(x, n + 1) = CheckDiagnostics(x, n) \cup EventDiagnostics(x, n + 1)
    <2>1. 1 .. n + 1 = (1 .. n) \cup {n + 1}
      OBVIOUS
    <2> QED BY <2>1 DEF CheckDiagnostics
  <1>3. \A d \in ValidateHeader(x) : d.code # "audit.invalid_tamper_transition"
    BY ValidatedHeaderFacts DEF AboutHeader
  <1>4. \A k \in 1 .. n : \A d \in EventDiagnostics(x, k) : d.code # "audit.invalid_tamper_transition"
    BY EventFacts DEF Faithful
  <1>5. \A d \in CheckDiagnostics(x, n) : d \in ValidateHeader(x) \/ \E k \in 1 .. n : d \in EventDiagnostics(x, k)
    BY DEF CheckDiagnostics
  <1> QED BY <1>1, <1>2, <1>3, <1>4, <1>5

LEMMA ValidateHeaderFollows ==
  ASSUME TypeOK, CallIsDetermined, ValidateExportHeader PROVE CallIsDetermined'
  <1> USE DEF CallIsDetermined
  <1>1. /\ pc = "validate" /\ pc' = "check" /\ diagnostics' = ValidateHeader(export) /\ index' = 1
        /\ UNCHANGED <<call, document, events, export, tamper_state, value>>
    BY DEF ValidateExportHeader
  <1>2. export # None /\ tamper_state = "clear" /\ value = None
    BY <1>1 DEF Walking, Answered
  <1>3. export \in Export /\ Len(export.events) \in Nat
    BY <1>2, ExportTyped
  <1>4. Building' /\ Object' /\ Answered'
    BY <1>1, <1>2 DEF Building, Object, Answered
  <1>5. Walking'
    <2>1. index' \in 1 .. Len(export'.events) + 1 /\ index' - 1 = 0
      BY <1>1, <1>3
    <2>2. diagnostics' = CheckDiagnostics(export', index' - 1)
      BY <1>1, <1>3, <2>1, CheckedSoFar
    <2> QED BY <1>1, <1>2, <2>1, <2>2 DEF Walking
  <1>6. NestedMissingMeansAbsent'
    <2>1. \A d \in ValidateHeader(export) : Excused(d, document)
      BY <1>3, ValidatedHeaderFacts, ExcusedFacts
    <2> QED BY <1>1, <2>1, StillExcused
  <1> QED BY <1>4, <1>5, <1>6

LEMMA CheckEventFollows ==
  ASSUME TypeOK, CallIsDetermined, CheckEvent PROVE CallIsDetermined'
  <1> USE DEF CallIsDetermined
  <1>1. /\ pc = "check" /\ pc' = "check" /\ index <= Len(export.events) /\ index' = index + 1
        /\ diagnostics' = diagnostics \cup EventDiagnostics(export, index)
        /\ UNCHANGED <<call, document, events, export, tamper_state, value>>
    BY DEF CheckEvent
  <1>2. /\ export # None /\ tamper_state = "clear" /\ value = None
        /\ index \in 1 .. Len(export.events) + 1 /\ diagnostics = CheckDiagnostics(export, index - 1)
    BY <1>1 DEF Walking, Answered
  <1>3. export \in Export /\ Len(export.events) \in Nat
    BY <1>2, ExportTyped
  <1>4. Building' /\ Object' /\ Answered'
    BY <1>1, <1>2 DEF Building, Object, Answered
  <1>5. index \in 1 .. Len(export.events)
    BY <1>1, <1>2, <1>3
  <1>6. Walking'
    <2>1. index' \in 1 .. Len(export'.events) + 1 /\ index - 1 \in Nat /\ index = (index - 1) + 1 /\ index' - 1 = index
      BY <1>1, <1>3, <1>5
    <2>2. diagnostics' = CheckDiagnostics(export', index' - 1)
      BY <1>1, <1>2, <1>3, <2>1, CheckedSoFar
    <2> QED BY <1>1, <1>2, <2>1, <2>2 DEF Walking
  <1>7. NestedMissingMeansAbsent'
    <2>1. \A d \in EventDiagnostics(export, index) : Faithful(d, export.events[index], index)
      BY EventFacts
    <2>2. \A f \in Nested : export.events[index][f] = document.events[index][f]
      BY <1>2, <1>5, SameNested
    <2>3. \A d \in EventDiagnostics(export, index) : Excused(d, document)
      BY <2>1, <2>2, ExcusedFacts
    <2> QED BY <1>1, <2>3, StillExcused
  <1> QED BY <1>4, <1>6, <1>7

-----------------------------------------------------------------------------
(* The tamper walk *)

LEMMA TransitionTable ==
  /\ DOMAIN Follows \subseteq TamperType
  /\ \A t \in TamperType : "clear" \in LegalIn[t] <=> t \notin DOMAIN Follows
  /\ \A t, u \in TamperType : LeadsTo[u] \in LegalIn[t] <=> (t \in DOMAIN Follows => u \in Follows[t])
  BY DEF Follows, TamperType, LegalIn, LeadsTo, TamperState

LEMMA RefusalFacts ==
  /\ \A k : Refusal(k).code = "audit.invalid_tamper_transition"
  /\ \A j, k : Refusal(j) = Refusal(k) <=> j = k
  /\ \A k, doc : Excused(Refusal(k), doc)
  <1>1. \A k : Refusal(k).code = "audit.invalid_tamper_transition" /\ Refusal(k).where[1] = k
    BY DEF Refusal
  <1> QED BY <1>1 DEF Excused

LEMMA StartFollows ==
  ASSUME TypeOK, CallIsDetermined, StartTamperWalk PROVE CallIsDetermined'
  <1> USE DEF CallIsDetermined
  <1>1. /\ pc = "check" /\ pc' = "tamper" /\ index > Len(export.events) /\ index' = 1
        /\ UNCHANGED <<call, document, events, export, diagnostics, tamper_state, value>>
    BY DEF StartTamperWalk
  <1>2. /\ export # None /\ tamper_state = "clear" /\ value = None
        /\ index \in 1 .. Len(export.events) + 1 /\ diagnostics = CheckDiagnostics(export, index - 1)
    BY <1>1 DEF Walking, Answered
  <1>3. export \in Export /\ Len(export.events) \in Nat
    BY <1>2, ExportTyped
  <1>4. Building' /\ Object' /\ Answered'
    BY <1>1, <1>2 DEF Building, Object, Answered
  <1>5. Walking'
    <2>1. index' \in 1 .. Len(export'.events) + 1 /\ 1 .. index' - 1 = {} /\ index - 1 = Len(export.events)
      BY <1>1, <1>2, <1>3
    <2>2. Refused' = {} /\ Accepted' = {}
      BY <2>1 DEF Refused, Accepted, TamperEventsBefore
    <2>3. StoryUpTo(export', index' - 1)
      BY <2>1 DEF StoryUpTo
    <2>4. diagnostics' = CheckDiagnostics(export', Len(export'.events)) \cup {Refusal(k) : k \in Refused'}
      BY <1>1, <1>2, <2>1, <2>2
    <2> QED BY <1>1, <1>2, <2>1, <2>2, <2>3, <2>4 DEF Walking
  <1>6. NestedMissingMeansAbsent'
    BY <1>1 DEF NestedMissingMeansAbsent
  <1> QED BY <1>4, <1>5, <1>6

\* The walk before the event at index: nothing was said yet of that event.
LEMMA WalkSoFar ==
  ASSUME TypeOK, CallIsDetermined, pc = "tamper", index <= Len(export.events)
  PROVE  /\ export # None /\ export \in Export /\ value = None
         /\ index \in 1 .. Len(export.events) /\ index + 1 \in 1 .. Len(export.events) + 1
         /\ 1 .. (index + 1) - 1 = (1 .. index - 1) \cup {index} /\ index \notin 1 .. index - 1
         /\ Refusal(index) \notin diagnostics
         /\ TamperEventsBefore(export, index + 1) =
              TamperEventsBefore(export, index)
                \cup (IF export.events[index].event_type \in TamperType THEN {index} ELSE {})
         /\ \A j \in TamperEventsBefore(export, index) : j < index
         /\ StoryUpTo(export, (index + 1) - 1) <=>
              /\ StoryUpTo(export, index - 1)
              /\ export.events[index].event_type \in DOMAIN Follows =>
                   \E j \in TamperEventsBefore(export, index) :
                     /\ export.events[j].event_type \in Follows[export.events[index].event_type]
                     /\ \A i \in TamperEventsBefore(export, index) : i <= j
  <1>1. /\ export # None /\ value = None /\ index \in 1 .. Len(export.events) + 1
        /\ diagnostics = CheckDiagnostics(export, Len(export.events)) \cup {Refusal(k) : k \in Refused}
    BY DEF CallIsDetermined, Walking, Answered
  <1>2. export \in Export /\ Len(export.events) \in Nat
    BY <1>1, ExportTyped
  <1>3. /\ index \in 1 .. Len(export.events) /\ index + 1 \in 1 .. Len(export.events) + 1
        /\ 1 .. (index + 1) - 1 = (1 .. index - 1) \cup {index} /\ index \notin 1 .. index - 1
    BY <1>1, <1>2
  <1>4. Refusal(index) \notin diagnostics
    <2>1. index \notin Refused
      BY <1>3 DEF Refused
    <2>2. Refusal(index) \notin CheckDiagnostics(export, Len(export.events))
      BY <1>2, CheckedSoFar, RefusalFacts
    <2> QED BY <1>1, <2>1, <2>2, RefusalFacts
  <1>5. TamperEventsBefore(export, index + 1) =
          TamperEventsBefore(export, index)
            \cup (IF export.events[index].event_type \in TamperType THEN {index} ELSE {})
    BY <1>3 DEF TamperEventsBefore
  <1>6. \A j \in TamperEventsBefore(export, index) : j < index
    BY <1>2, <1>3 DEF TamperEventsBefore
  <1>7. StoryUpTo(export, (index + 1) - 1) <=>
          /\ StoryUpTo(export, index - 1)
          /\ export.events[index].event_type \in DOMAIN Follows =>
               \E j \in TamperEventsBefore(export, index) :
                 /\ export.events[j].event_type \in Follows[export.events[index].event_type]
                 /\ \A i \in TamperEventsBefore(export, index) : i <= j
    BY <1>3 DEF StoryUpTo
  <1> QED BY <1>1, <1>2, <1>3, <1>4, <1>5, <1>6, <1>7

LEMMA OtherEventFollows ==
  ASSUME TypeOK, CallIsDetermined, OtherEvent PROVE CallIsDetermined'
  <1> USE DEF CallIsDetermined
  <1>1. /\ pc = "tamper" /\ pc' = "tamper" /\ index <= Len(export.events) /\ index' = index + 1
        /\ export.events[index].event_type \notin TamperType
        /\ UNCHANGED <<call, document, events, export, diagnostics, tamper_state, value>>
    BY DEF OtherEvent
  <1>2. /\ export # None /\ value = None
        /\ diagnostics = CheckDiagnostics(export, Len(export.events)) \cup {Refusal(k) : k \in Refused}
        /\ IF Accepted = {} THEN tamper_state = "clear"
           ELSE \E j \in Accepted : /\ \A i \in Accepted : i <= j
                                    /\ tamper_state = LeadsTo[export.events[j].event_type]
        /\ Refused = {} <=> StoryUpTo(export, index - 1)
    BY <1>1 DEF Walking, Answered
  <1>3. /\ index' \in 1 .. Len(export'.events) + 1
        /\ 1 .. index' - 1 = (1 .. index - 1) \cup {index}
        /\ Refusal(index) \notin diagnostics
        /\ TamperEventsBefore(export', index') = TamperEventsBefore(export, index)
    BY <1>1, WalkSoFar
  <1>4. Refused' = Refused
    BY <1>1, <1>3 DEF Refused, Refusal
  <1>5. Accepted' = Accepted
    BY <1>3, <1>4 DEF Accepted
  <1>6. StoryUpTo(export', index' - 1) <=> StoryUpTo(export, index - 1)
    <2>1. export.events[index].event_type \notin DOMAIN Follows
      BY <1>1, TransitionTable
    <2> QED BY <1>1, <2>1, WalkSoFar
  <1>7. Building' /\ Object' /\ Answered'
    BY <1>1, <1>2 DEF Building, Object, Answered
  <1>8. Walking'
    <2>1. diagnostics' = CheckDiagnostics(export', Len(export'.events)) \cup {Refusal(k) : k \in Refused'}
      BY <1>1, <1>2, <1>4
    <2>2. IF Accepted' = {} THEN tamper_state' = "clear"
          ELSE \E j \in Accepted' : /\ \A i \in Accepted' : i <= j
                                    /\ tamper_state' = LeadsTo[export'.events[j].event_type]
      BY <1>1, <1>2, <1>5
    <2>3. Refused' = {} <=> StoryUpTo(export', index' - 1)
      BY <1>2, <1>4, <1>6
    <2> QED BY <1>1, <1>2, <1>3, <2>1, <2>2, <2>3 DEF Walking
  <1>9. NestedMissingMeansAbsent'
    BY <1>1 DEF NestedMissingMeansAbsent
  <1> QED BY <1>7, <1>8, <1>9

\* Whether the walk accepts the event at index is whether the story holds up to it.
LEMMA StoryVerdict ==
  ASSUME TypeOK, CallIsDetermined, pc = "tamper", index <= Len(export.events),
         export.events[index].event_type \in TamperType, Refused = {}
  PROVE  tamper_state \in LegalIn[export.events[index].event_type] <=> StoryUpTo(export, (index + 1) - 1)
  <1> DEFINE type == export.events[index].event_type
             earlier == TamperEventsBefore(export, index)
  <1>1. /\ IF Accepted = {} THEN tamper_state = "clear"
           ELSE \E j \in Accepted : /\ \A i \in Accepted : i <= j
                                    /\ tamper_state = LeadsTo[export.events[j].event_type]
        /\ StoryUpTo(export, index - 1)
    BY DEF CallIsDetermined, Walking
  <1>2. Accepted = earlier
    BY DEF Accepted
  <1>3. StoryUpTo(export, (index + 1) - 1) <=>
          (type \in DOMAIN Follows =>
             \E j \in earlier : export.events[j].event_type \in Follows[type] /\ \A i \in earlier : i <= j)
    BY <1>1, WalkSoFar
  <1>4. \A j \in earlier : j \in Nat /\ export.events[j].event_type \in TamperType
    BY WalkSoFar DEF TamperEventsBefore
  <1>5. type \in TamperType
    OBVIOUS
  <1> HIDE DEF type, earlier
  <1>6. CASE earlier = {}
    <2>1. tamper_state \in LegalIn[type] <=> type \notin DOMAIN Follows
      BY <1>1, <1>2, <1>5, <1>6, TransitionTable
    <2> QED BY <1>3, <1>6, <2>1 DEF type
  <1>7. CASE earlier # {}
    <2>1. PICK j \in earlier : (\A i \in earlier : i <= j) /\ tamper_state = LeadsTo[export.events[j].event_type]
      BY <1>1, <1>2, <1>7
    <2>2. \A i \in earlier : (\A h \in earlier : h <= i) => i = j
      BY <1>4, <2>1
    <2>3. tamper_state \in LegalIn[type] <=> (type \in DOMAIN Follows => export.events[j].event_type \in Follows[type])
      BY <1>4, <1>5, <2>1, TransitionTable
    <2> QED BY <1>3, <2>1, <2>2, <2>3 DEF type
  <1> QED BY <1>6, <1>7

LEMMA TamperEventFollows ==
  ASSUME TypeOK, CallIsDetermined, TamperEvent PROVE CallIsDetermined'
  <1> USE DEF CallIsDetermined
  <1> DEFINE type == export.events[index].event_type
             legal == tamper_state \in LegalIn[type]
  <1>1. /\ pc = "tamper" /\ pc' = "tamper" /\ index <= Len(export.events) /\ index' = index + 1
        /\ type \in TamperType
        /\ tamper_state' = IF legal THEN LeadsTo[type] ELSE tamper_state
        /\ diagnostics' = diagnostics \cup (IF legal THEN {} ELSE {Refusal(index)})
        /\ UNCHANGED <<call, document, events, export, value>>
    BY DEF TamperEvent, Report, Refusal
  <1>2. /\ export # None /\ value = None
        /\ diagnostics = CheckDiagnostics(export, Len(export.events)) \cup {Refusal(k) : k \in Refused}
        /\ IF Accepted = {} THEN tamper_state = "clear"
           ELSE \E j \in Accepted : /\ \A i \in Accepted : i <= j
                                    /\ tamper_state = LeadsTo[export.events[j].event_type]
        /\ Refused = {} <=> StoryUpTo(export, index - 1)
    BY <1>1 DEF Walking, Answered
  <1>3. /\ index' \in 1 .. Len(export'.events) + 1
        /\ 1 .. index' - 1 = (1 .. index - 1) \cup {index} /\ index \notin 1 .. index - 1
        /\ Refusal(index) \notin diagnostics
        /\ TamperEventsBefore(export', index') = TamperEventsBefore(export, index) \cup {index}
        /\ \A j \in TamperEventsBefore(export, index) : j < index
    BY <1>1, WalkSoFar
  <1>4. Refused' = IF legal THEN Refused ELSE Refused \cup {index}
    <2>1. \A k : Refusal(k)' = Refusal(k)
      BY DEF Refusal
    <2>2. \A k \in 1 .. index - 1 : Refusal(k) \in diagnostics' <=> Refusal(k) \in diagnostics
      BY <1>1, <1>3, RefusalFacts
    <2>3. Refusal(index) \in diagnostics' <=> ~legal
      BY <1>1, <1>3
    <2> HIDE DEF legal
    <2>4. Refused' = {k \in 1 .. index' - 1 : Refusal(k) \in diagnostics'}
      BY <2>1 DEF Refused
    <2> QED BY <1>3, <2>2, <2>3, <2>4 DEF Refused
  <1>5. Accepted' = IF legal THEN Accepted \cup {index} ELSE Accepted
    <2>1. index \notin Refused /\ index \notin TamperEventsBefore(export, index)
      BY <1>3 DEF Refused, TamperEventsBefore
    <2> HIDE DEF legal
    <2> QED BY <1>3, <1>4, <2>1 DEF Accepted
  <1>6. Building' /\ Object' /\ Answered'
    BY <1>1, <1>2 DEF Building, Object, Answered
  <1>7. diagnostics' = CheckDiagnostics(export', Len(export'.events)) \cup {Refusal(k) : k \in Refused'}
    <2> HIDE DEF legal
    <2> QED BY <1>1, <1>2, <1>4
  <1>8. IF Accepted' = {} THEN tamper_state' = "clear"
        ELSE \E j \in Accepted' : /\ \A i \in Accepted' : i <= j
                                  /\ tamper_state' = LeadsTo[export'.events[j].event_type]
    <2>1. CASE legal
      <3>1. Accepted' = Accepted \cup {index} /\ tamper_state' = LeadsTo[export'.events[index].event_type]
        BY <1>1, <1>5, <2>1
      <3>2. \A i \in Accepted : i <= index
        BY <1>1, <1>3, WalkSoFar DEF Accepted, TamperEventsBefore
      <3>3. index <= index
        BY DEF TypeOK
      <3> QED BY <3>1, <3>2, <3>3
    <2>2. CASE ~legal
      BY <1>1, <1>2, <1>5, <2>2
    <2> QED BY <2>1, <2>2
  <1>9. Refused' = {} <=> StoryUpTo(export', index' - 1)
    <2>1. CASE Refused = {}
      <3>1. legal <=> StoryUpTo(export', index' - 1)
        BY <1>1, <2>1, StoryVerdict
      <3> HIDE DEF legal
      <3> QED BY <1>4, <2>1, <3>1
    <2>2. CASE Refused # {}
      <3>1. ~StoryUpTo(export, (index + 1) - 1)
        BY <1>1, <1>2, <2>2, WalkSoFar
      <3>2. ~StoryUpTo(export', index' - 1)
        BY <1>1, <3>1
      <3> HIDE DEF legal
      <3> QED BY <1>4, <2>2, <3>2
    <2> QED BY <2>1, <2>2
  <1>10. Walking'
    BY <1>1, <1>2, <1>3, <1>7, <1>8, <1>9 DEF Walking
  <1>11. NestedMissingMeansAbsent'
    <2> DEFINE new == {Refusal(index)}
    <2>1. \A d \in new : Excused(d, document)
      BY RefusalFacts
    <2>2. diagnostics' \subseteq diagnostics \cup new /\ document' = document
      BY <1>1
    <2> HIDE DEF new
    <2> QED BY <2>1, <2>2, StillExcused
  <1> QED BY <1>6, <1>10, <1>11

LEMMA FinishFollows ==
  ASSUME TypeOK, CallIsDetermined, Finish PROVE CallIsDetermined'
  <1> USE DEF CallIsDetermined
  <1>1. /\ pc = "tamper" /\ pc' = "done" /\ index > Len(export.events)
        /\ value' = IF call = "parse" /\ diagnostics = {} THEN export ELSE None
        /\ UNCHANGED <<call, document, index, events, export, diagnostics, tamper_state>>
    BY DEF Finish
  <1>2. /\ export # None /\ index \in 1 .. Len(export.events) + 1
        /\ diagnostics = CheckDiagnostics(export, Len(export.events)) \cup {Refusal(k) : k \in Refused}
        /\ Refused = {} <=> StoryUpTo(export, index - 1)
    BY <1>1 DEF Walking
  <1>3. index - 1 = Len(export.events)
    BY <1>1, <1>2, ExportTyped
  <1>4. diagnostics = {} <=> Valid(export)
    <2>1. diagnostics = {} <=> CheckDiagnostics(export, Len(export.events)) = {} /\ Refused = {}
      BY <1>2
    <2> QED BY <1>2, <1>3, <2>1 DEF Valid
  <1>5. Building' /\ Object' /\ Walking'
    BY <1>1 DEF Building, Object, Walking
  <1>6. Answered'
    BY <1>1, <1>2, <1>4 DEF Answered
  <1>7. NestedMissingMeansAbsent'
    BY <1>1 DEF NestedMissingMeansAbsent
  <1> QED BY <1>5, <1>6, <1>7

-----------------------------------------------------------------------------
(* The theorems *)

LEMMA StepFollows == ASSUME TypeOK, CallIsDetermined, [Next]_vars PROVE CallIsDetermined'
  <1>1. ASSUME UNCHANGED vars PROVE CallIsDetermined'
    BY <1>1 DEF vars, CallIsDetermined, Building, Object, Walking, Answered, NestedMissingMeansAbsent,
                Items, Refused, Refusal, Accepted
  <1> QED BY <1>1, RejectRootFollows, ParseHeaderFollows, BuildEventFollows, RejectDocumentFollows,
             AssembleFollows, ValidateHeaderFollows, CheckEventFollows, StartFollows, OtherEventFollows,
             TamperEventFollows, FinishFollows DEF Next

LEMMA InductiveInvariant == Spec => [](TypeOK /\ CallIsDetermined)
  <1>1. TypeOK /\ CallIsDetermined /\ [Next]_vars => TypeOK' /\ CallIsDetermined'
    BY StepTyped, StepFollows DEF CallIsDetermined
  <1> QED BY InitTyped, InitFollows, <1>1, PTL DEF Spec

\* Every variable of a call keeps its type, whatever the document: what reaches the
\* validation is an object with as many events as the document.
THEOREM TypeCorrectness == Spec => []TypeOK
  BY InductiveInvariant, PTL

\* Parsing accepts exactly the documents of legal exports and returns their content with
\* lower-case ids; validating accepts exactly the legal exports.
THEOREM Acceptance == Spec => []AcceptedIffLegal
  <1>1. ASSUME TypeOK, CallIsDetermined PROVE AcceptedIffLegal
    <2> SUFFICES ASSUME pc = "done"
                 PROVE  IF call = "parse"
                        THEN /\ diagnostics = {} <=> document \in Export /\ Legal(LowerExport(document))
                             /\ value = IF diagnostics = {} THEN LowerExport(document) ELSE None
                        ELSE diagnostics = {} <=> Legal(document)
      BY DEF AcceptedIffLegal
    <2>1. document \in Document \cup {None, WrongType}
      BY <1>1 DEF TypeOK
    <2>2. IF export = None
          THEN call = "parse" /\ diagnostics # {} /\ value = None /\ ~WellBuilt(document)
          ELSE /\ diagnostics = {} <=> Valid(export)
               /\ value = IF call = "parse" /\ diagnostics = {} THEN export ELSE None
      BY <1>1 DEF CallIsDetermined, Answered
    <2>3. CASE export = None
      <3>1. ~(document \in Export /\ Legal(LowerExport(document)))
        BY <2>1, <2>2, <2>3, LegalIsWellBuilt
      <3> QED BY <2>2, <2>3, <3>1
    <2>4. CASE export # None
      <3>1. /\ document \in Export
            /\ export = (IF call = "parse" THEN LowerExport(document) ELSE document)
        BY <1>1, <2>4 DEF CallIsDetermined, Object
      <3>2. export \in Export
        BY <1>1, <2>4, ExportTyped
      <3>3. Valid(export) <=> Legal(export)
        BY <3>2, ValidIffLegal
      <3> QED BY <2>2, <2>4, <3>1, <3>3
    <2> QED BY <2>3, <2>4
  <1> QED BY <1>1, InductiveInvariant, PTL

\* During the walk, the tamper state is that of the last tamper event that was not refused.
THEOREM TamperWalk == Spec => []TamperStateIsLastAccepted
  <1>1. ASSUME TypeOK, CallIsDetermined PROVE TamperStateIsLastAccepted
    <2> DEFINE taken == {j \in TamperEventsBefore(export, index) :
                 \A d \in diagnostics : ~(d.code = "audit.invalid_tamper_transition" /\ d.where[1] = j)}
    <2> SUFFICES ASSUME pc = "tamper"
                 PROVE  IF taken = {} THEN tamper_state = "clear"
                        ELSE \E j \in taken : /\ \A i \in taken : i <= j
                                              /\ tamper_state = LeadsTo[export.events[j].event_type]
      BY DEF TamperStateIsLastAccepted
    <2>1. /\ export # None
          /\ diagnostics = CheckDiagnostics(export, Len(export.events)) \cup {Refusal(k) : k \in Refused}
          /\ IF Accepted = {} THEN tamper_state = "clear"
             ELSE \E j \in Accepted : /\ \A i \in Accepted : i <= j
                                      /\ tamper_state = LeadsTo[export.events[j].event_type]
      BY <1>1 DEF CallIsDetermined, Walking
    <2>2. export \in Export /\ Len(export.events) \in Nat
      BY <1>1, <2>1, ExportTyped
    <2>3. \A d \in CheckDiagnostics(export, Len(export.events)) : d.code # "audit.invalid_tamper_transition"
      BY <2>2, CheckedSoFar
    <2>4. \A k : Refusal(k).code = "audit.invalid_tamper_transition" /\ Refusal(k).where[1] = k
      BY DEF Refusal
    <2>5. \A j : (\A d \in diagnostics : ~(d.code = "audit.invalid_tamper_transition" /\ d.where[1] = j))
                    <=> j \notin Refused
      BY <2>1, <2>3, <2>4
    <2>6. taken = Accepted
      BY <2>5 DEF Accepted
    <2> HIDE DEF taken
    <2> QED BY <2>1, <2>6
  <1> QED BY <1>1, InductiveInvariant, PTL

\* Nothing that is present, however malformed, is reported as missing: parsing reports the
\* absence of a nested object only when the document lacks it.
THEOREM NestedMissing == Spec => []NestedMissingMeansAbsent
  <1>1. TypeOK /\ CallIsDetermined => NestedMissingMeansAbsent
    BY DEF CallIsDetermined
  <1> QED BY <1>1, InductiveInvariant, PTL
=============================================================================
