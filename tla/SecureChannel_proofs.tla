------------------------ MODULE SecureChannel_proofs ------------------------
(***************************************************************************)
(* Proofs about SecureChannel, for every session: what parsing returns, in *)
(* whatever order the calls are made, is complete and in its type; what    *)
(* the second stage says of it follows from that. The inductive invariant  *)
(* says what each call that was made has reported and returned.            *)
(***************************************************************************)
EXTENDS SecureChannel, FiniteSetTheorems, TLAPS

-----------------------------------------------------------------------------
(* The inductive invariant *)

ContractCall ==
  /\ log[<<"contract", 0>>] \in {None, ContractDiagnostics(session.contract)}
  /\ contract = IF log[<<"contract", 0>>] = {} THEN ContractValue(session.contract) ELSE None

ModuleCall ==
  /\ log[<<"module", 0>>] \in {None, ModuleDiagnostics(session.module)}
  /\ module = IF log[<<"module", 0>>] = {} THEN ModuleValue(session.module) ELSE None

ResponseCall ==
  /\ log[<<"response", 0>>] \in {None, ResponseDiagnostics(session.response)}
  /\ response = IF log[<<"response", 0>>] = {} THEN ResponseValue(session.response) ELSE None

RequestCall(k) ==
  /\ log[<<"request", k>>] \in {None, RequestDiagnostics(session.requests[k])}
  /\ requests[k] = IF log[<<"request", k>>] = {} THEN RequestValue(session.requests[k]) ELSE None

\* The second stage judges the values that are there now: none of them changes any more.
AuthorizeCall(k) ==
  log[<<"authorize", k>>] # None =>
    /\ contract # None /\ requests[k] # None
    /\ log[<<"authorize", k>>] = AuthorizeRequest(contract, requests[k])

ValidateCall(k) ==
  log[<<"validate", k>>] # None =>
    /\ contract # None /\ requests[k] # None /\ response # None
    /\ log[<<"validate", k>>] = ValidateResponse(contract, requests[k], response)

Shape ==
  /\ session \in SessionDocuments /\ DOMAIN log = Calls(session)
  /\ requests = [k \in DOMAIN session.requests |-> requests[k]]

CallsAreDetermined ==
  /\ Shape
  /\ ContractCall /\ ModuleCall /\ ResponseCall
  /\ \A k \in DOMAIN session.requests : RequestCall(k) /\ AuthorizeCall(k) /\ ValidateCall(k)

-----------------------------------------------------------------------------
(* Members of a document without a report *)

LEMMA StringFacts ==
  ASSUME NEW v \in Json(Text), NEW path, RequiredString(v, path) = {}
  PROVE  v \in Text /\ v # None /\ v # Empty /\ StringValue(v) = v
  <1>1. v # None /\ v # WrongType /\ v # Empty
    BY DEF RequiredString, Present, Report
  <1> QED BY <1>1 DEF Json, StringValue

LEMMA EnumFacts ==
  ASSUME NEW v, NEW legal, NEW code, NEW path, RequiredEnum(v, legal, code, path) = {}
  PROVE  v \in legal /\ v \notin {None, WrongType, Empty} /\ EnumValue(v, legal) = v
  <1>1. v # None /\ v # WrongType /\ v # Empty
    BY DEF RequiredEnum, RequiredString, Present, Report
  <1>2. v \in legal
    BY <1>1 DEF RequiredEnum, Report
  <1> QED BY <1>1, <1>2 DEF EnumValue

LEMMA FingerprintFacts ==
  ASSUME NEW v, NEW path, RequiredFingerprint(v, path) = {}
  PROVE  FingerprintValue(v) \in LowerCase(Hex) /\ FingerprintValue(v) # None
  <1>1. v # None /\ v # WrongType /\ v # Empty
    BY DEF RequiredFingerprint, RequiredString, Present, Report
  <1>2. v \in Hex
    BY <1>1 DEF RequiredFingerprint, Report
  <1> QED BY <1>2, TextAssumption DEF FingerprintValue, LowerCase

LEMMA ListFacts ==
  ASSUME NEW v \in Json(TextList), NEW path, RequiredArray(v, path) = {}
  PROVE  /\ IsArray(v) /\ v \in TextList /\ Usable(v) # {}
         /\ ArrayValue(v) \in SUBSET Text /\ ArrayValue(v) # None
  <1>1. IsArray(v)
    BY DEF RequiredArray, IsArray, Present, Report
  <1>2. Usable(v) # {}
    <2>1. Report("invalid_value", path, Usable(v) = {}) = {}
      BY <1>1 DEF RequiredArray
    <2> QED BY <2>1 DEF Report
  <1>3. v \in TextList /\ v \in Seq(Text \cup {WrongType})
    BY <1>1, ListsAssumption DEF Json, IsArray
  <1>4. ArrayValue(v) = {v[i] : i \in Usable(v)}
    BY <1>1, <1>2 DEF ArrayValue
  <1>5. Usable(v) \subseteq DOMAIN v /\ \A i \in Usable(v) : v[i] \in Text
    BY <1>3 DEF Usable
  <1>6. None # {v[i] : i \in Usable(v)}
    BY <1>3, <1>5, AbsenceAssumption DEF NoneIsNoSelection
  <1> QED BY <1>1, <1>2, <1>3, <1>4, <1>5, <1>6

LEMMA UniqueStringsFacts ==
  ASSUME NEW v \in Json(TextList), NEW code, NEW path, UniqueStrings(v, code, path) = {}
  PROVE  ArrayValue(v) \in SUBSET Text /\ ArrayValue(v) # None
  <1>1. RequiredArray(v, path) = {}
    BY DEF UniqueStrings
  <1> QED BY <1>1, ListFacts

LEMMA UniqueEnumsFacts ==
  ASSUME NEW v \in Json(TextList), NEW legal, NEW code, NEW duplicate, NEW path,
         UniqueEnums(v, legal, code, duplicate, path) = {}
  PROVE  EnumsValue(v, legal) \in SUBSET legal /\ EnumsValue(v, legal) # None /\ EnumsValue(v, legal) # {}
  <1>1. RequiredArray(v, path) = {}
    BY DEF UniqueEnums
  <1>2. IsArray(v) /\ v \in TextList /\ Usable(v) # {}
    BY <1>1, ListFacts
  <1>3. \A i \in Usable(v) \ Legal(v, legal) : Report(code, Item(path, i), TRUE) = {}
    BY <1>2 DEF UniqueEnums
  <1>4. Legal(v, legal) = Usable(v)
    BY <1>3 DEF Report, Legal
  <1>5. EnumsValue(v, legal) = {v[i] : i \in Legal(v, legal)}
    BY <1>2, <1>4 DEF EnumsValue
  <1>6. Legal(v, legal) \subseteq DOMAIN v /\ \A i \in Legal(v, legal) : v[i] \in legal
    BY DEF Legal, Usable
  <1>7. None # {v[i] : i \in Legal(v, legal)}
    BY <1>2, <1>6, AbsenceAssumption DEF NoneIsNoSelection
  <1> QED BY <1>2, <1>4, <1>5, <1>6, <1>7

LEMMA CompleteFacts ==
  ASSUME NEW value, \A part \in DOMAIN value : value[part] # None
  PROVE  Complete(value) = value
  BY DEF Complete

-----------------------------------------------------------------------------
(* Objects without a report *)

LEMMA IdentityFacts ==
  ASSUME NEW d \in Json(IdentityDocument), NEW path, PeerIdentityDiagnostics(d, path) = {}
  PROVE  PeerIdentityValue(d) \in PeerIdentity /\ PeerIdentityValue(d) # None
  <1> DEFINE whole == [role |-> EnumValue(d.role, PeerRole), device_id |-> StringValue(d.device_id),
                       certificate_fingerprint |-> FingerprintValue(d.certificate_fingerprint),
                       subject_dn |-> StringValue(d.subject_dn),
                       san_dns_names |-> ArrayValue(d.san_dns_names),
                       san_uri_names |-> ArrayValue(d.san_uri_names)]
  <1>1. d \notin {None, WrongType}
    BY DEF PeerIdentityDiagnostics, Present, Report
  <1>2. d \in IdentityDocument
    BY <1>1 DEF Json
  <1>3. /\ RequiredEnum(d.role, PeerRole, "invalid_role", Member(path, "role")) = {}
        /\ RequiredString(d.device_id, Member(path, "device_id")) = {}
        /\ RequiredFingerprint(d.certificate_fingerprint, Member(path, "certificate_fingerprint")) = {}
        /\ RequiredString(d.subject_dn, Member(path, "subject_dn")) = {}
        /\ UniqueStrings(d.san_dns_names, "duplicate_san_entry", Member(path, "san_dns_names")) = {}
        /\ UniqueStrings(d.san_uri_names, "duplicate_san_entry", Member(path, "san_uri_names")) = {}
    BY <1>1 DEF PeerIdentityDiagnostics
  <1>4. /\ d.device_id \in Json(Text) /\ d.subject_dn \in Json(Text)
        /\ d.san_dns_names \in Json(TextList) /\ d.san_uri_names \in Json(TextList)
    BY <1>2 DEF IdentityDocument
  <1>5. EnumValue(d.role, PeerRole) \in PeerRole /\ EnumValue(d.role, PeerRole) # None
    BY <1>3, EnumFacts
  <1>6. /\ StringValue(d.device_id) \in Text /\ StringValue(d.device_id) # None
        /\ StringValue(d.subject_dn) \in Text /\ StringValue(d.subject_dn) # None
    BY <1>3, <1>4, StringFacts
  <1>7. FingerprintValue(d.certificate_fingerprint) \in LowerCase(Hex) /\ FingerprintValue(d.certificate_fingerprint) # None
    BY <1>3, FingerprintFacts
  <1>8. /\ ArrayValue(d.san_dns_names) \in SUBSET Text /\ ArrayValue(d.san_dns_names) # None
        /\ ArrayValue(d.san_uri_names) \in SUBSET Text /\ ArrayValue(d.san_uri_names) # None
    BY <1>3, <1>4, UniqueStringsFacts
  <1>9. whole \in PeerIdentity /\ \A part \in DOMAIN whole : whole[part] # None
    BY <1>5, <1>6, <1>7, <1>8 DEF PeerIdentity
  <1>10. PeerIdentityValue(d) = Complete(whole)
    BY <1>1 DEF PeerIdentityValue
  <1> HIDE DEF whole
  <1> QED BY <1>9, <1>10, CompleteFacts, AbsenceAssumption

LEMMA RequirementsFacts ==
  ASSUME NEW d \in Json(RequirementsDocument), NEW path, TrustRequirementsDiagnostics(d, path) = {}
  PROVE  TrustRequirementsValue(d) \in TrustRequirements /\ TrustRequirementsValue(d) # None
  <1> DEFINE whole == [certificate_store_ref |-> StringValue(d.certificate_store_ref),
                 required_decision |-> EnumValue(d.required_decision, TrustDecision),
                 required_decision_reason |-> EnumValue(d.required_decision_reason, TrustDecisionReason),
                 accepted_revocation_statuses |-> EnumsValue(d.accepted_revocation_statuses, RevocationStatus),
                 required_checked_sources |-> ArrayValue(d.required_checked_sources)]
  <1>1. d \notin {None, WrongType}
    BY DEF TrustRequirementsDiagnostics, Present, Report
  <1>2. d \in RequirementsDocument
    BY <1>1 DEF Json
  <1>3. /\ RequiredString(d.certificate_store_ref, Member(path, "certificate_store_ref")) = {}
        /\ RequiredEnum(d.required_decision, TrustDecision, "invalid_trust_decision",
                        Member(path, "required_decision")) = {}
        /\ RequiredEnum(d.required_decision_reason, TrustDecisionReason, "invalid_trust_reason",
                        Member(path, "required_decision_reason")) = {}
        /\ UniqueEnums(d.accepted_revocation_statuses, RevocationStatus, "invalid_revocation_status",
                       "duplicate_revocation_status", Member(path, "accepted_revocation_statuses")) = {}
        /\ UniqueStrings(d.required_checked_sources, "duplicate_checked_source",
                         Member(path, "required_checked_sources")) = {}
    BY <1>1 DEF TrustRequirementsDiagnostics
  <1>4. /\ d.certificate_store_ref \in Json(Text)
        /\ d.accepted_revocation_statuses \in Json(TextList) /\ d.required_checked_sources \in Json(TextList)
    BY <1>2 DEF RequirementsDocument
  <1>5. StringValue(d.certificate_store_ref) \in Text /\ StringValue(d.certificate_store_ref) # None
    BY <1>3, <1>4, StringFacts
  <1>6. /\ EnumValue(d.required_decision, TrustDecision) \in TrustDecision
        /\ EnumValue(d.required_decision, TrustDecision) # None
    BY <1>3, EnumFacts
  <1>7. /\ EnumValue(d.required_decision_reason, TrustDecisionReason) \in TrustDecisionReason
        /\ EnumValue(d.required_decision_reason, TrustDecisionReason) # None
    BY <1>3, EnumFacts
  <1>8. /\ EnumsValue(d.accepted_revocation_statuses, RevocationStatus) \in SUBSET RevocationStatus
        /\ EnumsValue(d.accepted_revocation_statuses, RevocationStatus) # None
    BY <1>3, <1>4, UniqueEnumsFacts
  <1>9. ArrayValue(d.required_checked_sources) \in SUBSET Text /\ ArrayValue(d.required_checked_sources) # None
    BY <1>3, <1>4, UniqueStringsFacts
  <1>10. whole \in TrustRequirements /\ \A part \in DOMAIN whole : whole[part] # None
    BY <1>5, <1>6, <1>7, <1>8, <1>9 DEF TrustRequirements
  <1>11. TrustRequirementsValue(d) = Complete(whole)
    BY <1>1 DEF TrustRequirementsValue
  <1> HIDE DEF whole
  <1> QED BY <1>10, <1>11, CompleteFacts, AbsenceAssumption

LEMMA TrustFacts ==
  ASSUME NEW d \in Json(TrustDocument), NEW path, TrustSummaryDiagnostics(d, path) = {}
  PROVE  TrustSummaryValue(d) \in TrustSummary /\ TrustSummaryValue(d) # None
  <1> DEFINE whole == [subject_fingerprint |-> FingerprintValue(d.subject_fingerprint),
                 issuer_chain |-> ArrayValue(d.issuer_chain),
                 validation_time_utc |-> EnumValue(d.validation_time_utc, UtcTimestamp),
                 revocation_status |-> EnumValue(d.revocation_status, RevocationStatus),
                 decision |-> EnumValue(d.decision, TrustDecision),
                 decision_reason |-> EnumValue(d.decision_reason, TrustDecisionReason),
                 checked_sources |-> ArrayValue(d.checked_sources)]
  <1>1. d \notin {None, WrongType}
    BY DEF TrustSummaryDiagnostics, Present, Report
  <1>2. d \in TrustDocument
    BY <1>1 DEF Json
  <1>3. /\ RequiredFingerprint(d.subject_fingerprint, Member(path, "subject_fingerprint")) = {}
        /\ RequiredArray(d.issuer_chain, Member(path, "issuer_chain")) = {}
        /\ RequiredEnum(d.validation_time_utc, UtcTimestamp, "invalid_time",
                        Member(path, "validation_time_utc")) = {}
        /\ RequiredEnum(d.revocation_status, RevocationStatus, "invalid_revocation_status",
                        Member(path, "revocation_status")) = {}
        /\ RequiredEnum(d.decision, TrustDecision, "invalid_trust_decision", Member(path, "decision")) = {}
        /\ RequiredEnum(d.decision_reason, TrustDecisionReason, "invalid_trust_reason",
                        Member(path, "decision_reason")) = {}
        /\ UniqueStrings(d.checked_sources, "duplicate_checked_source", Member(path, "checked_sources")) = {}
    BY <1>1 DEF TrustSummaryDiagnostics
  <1>4. d.issuer_chain \in Json(TextList) /\ d.checked_sources \in Json(TextList)
    BY <1>2 DEF TrustDocument
  <1>5. FingerprintValue(d.subject_fingerprint) \in LowerCase(Hex) /\ FingerprintValue(d.subject_fingerprint) # None
    BY <1>3, FingerprintFacts
  <1>6. ArrayValue(d.issuer_chain) \in SUBSET Text /\ ArrayValue(d.issuer_chain) # None
    BY <1>3, <1>4, ListFacts
  <1>7. /\ EnumValue(d.validation_time_utc, UtcTimestamp) \in UtcTimestamp
        /\ EnumValue(d.validation_time_utc, UtcTimestamp) # None
    BY <1>3, EnumFacts
  <1>8. /\ EnumValue(d.revocation_status, RevocationStatus) \in RevocationStatus
        /\ EnumValue(d.revocation_status, RevocationStatus) # None
    BY <1>3, EnumFacts
  <1>9. EnumValue(d.decision, TrustDecision) \in TrustDecision /\ EnumValue(d.decision, TrustDecision) # None
    BY <1>3, EnumFacts
  <1>10. /\ EnumValue(d.decision_reason, TrustDecisionReason) \in TrustDecisionReason
         /\ EnumValue(d.decision_reason, TrustDecisionReason) # None
    BY <1>3, EnumFacts
  <1>11. ArrayValue(d.checked_sources) \in SUBSET Text /\ ArrayValue(d.checked_sources) # None
    BY <1>3, <1>4, UniqueStringsFacts
  <1>12. whole \in TrustSummary /\ \A part \in DOMAIN whole : whole[part] # None
    BY <1>5, <1>6, <1>7, <1>8, <1>9, <1>10, <1>11 DEF TrustSummary
  <1>13. TrustSummaryValue(d) = Complete(whole)
    BY <1>1 DEF TrustSummaryValue
  <1> HIDE DEF whole
  <1> QED BY <1>12, <1>13, CompleteFacts, AbsenceAssumption

LEMMA ContextFacts ==
  ASSUME NEW d \in Json(ContextDocument), NEW path, AuthContextDiagnostics(d, path) = {}
  PROVE  /\ AuthContextValue(d) \in AuthContextSummary /\ AuthContextValue(d) # None
         /\ AuthContextValue(d).mutual_tls = TRUE
  <1> DEFINE whole == [channel_id |-> StringValue(d.channel_id),
                 mutual_tls |-> EnumValue(d.mutual_tls, {TRUE}),
                 local_role |-> EnumValue(d.local_role, PeerRole),
                 peer_trust |-> TrustSummaryValue(d.peer_trust),
                 checked_sources |-> ArrayValue(d.checked_sources)]
  <1>1. d \notin {None, WrongType}
    BY DEF AuthContextDiagnostics, Present, Report
  <1>2. d \in ContextDocument
    BY <1>1 DEF Json
  <1>3. /\ RequiredString(d.channel_id, Member(path, "channel_id")) = {}
        /\ Present(d.mutual_tls, Member(path, "mutual_tls")) = {}
        /\ Report("invalid_channel_binding", Member(path, "mutual_tls"), d.mutual_tls = FALSE) = {}
        /\ RequiredEnum(d.local_role, PeerRole, "invalid_role", Member(path, "local_role")) = {}
        /\ TrustSummaryDiagnostics(d.peer_trust, Member(path, "peer_trust")) = {}
        /\ UniqueStrings(d.checked_sources, "duplicate_checked_source", Member(path, "checked_sources")) = {}
    BY <1>1 DEF AuthContextDiagnostics
  <1>4. /\ d.channel_id \in Json(Text) /\ d.mutual_tls \in Json(BOOLEAN)
        /\ d.peer_trust \in Json(TrustDocument) /\ d.checked_sources \in Json(TextList)
    BY <1>2 DEF ContextDocument
  <1>5. StringValue(d.channel_id) \in Text /\ StringValue(d.channel_id) # None
    BY <1>3, <1>4, StringFacts
  <1>6. d.mutual_tls \notin {None, WrongType} /\ d.mutual_tls # FALSE
    BY <1>3, Zenon DEF Present, Report
  <1>7. d.mutual_tls = TRUE
    BY <1>4, <1>6, Zenon DEF Json
  <1>8. EnumValue(d.mutual_tls, {TRUE}) = TRUE /\ TRUE # None
    BY <1>7, AbsenceAssumption, Zenon DEF EnumValue
  <1>9. EnumValue(d.local_role, PeerRole) \in PeerRole /\ EnumValue(d.local_role, PeerRole) # None
    BY <1>3, EnumFacts
  <1>10. TrustSummaryValue(d.peer_trust) \in TrustSummary /\ TrustSummaryValue(d.peer_trust) # None
    BY <1>3, <1>4, TrustFacts
  <1>11. ArrayValue(d.checked_sources) \in SUBSET Text /\ ArrayValue(d.checked_sources) # None
    BY <1>3, <1>4, UniqueStringsFacts
  <1>12. whole \in AuthContextSummary /\ whole.mutual_tls = TRUE
    BY <1>5, <1>8, <1>9, <1>10, <1>11 DEF AuthContextSummary
  <1>13. \A part \in DOMAIN whole : whole[part] # None
    <2>1. whole.channel_id # None /\ whole.local_role # None /\ whole.peer_trust # None /\ whole.checked_sources # None
      BY <1>5, <1>9, <1>10, <1>11
    <2>2. whole.mutual_tls # None
      BY <1>8, <1>12
    <2>3. DOMAIN whole = {"channel_id", "mutual_tls", "local_role", "peer_trust", "checked_sources"}
      OBVIOUS
    <2> HIDE DEF whole
    <2> QED BY <2>1, <2>2, <2>3
  <1>14. AuthContextValue(d) = Complete(whole)
    BY <1>1 DEF AuthContextValue
  <1> HIDE DEF whole
  <1> QED BY <1>12, <1>13, <1>14, CompleteFacts, AbsenceAssumption

LEMMA PayloadFacts ==
  ASSUME NEW d \in Json(PayloadDocument), NEW path, PayloadDiagnostics(d, path) = {}
  PROVE  PayloadValue(d) \in PayloadContract /\ PayloadValue(d) # None
  <1> DEFINE read == [field \in FieldName |-> IF d.body[field] = WrongType THEN None ELSE d.body[field]]
             whole == [payload_type |-> StringValue(d.payload_type), schema_ref |-> StringValue(d.schema_ref),
                       body |-> IF d.body \in {None, WrongType} THEN None ELSE read]
  <1>1. d \notin {None, WrongType}
    BY DEF PayloadDiagnostics, Present, Report
  <1>2. d \in PayloadDocument
    BY <1>1 DEF Json
  <1>3. /\ RequiredString(d.payload_type, Member(path, "payload_type")) = {}
        /\ RequiredString(d.schema_ref, Member(path, "schema_ref")) = {}
        /\ Present(d.body, Member(path, "body")) = {}
    BY <1>1 DEF PayloadDiagnostics
  <1>4. d.payload_type \in Json(Text) /\ d.schema_ref \in Json(Text) /\ d.body \in Json([FieldName -> Json(Text)])
    BY <1>2 DEF PayloadDocument
  <1>5. /\ StringValue(d.payload_type) \in Text /\ StringValue(d.payload_type) # None
        /\ StringValue(d.schema_ref) \in Text /\ StringValue(d.schema_ref) # None
    BY <1>3, <1>4, StringFacts
  <1>6. d.body \notin {None, WrongType}
    BY <1>3 DEF Present, Report
  <1>7. d.body \in [FieldName -> Json(Text)]
    BY <1>4, <1>6 DEF Json
  <1>8. read \in Body
    BY <1>7 DEF Json, Body
  <1>9. read # None
    BY <1>8, AbsenceAssumption
  <1> HIDE DEF read
  <1>10. whole \in PayloadContract /\ \A part \in DOMAIN whole : whole[part] # None
    BY <1>5, <1>6, <1>8, <1>9 DEF PayloadContract
  <1>11. PayloadValue(d) = Complete(whole)
    BY <1>1 DEF PayloadValue, read
  <1> HIDE DEF whole
  <1> QED BY <1>10, <1>11, CompleteFacts, AbsenceAssumption

LEMMA RuleFacts ==
  ASSUME NEW d \in RuleDocument \cup {WrongType}, NEW path, AclRuleDiagnostics(d, path) = {}
  PROVE  /\ AclRuleValue(d) \in AclRule /\ AclRuleValue(d) # None
         /\ AclRuleValue(d).allowed_api_names # {}
  <1> DEFINE whole == [caller_role |-> EnumValue(d.caller_role, PeerRole),
                       allowed_api_names |-> EnumsValue(d.allowed_api_names, ApiName)]
  <1>1. d # WrongType
    BY AbsenceAssumption DEF AclRuleDiagnostics, Present, Report
  <1>2. d \in RuleDocument
    BY <1>1
  <1>3. /\ RequiredEnum(d.caller_role, PeerRole, "invalid_role", Member(path, "caller_role")) = {}
        /\ UniqueEnums(d.allowed_api_names, ApiName, "invalid_api_name", "duplicate_allowed_api_name",
                       Member(path, "allowed_api_names")) = {}
    BY <1>1 DEF AclRuleDiagnostics
  <1>4. d.allowed_api_names \in Json(TextList)
    BY <1>2 DEF RuleDocument
  <1>5. EnumValue(d.caller_role, PeerRole) \in PeerRole /\ EnumValue(d.caller_role, PeerRole) # None
    BY <1>3, EnumFacts
  <1>6. /\ EnumsValue(d.allowed_api_names, ApiName) \in SUBSET ApiName
        /\ EnumsValue(d.allowed_api_names, ApiName) # None /\ EnumsValue(d.allowed_api_names, ApiName) # {}
    BY <1>3, <1>4, UniqueEnumsFacts
  <1>7. whole \in AclRule /\ whole.allowed_api_names # {} /\ \A part \in DOMAIN whole : whole[part] # None
    BY <1>5, <1>6 DEF AclRule
  <1>8. AclRuleValue(d) = Complete(whole)
    BY <1>1 DEF AclRuleValue
  <1> HIDE DEF whole
  <1> QED BY <1>7, <1>8, CompleteFacts, AbsenceAssumption

-----------------------------------------------------------------------------
(* The list of rules. Its rules are sorted when they have been read, so the *)
(* rule a diagnostic is about is not that of the document; but a list       *)
(* without a report has one rule.                                           *)

LEMMA RulesFacts ==
  ASSUME NEW d \in Json(Seq(RuleDocument \cup {WrongType})), NEW path, AclDiagnostics(d, path) = {}
  PROVE  /\ d \in Seq(RuleDocument \cup {WrongType}) /\ d \notin {None, WrongType}
         /\ \A i \in DOMAIN d : /\ AclRuleValue(d[i]) \in AclRule /\ AclRuleValue(d[i]) # None
                                /\ AclRuleValue(d[i]).allowed_api_names # {}
         /\ \A i, j \in DOMAIN d : j < i => AclRuleValue(d[j]).caller_role # AclRuleValue(d[i]).caller_role
         /\ Len(d) \in {1, 2}
  <1> DEFINE read == {i \in DOMAIN d : AclRuleValue(d[i]) # None}
             again == {i \in read : \E j \in read : j < i /\ AclRuleValue(d[j]).caller_role = AclRuleValue(d[i]).caller_role}
  <1>1. d \notin {None, WrongType}
    BY DEF AclDiagnostics, Present, Report
  <1>2. d \in Seq(RuleDocument \cup {WrongType})
    BY <1>1 DEF Json
  <1>3. /\ UNION {AclRuleDiagnostics(d[i], Item(path, i)) : i \in DOMAIN d} = {}
        /\ UNION {Report("invalid_acl_binding", Member(Item(path, i), "caller_role"), TRUE) : i \in again} = {}
        /\ Report("invalid_acl_binding", path, read = {}) = {}
    BY <1>1 DEF AclDiagnostics
  <1>4. ASSUME NEW i \in DOMAIN d
        PROVE  /\ AclRuleValue(d[i]) \in AclRule /\ AclRuleValue(d[i]) # None
               /\ AclRuleValue(d[i]).allowed_api_names # {}
    <2>1. AclRuleDiagnostics(d[i], Item(path, i)) = {}
      BY <1>3
    <2>2. d[i] \in RuleDocument \cup {WrongType}
      BY <1>2
    <2> QED BY <2>1, <2>2, RuleFacts
  <1>5. read = DOMAIN d
    BY <1>4
  <1>6. again = {}
    <2> SUFFICES ASSUME NEW i \in again PROVE FALSE
      OBVIOUS
    <2>1. Report("invalid_acl_binding", Member(Item(path, i), "caller_role"), TRUE) = {}
      BY <1>3
    <2> QED BY <2>1 DEF Report
  <1>7. read # {}
    BY <1>3 DEF Report
  <1>8. \A i, j \in DOMAIN d : j < i => AclRuleValue(d[j]).caller_role # AclRuleValue(d[i]).caller_role
    BY <1>5, <1>6
  <1>9. \A i \in DOMAIN d : AclRuleValue(d[i]).caller_role \in {"pi_zymkey", "ubuntu_tpm"}
    BY <1>4 DEF AclRule, PeerRole
  <1>10. Len(d) \in Nat /\ DOMAIN d = 1..Len(d)
    BY <1>2
  <1>11. Len(d) # 0
    BY <1>5, <1>7, <1>10
  <1>12. ~(Len(d) > 2)
    <2> SUFFICES ASSUME Len(d) > 2 PROVE FALSE
      OBVIOUS
    <2>1. 1 \in DOMAIN d /\ 2 \in DOMAIN d /\ 3 \in DOMAIN d
      BY <1>10
    <2> QED BY <2>1, <1>8, <1>9
  <1> QED BY <1>1, <1>2, <1>4, <1>8, <1>10, <1>11, <1>12

LEMMA OneRule ==
  ASSUME NEW d \in Json(Seq(RuleDocument \cup {WrongType})), NEW path, AclDiagnostics(d, path) = {}, Len(d) = 1
  PROVE  AclRules(d) = [n \in 1..1 |-> AclRuleValue(d[1])]
  <1> DEFINE read == {i \in DOMAIN d : AclRuleValue(d[i]) # None}
             Role(i) == AclRuleValue(d[i]).caller_role
             Before(i, j) == \/ Role(i) = "pi_zymkey" /\ Role(j) = "ubuntu_tpm"
                             \/ Role(i) = Role(j) /\ i < j
             place(i) == Cardinality({i} \cup {j \in read : Before(j, i)})
  <1>1. read = {1}
    BY RulesFacts
  <1>2. Cardinality(read) = 1
    BY <1>1, FS_Singleton
  <1>3. {1} \cup {j \in read : Before(j, 1)} = {1}
    BY <1>1
  <1>4. place(1) = 1
    BY <1>3, FS_Singleton
  <1>5. AclRules(d) = [n \in 1..Cardinality(read) |-> AclRuleValue(d[CHOOSE i \in read : place(i) = n])]
    BY DEF AclRules
  <1> HIDE DEF read, place
  <1>6. (CHOOSE i \in read : place(i) = 1) = 1
    BY <1>1, <1>4
  <1>7. \A n \in 1..1 : AclRuleValue(d[CHOOSE i \in read : place(i) = n]) = AclRuleValue(d[1])
    <2>1. \A n \in 1..1 : n = 1
      OBVIOUS
    <2> QED BY <2>1, <1>6
  <1> QED BY <1>2, <1>5, <1>7

LEMMA PairSize == Cardinality({1, 2}) = 2
  <1>1. {1, 2} = {1} \cup {2} /\ 2 \notin {1}
    OBVIOUS
  <1>2. IsFiniteSet({1}) /\ Cardinality({1}) = 1
    BY FS_Singleton
  <1>3. Cardinality({1} \cup {2}) = Cardinality({1}) + 1
    BY <1>1, <1>2, FS_AddElement
  <1>4. 1 + 1 = 2
    OBVIOUS
  <1> QED BY <1>1, <1>2, <1>3, <1>4

LEMMA TwoRules ==
  ASSUME NEW d \in Json(Seq(RuleDocument \cup {WrongType})), NEW path, AclDiagnostics(d, path) = {}, Len(d) = 2
  PROVE  AclRules(d) \in [1..2 -> AclRule] /\ AclRules(d)[1].caller_role = "pi_zymkey"
  <1> DEFINE read == {i \in DOMAIN d : AclRuleValue(d[i]) # None}
             Role(i) == AclRuleValue(d[i]).caller_role
             Before(i, j) == \/ Role(i) = "pi_zymkey" /\ Role(j) = "ubuntu_tpm"
                             \/ Role(i) = Role(j) /\ i < j
             place(i) == Cardinality({i} \cup {j \in read : Before(j, i)})
  <1>1. read = {1, 2} /\ DOMAIN d = {1, 2}
    BY RulesFacts
  <1>2. Role(1) # Role(2) /\ {Role(1), Role(2)} \subseteq {"pi_zymkey", "ubuntu_tpm"}
    <2>1. AclRuleValue(d[1]) \in AclRule /\ AclRuleValue(d[2]) \in AclRule
      BY <1>1, RulesFacts
    <2>2. \A i, j \in DOMAIN d : j < i => Role(j) # Role(i)
      BY RulesFacts
    <2>3. Role(1) # Role(2)
      <3>1. 1 \in DOMAIN d /\ 2 \in DOMAIN d /\ 1 < 2
        BY <1>1
      <3> HIDE DEF Role
      <3> QED BY <2>2, <3>1
    <2> QED BY <2>1, <2>3 DEF AclRule, PeerRole
  <1>3. PICK first \in {1, 2}, second \in {1, 2} :
          first # second /\ Role(first) = "pi_zymkey" /\ Role(second) = "ubuntu_tpm"
    BY <1>2
  <1>4. Cardinality(read) = 2
    BY <1>1, PairSize
  <1>5. {first} \cup {j \in read : Before(j, first)} = {first}
    BY <1>1, <1>3
  <1>6. {second} \cup {j \in read : Before(j, second)} = {1, 2}
    BY <1>1, <1>3
  <1>7. place(first) = 1 /\ place(second) = 2
    BY <1>5, <1>6, <1>1, <1>4, FS_Singleton
  <1>8. AclRules(d) = [n \in 1..Cardinality(read) |-> AclRuleValue(d[CHOOSE i \in read : place(i) = n])]
    BY DEF AclRules
  <1> HIDE DEF read, place
  <1> DEFINE chosen(n) == CHOOSE i \in read : place(i) = n
  <1>9. chosen(1) = first /\ chosen(2) = second
    BY <1>1, <1>3, <1>7
  <1>10. AclRuleValue(d[first]) \in AclRule /\ AclRuleValue(d[second]) \in AclRule
    BY <1>1, RulesFacts DEF read
  <1>11. \A n \in 1..2 : AclRuleValue(d[chosen(n)]) \in AclRule
    <2>1. \A n \in 1..2 : n = 1 \/ n = 2
      OBVIOUS
    <2> HIDE DEF chosen
    <2> QED BY <2>1, <1>9, <1>10
  <1>12. AclRules(d) = [n \in 1..2 |-> AclRuleValue(d[chosen(n)])]
    BY <1>4, <1>8
  <1> HIDE DEF chosen
  <1>13. AclRules(d)[1] = AclRuleValue(d[first])
    BY <1>9, <1>12
  <1> QED BY <1>3, <1>11, <1>12, <1>13

LEMMA AclFacts ==
  ASSUME NEW d \in Json(Seq(RuleDocument \cup {WrongType})), NEW path, AclDiagnostics(d, path) = {},
         AclBindingDiagnostics(AclValue(d), "ubuntu_tpm") = {}, "ubuntu_tpm" # None
  PROVE  /\ AclValue(d) \in Seq(AclRule) /\ AclValue(d) # None /\ Len(AclValue(d)) = 1 /\ Len(d) = 1
         /\ AclValue(d)[1].caller_role = "ubuntu_tpm" /\ AclValue(d)[1].allowed_api_names # {}
  <1> DEFINE rules == AclValue(d)
             foreign == {i \in DOMAIN rules : rules[i].caller_role # "ubuntu_tpm"}
  <1>a. /\ d \in Seq(RuleDocument \cup {WrongType}) /\ d \notin {None, WrongType}
        /\ \A i \in DOMAIN d : /\ AclRuleValue(d[i]) \in AclRule /\ AclRuleValue(d[i]) # None
                               /\ AclRuleValue(d[i]).allowed_api_names # {}
        /\ \A i, j \in DOMAIN d : j < i => AclRuleValue(d[j]).caller_role # AclRuleValue(d[i]).caller_role
        /\ Len(d) \in {1, 2}
    BY RulesFacts
  <1>1. AclRules(d) # <<>> => rules = AclRules(d)
    BY <1>a DEF AclValue
  <1>2. AclRules(d) \in Seq(AclRule) /\ DOMAIN AclRules(d) = 1..Len(d)
    <2>1. CASE Len(d) = 1
      <3>1. AclRuleValue(d[1]) \in AclRule
        BY <1>a, <2>1
      <3>2. AclRules(d) = [n \in 1..1 |-> AclRuleValue(d[1])]
        BY <2>1, OneRule
      <3> QED BY <2>1, <3>1, <3>2
    <2>2. CASE Len(d) = 2
      <3>1. AclRules(d) \in [1..2 -> AclRule]
        BY <2>2, TwoRules
      <3>2. 1..2 = 1..Len(d) /\ 2 \in Nat
        BY <2>2
      <3>3. AclRules(d) \in [1..Len(d) -> AclRule] /\ Len(d) \in Nat
        BY <3>1, <3>2, <2>2
      <3> HIDE DEF rules
      <3> QED BY <3>3
    <2> QED BY <2>1, <2>2, <1>a
  <1>3. AclRules(d) # <<>>
    BY <1>a, <1>2
  <1>4. rules = AclRules(d) /\ rules # None
    BY <1>1, <1>2, <1>3, AbsenceAssumption
  <1>5. foreign = {}
    <2>1. UNION {Report("invalid_acl_binding", Member(Item(Path("acl"), i), "caller_role"), TRUE) : i \in foreign} = {}
      <3>1. AclValue(d) # None /\ "ubuntu_tpm" # None
        BY <1>4
      <3>2. AclBindingDiagnostics(rules, "ubuntu_tpm") = {}
        OBVIOUS
      <3> QED BY <3>1, <3>2 DEF AclBindingDiagnostics
    <2> SUFFICES ASSUME NEW i \in foreign PROVE FALSE
      OBVIOUS
    <2>2. Report("invalid_acl_binding", Member(Item(Path("acl"), i), "caller_role"), TRUE) = {}
      BY <2>1
    <2> QED BY <2>2 DEF Report
  <1>6. Len(d) = 1
    <2>1. ASSUME Len(d) = 2 PROVE FALSE
      <3>1. AclRules(d)[1].caller_role = "pi_zymkey"
        BY <2>1, TwoRules
      <3>2. rules[1].caller_role = "pi_zymkey" /\ 1 \in DOMAIN rules
        BY <2>1, <3>1, <1>2, <1>4
      <3> QED BY <3>2, <1>5
    <2> QED BY <1>a, <2>1
  <1>7. rules = [n \in 1..1 |-> AclRuleValue(d[1])] /\ 1 \in DOMAIN d
    <2>1. AclRules(d) = [n \in 1..1 |-> AclRuleValue(d[1])]
      BY <1>6, OneRule
    <2>2. 1 \in DOMAIN d
      BY <1>a, <1>6
    <2> HIDE DEF rules
    <2> QED BY <1>4, <2>1, <2>2
  <1>8. rules[1].allowed_api_names # {}
    BY <1>a, <1>7
  <1>9. rules[1].caller_role = "ubuntu_tpm"
    BY <1>5, <1>7
  <1> QED BY <1>2, <1>4, <1>6, <1>7, <1>8, <1>9

-----------------------------------------------------------------------------
(* Documents without a report *)

LEMMA MismatchFacts ==
  ASSUME NEW holder, NEW role, NEW path, RoleMismatch(holder, role, path) = {}, holder # None, role # None
  PROVE  holder.role = role
  BY DEF RoleMismatch, Report

LEMMA ContractFacts ==
  ASSUME NEW d \in Json(ContractDocument), ContractDiagnostics(d) = {}
  PROVE  /\ ContractValue(d) \in SecureChannelContract /\ ContractValue(d) # None
         /\ ContractValue(d).server_role = "pi_zymkey" /\ ContractValue(d).server_identity.role = "pi_zymkey"
         /\ ContractValue(d).client_role = "ubuntu_tpm" /\ ContractValue(d).client_identity.role = "ubuntu_tpm"
         /\ Len(ContractValue(d).acl) = 1 /\ Len(d.acl) = 1
         /\ ContractValue(d).acl[1].caller_role = "ubuntu_tpm"
         /\ ContractValue(d).acl[1].allowed_api_names # {}
  <1> DEFINE server == EnumValue(d.server_role, PeerRole)
             client == EnumValue(d.client_role, PeerRole)
             whole == [channel_id |-> StringValue(d.channel_id), tls_profile |-> StringValue(d.tls_profile),
                       server_role |-> server, client_role |-> client,
                       trust_requirements |-> TrustRequirementsValue(d.trust_requirements),
                       server_identity |-> PeerIdentityValue(d.server_identity),
                       client_identity |-> PeerIdentityValue(d.client_identity), acl |-> AclValue(d.acl)]
  <1>1. d \notin {None, WrongType}
    BY DEF ContractDiagnostics, Unreadable, Report
  <1>2. d \in ContractDocument
    BY <1>1 DEF Json
  <1>3. /\ RequiredString(d.channel_id, Path("channel_id")) = {}
        /\ RequiredEnum(d.server_role, PeerRole, "invalid_role", Path("server_role")) = {}
        /\ RequiredEnum(d.client_role, PeerRole, "invalid_role", Path("client_role")) = {}
        /\ RequiredString(d.tls_profile, Path("tls_profile")) = {}
        /\ TrustRequirementsDiagnostics(d.trust_requirements, Path("trust_requirements")) = {}
        /\ PeerIdentityDiagnostics(d.server_identity, Path("server_identity")) = {}
        /\ PeerIdentityDiagnostics(d.client_identity, Path("client_identity")) = {}
        /\ AclDiagnostics(d.acl, Path("acl")) = {}
    BY <1>1 DEF ContractDiagnostics
  <1>4. /\ Report("invalid_server_role", Path("server_role"), server = "ubuntu_tpm") = {}
        /\ Report("invalid_client_role", Path("client_role"), client = "pi_zymkey") = {}
        /\ RoleMismatch(PeerIdentityValue(d.server_identity), server, Member(Path("server_identity"), "role")) = {}
        /\ RoleMismatch(PeerIdentityValue(d.client_identity), client, Member(Path("client_identity"), "role")) = {}
        /\ AclBindingDiagnostics(AclValue(d.acl), client) = {}
    BY <1>1 DEF ContractDiagnostics
  <1>5. /\ d.channel_id \in Json(Text) /\ d.tls_profile \in Json(Text)
        /\ d.trust_requirements \in Json(RequirementsDocument)
        /\ d.server_identity \in Json(IdentityDocument) /\ d.client_identity \in Json(IdentityDocument)
        /\ d.acl \in Json(Seq(RuleDocument \cup {WrongType}))
    BY <1>2 DEF ContractDocument
  <1>6. /\ StringValue(d.channel_id) \in Text /\ StringValue(d.channel_id) # None
        /\ StringValue(d.tls_profile) \in Text /\ StringValue(d.tls_profile) # None
    BY <1>3, <1>5, StringFacts
  <1>7. server = "pi_zymkey" /\ server # None
    <2>1. server \in PeerRole /\ server # None
      BY <1>3, EnumFacts
    <2>2. server # "ubuntu_tpm"
      BY <1>4 DEF Report
    <2> QED BY <2>1, <2>2 DEF PeerRole
  <1>8. client = "ubuntu_tpm" /\ client # None
    <2>1. client \in PeerRole /\ client # None
      BY <1>3, EnumFacts
    <2>2. client # "pi_zymkey"
      BY <1>4 DEF Report
    <2> QED BY <2>1, <2>2 DEF PeerRole
  <1>9. /\ TrustRequirementsValue(d.trust_requirements) \in TrustRequirements
        /\ TrustRequirementsValue(d.trust_requirements) # None
    BY <1>3, <1>5, RequirementsFacts
  <1>10. /\ PeerIdentityValue(d.server_identity) \in PeerIdentity /\ PeerIdentityValue(d.server_identity) # None
         /\ PeerIdentityValue(d.client_identity) \in PeerIdentity /\ PeerIdentityValue(d.client_identity) # None
    BY <1>3, <1>5, IdentityFacts
  <1> HIDE DEF server, client
  <1>11. /\ PeerIdentityValue(d.server_identity).role = "pi_zymkey"
         /\ PeerIdentityValue(d.client_identity).role = "ubuntu_tpm"
    <2>1. PeerIdentityValue(d.server_identity).role = server
      BY <1>4, <1>7, <1>10, MismatchFacts
    <2>2. PeerIdentityValue(d.client_identity).role = client
      BY <1>4, <1>8, <1>10, MismatchFacts
    <2> QED BY <1>7, <1>8, <2>1, <2>2
  <1>12. /\ AclValue(d.acl) \in Seq(AclRule) /\ AclValue(d.acl) # None
         /\ Len(AclValue(d.acl)) = 1 /\ Len(d.acl) = 1
         /\ AclValue(d.acl)[1].caller_role = "ubuntu_tpm" /\ AclValue(d.acl)[1].allowed_api_names # {}
    <2>1. AclBindingDiagnostics(AclValue(d.acl), "ubuntu_tpm") = {} /\ "ubuntu_tpm" # None
      BY <1>4, <1>8
    <2> QED BY <1>3, <1>5, <2>1, AclFacts
  <1>13. whole \in SecureChannelContract /\ \A part \in DOMAIN whole : whole[part] # None
    BY <1>6, <1>7, <1>8, <1>9, <1>10, <1>12 DEF SecureChannelContract, PeerRole
  <1>14. ContractValue(d) = Complete(whole)
    BY DEF ContractValue, server, client
  <1>15. ContractValue(d) = whole
    <2> HIDE DEF whole
    <2> QED BY <1>13, <1>14, CompleteFacts
  <1>16. whole # None
    <2> HIDE DEF whole
    <2> QED BY <1>13, AbsenceAssumption
  <1> QED BY <1>7, <1>8, <1>11, <1>12, <1>13, <1>15, <1>16

LEMMA ModuleFacts ==
  ASSUME NEW d \in Json(ModuleDocument), ModuleDiagnostics(d) = {}
  PROVE  /\ ModuleValue(d) \in SecurityModuleContract /\ ModuleValue(d) # None
         /\ ModuleValue(d).module_role = "pi_zymkey" /\ ModuleValue(d).server_identity.role = "pi_zymkey"
         /\ \A ref \in DOMAIN BaselineRefs : ModuleValue(d)[ref] = BaselineRefs[ref]
  <1> DEFINE role == EnumValue(d.module_role, PeerRole)
             whole == [module_id |-> StringValue(d.module_id), module_role |-> role,
                       secure_channel_id |-> StringValue(d.secure_channel_id),
                       request_envelope_ref |-> StringValue(d.request_envelope_ref),
                       response_envelope_ref |-> StringValue(d.response_envelope_ref),
                       supported_api_names |-> EnumsValue(d.supported_api_names, ApiName),
                       server_identity |-> PeerIdentityValue(d.server_identity)]
  <1>1. d \notin {None, WrongType}
    BY DEF ModuleDiagnostics, Unreadable, Report
  <1>2. d \in ModuleDocument
    BY <1>1 DEF Json
  <1>3. /\ RequiredString(d.module_id, Path("module_id")) = {}
        /\ RequiredEnum(d.module_role, PeerRole, "invalid_role", Path("module_role")) = {}
        /\ RequiredEnum(d.secure_channel_id, {BaselineRefs.secure_channel_id},
                        "invalid_secure_channel_ref", Path("secure_channel_id")) = {}
        /\ RequiredEnum(d.request_envelope_ref, {BaselineRefs.request_envelope_ref},
                        "invalid_request_envelope_ref", Path("request_envelope_ref")) = {}
        /\ RequiredEnum(d.response_envelope_ref, {BaselineRefs.response_envelope_ref},
                        "invalid_response_envelope_ref", Path("response_envelope_ref")) = {}
        /\ UniqueEnums(d.supported_api_names, ApiName, "invalid_api_name",
                       "duplicate_supported_api_name", Path("supported_api_names")) = {}
        /\ PeerIdentityDiagnostics(d.server_identity, Path("server_identity")) = {}
        /\ Report("invalid_server_role", Path("module_role"), role = "ubuntu_tpm") = {}
        /\ RoleMismatch(PeerIdentityValue(d.server_identity), role, Member(Path("server_identity"), "role")) = {}
    BY <1>1 DEF ModuleDiagnostics
  <1>4. /\ d.module_id \in Json(Text) /\ d.supported_api_names \in Json(TextList)
        /\ d.server_identity \in Json(IdentityDocument)
        /\ d.secure_channel_id \in Json(Text) /\ d.request_envelope_ref \in Json(Text)
        /\ d.response_envelope_ref \in Json(Text)
    BY <1>2 DEF ModuleDocument
  <1>5. StringValue(d.module_id) \in Text /\ StringValue(d.module_id) # None
    BY <1>3, <1>4, StringFacts
  <1>6. role = "pi_zymkey" /\ role # None
    <2>1. role \in PeerRole /\ role # None
      BY <1>3, EnumFacts
    <2>2. role # "ubuntu_tpm"
      BY <1>3 DEF Report
    <2> QED BY <2>1, <2>2 DEF PeerRole
  <1>7. /\ d.secure_channel_id = BaselineRefs.secure_channel_id
        /\ d.secure_channel_id \notin {None, WrongType, Empty}
    BY <1>3, EnumFacts
  <1>8. /\ d.request_envelope_ref = BaselineRefs.request_envelope_ref
        /\ d.request_envelope_ref \notin {None, WrongType, Empty}
    BY <1>3, EnumFacts
  <1>9. /\ d.response_envelope_ref = BaselineRefs.response_envelope_ref
        /\ d.response_envelope_ref \notin {None, WrongType, Empty}
    BY <1>3, EnumFacts
  <1>10. /\ StringValue(d.secure_channel_id) = BaselineRefs.secure_channel_id
         /\ StringValue(d.secure_channel_id) \in Text /\ StringValue(d.secure_channel_id) # None
         /\ StringValue(d.request_envelope_ref) = BaselineRefs.request_envelope_ref
         /\ StringValue(d.request_envelope_ref) \in Text /\ StringValue(d.request_envelope_ref) # None
         /\ StringValue(d.response_envelope_ref) = BaselineRefs.response_envelope_ref
         /\ StringValue(d.response_envelope_ref) \in Text /\ StringValue(d.response_envelope_ref) # None
    BY <1>4, <1>7, <1>8, <1>9 DEF StringValue, Json
  <1>11. /\ EnumsValue(d.supported_api_names, ApiName) \in SUBSET ApiName
         /\ EnumsValue(d.supported_api_names, ApiName) # None
    BY <1>3, <1>4, UniqueEnumsFacts
  <1>12. PeerIdentityValue(d.server_identity) \in PeerIdentity /\ PeerIdentityValue(d.server_identity) # None
    BY <1>3, <1>4, IdentityFacts
  <1> HIDE DEF role
  <1>13. PeerIdentityValue(d.server_identity).role = "pi_zymkey"
    BY <1>3, <1>6, <1>12, MismatchFacts
  <1>14. whole \in SecurityModuleContract /\ \A part \in DOMAIN whole : whole[part] # None
    BY <1>5, <1>6, <1>10, <1>11, <1>12 DEF SecurityModuleContract, PeerRole
  <1>15. ModuleValue(d) = Complete(whole)
    BY DEF ModuleValue, role
  <1>16. ModuleValue(d) = whole
    <2> HIDE DEF whole
    <2> QED BY <1>14, <1>15, CompleteFacts
  <1>17. whole # None
    <2> HIDE DEF whole
    <2> QED BY <1>14, AbsenceAssumption
  <1>18. \A ref \in DOMAIN BaselineRefs : whole[ref] = BaselineRefs[ref]
    BY <1>10 DEF BaselineRefs
  <1> QED BY <1>6, <1>13, <1>14, <1>16, <1>17, <1>18

-----------------------------------------------------------------------------
(* Payloads: putting fields in lower case twice is the same as doing it     *)
(* once, and does not make a field appear or go.                            *)

LEMMA ValidatedTwice ==
  ASSUME NEW family, NEW body \in Body
  PROVE  /\ ValidatedBody(family, body) \in Body
         /\ Fields(ValidatedBody(family, body)) = Fields(body)
         /\ ValidatedBody(family, ValidatedBody(family, body)) = ValidatedBody(family, body)
  <1> DEFINE lowered == LoweredFields \cap AllowedFields(family) \cap Fields(body)
             once == ValidatedBody(family, body)
  <1>1. once = [field \in FieldName |-> IF field \in lowered THEN LowerCopy[body[field]] ELSE body[field]]
    BY DEF ValidatedBody
  <1>2. \A field \in FieldName : body[field] # None => body[field] \in Text
    BY DEF Body
  <1>3. \A field \in lowered : field \in FieldName /\ body[field] # None
    BY DEF Fields
  <1> HIDE DEF lowered, once
  <1>4. ASSUME NEW field \in FieldName
        PROVE  /\ once[field] \in Text \cup {None}
               /\ once[field] # None <=> body[field] # None
               /\ field \in lowered => LowerCopy[once[field]] = once[field]
    <2>1. CASE field \in lowered
      <3>1. once[field] = LowerCopy[body[field]] /\ body[field] \in Text /\ body[field] # None
        BY <1>1, <1>2, <1>3, <2>1
      <3> QED BY <2>1, <3>1, TextAssumption
    <2>2. CASE field \notin lowered
      <3>1. once[field] = body[field]
        BY <1>1, <2>2
      <3> QED BY <1>2, <2>2, <3>1
    <2> QED BY <2>1, <2>2
  <1>5. once \in Body
    <2>1. once = [field \in FieldName |-> once[field]]
      BY <1>1
    <2> QED BY <1>4, <2>1 DEF Body
  <1>6. Fields(once) = Fields(body)
    BY <1>4 DEF Fields
  <1>7. ValidatedBody(family, once) = once
    <2>1. ValidatedBody(family, once) =
            [field \in FieldName |-> IF field \in lowered THEN LowerCopy[once[field]] ELSE once[field]]
      BY <1>6 DEF ValidatedBody, lowered
    <2>2. once = [field \in FieldName |-> once[field]]
      BY <1>1
    <2> QED BY <1>4, <2>1, <2>2
  <1> QED BY <1>5, <1>6, <1>7 DEF once

LEMMA BodyTwice ==
  ASSUME NEW family, NEW body \in Body, NEW path
  PROVE  BodyDiagnostics(family, ValidatedBody(family, body), path) = BodyDiagnostics(family, body, path)
  BY ValidatedTwice DEF BodyDiagnostics

LEMMA RequestPayloadTwice ==
  ASSUME NEW api \in ApiName, NEW payload \in PayloadContract, NEW path,
         RequestPayloadDiagnostics(api, payload, path) = {}
  PROVE  /\ Normalized(payload) \in PayloadContract
         /\ RequestPayloadDiagnostics(api, Normalized(payload), path) = {}
  <1> DEFINE family == RequestFamilyOf[api]
             once == [payload EXCEPT !.body = ValidatedBody(family, payload.body)]
  <1>1. payload.payload_type = family
    BY DEF RequestPayloadDiagnostics, Report
  <1>2. payload.schema_ref = SchemaRefFor[family]
    BY <1>1 DEF RequestPayloadDiagnostics, Report
  <1>3. BodyDiagnostics(family, payload.body, path) = {}
    BY <1>1, <1>2 DEF RequestPayloadDiagnostics
  <1>4. family \in RequestFamily
    BY DEF RequestFamily
  <1>5. payload.body \in Body
    BY DEF PayloadContract
  <1>6. payload # None
    BY AbsenceAssumption
  <1> HIDE DEF family
  <1>7. Normalized(payload) = once
    BY <1>1, <1>4, <1>6 DEF Normalized
  <1>8. ValidatedBody(family, payload.body) \in Body
    BY <1>5, ValidatedTwice
  <1>9. /\ once \in PayloadContract /\ once.payload_type = family /\ once.schema_ref = SchemaRefFor[family]
        /\ once.body = ValidatedBody(family, payload.body)
    BY <1>1, <1>2, <1>8 DEF PayloadContract
  <1> HIDE DEF once
  <1>10. BodyDiagnostics(family, once.body, path) = {}
    BY <1>3, <1>5, <1>9, BodyTwice
  <1>11. RequestPayloadDiagnostics(api, once, path) = {}
    BY <1>9, <1>10 DEF RequestPayloadDiagnostics, family
  <1> QED BY <1>7, <1>9, <1>11

LEMMA ResponsePayloadTwice ==
  ASSUME NEW payload \in PayloadContract, NEW path,
         ResponsePayloadDiagnostics(payload, None, path) = {}
  PROVE  /\ Normalized(payload) \in PayloadContract
         /\ Normalized(payload).payload_type \in ResponseFamily
         /\ Normalized(payload).schema_ref = SchemaRefFor[Normalized(payload).payload_type]
         /\ BodyDiagnostics(Normalized(payload).payload_type, Normalized(payload).body, path) = {}
  <1> DEFINE family == payload.payload_type
             once == [payload EXCEPT !.body = ValidatedBody(family, payload.body)]
  <1>1. family \in ResponseFamily
    BY DEF ResponsePayloadDiagnostics, Report
  <1>2. payload.schema_ref = SchemaRefFor[family]
    BY <1>1 DEF ResponsePayloadDiagnostics, Report
  <1>3. BodyDiagnostics(family, payload.body, path) = {}
    BY <1>1, <1>2 DEF ResponsePayloadDiagnostics
  <1>4. payload.body \in Body
    BY DEF PayloadContract
  <1>5. payload # None
    BY AbsenceAssumption
  <1>6. Normalized(payload) = once
    BY <1>1, <1>5 DEF Normalized
  <1>7. ValidatedBody(family, payload.body) \in Body
    BY <1>4, ValidatedTwice
  <1>8. /\ once \in PayloadContract /\ once.payload_type = family /\ once.schema_ref = SchemaRefFor[family]
        /\ once.body = ValidatedBody(family, payload.body)
    BY <1>2, <1>7 DEF PayloadContract
  <1> HIDE DEF once
  <1>9. BodyDiagnostics(family, once.body, path) = {}
    BY <1>3, <1>4, <1>8, BodyTwice
  <1> QED BY <1>1, <1>6, <1>8, <1>9

LEMMA IdentifierFacts ==
  ASSUME NEW v, NEW code, NEW path, RequiredEnum(v, Uuid, code, path) = {}
  PROVE  IdentifierValue(v) \in LowerCase(Uuid) /\ IdentifierValue(v) # None
  <1>1. v \in Uuid
    BY EnumFacts
  <1> QED BY <1>1, TextAssumption DEF IdentifierValue, LowerCase

LEMMA RequestFacts ==
  ASSUME NEW d \in Json(RequestDocument), RequestDiagnostics(d) = {}
  PROVE  /\ RequestValue(d) \in ProtectedRequestEnvelope /\ RequestValue(d) # None
         /\ RequestValue(d).auth_context.mutual_tls = TRUE
         /\ RequestValue(d).auth_context.local_role = "pi_zymkey"
         /\ RequestValue(d).caller_identity.role = RequestValue(d).caller_role
         /\ RequestValue(d).caller_identity.certificate_fingerprint
              = RequestValue(d).auth_context.peer_trust.subject_fingerprint
         /\ RequestPayloadDiagnostics(RequestValue(d).api_name, RequestValue(d).payload, Path("payload")) = {}
  <1> DEFINE api == EnumValue(d.api_name, ApiName)
             role == EnumValue(d.caller_role, PeerRole)
             caller == PeerIdentityValue(d.caller_identity)
             context == AuthContextValue(d.auth_context)
             raw == PayloadValue(d.payload)
             whole == [request_id |-> IdentifierValue(d.request_id), api_name |-> api, caller_role |-> role,
                       caller_identity |-> caller, auth_context |-> context, payload |-> Normalized(raw)]
             Of(name) == Member(Path("auth_context"), name)
  <1>1. d \notin {None, WrongType}
    BY DEF RequestDiagnostics, Unreadable, Report
  <1>2. d \in RequestDocument
    BY <1>1 DEF Json
  <1>3. /\ RequiredEnum(d.request_id, Uuid, "invalid_request_id", Path("request_id")) = {}
        /\ RequiredEnum(d.api_name, ApiName, "invalid_api_name", Path("api_name")) = {}
        /\ RequiredEnum(d.caller_role, PeerRole, "invalid_role", Path("caller_role")) = {}
        /\ PeerIdentityDiagnostics(d.caller_identity, Path("caller_identity")) = {}
        /\ AuthContextDiagnostics(d.auth_context, Path("auth_context")) = {}
        /\ PayloadDiagnostics(d.payload, Path("payload")) = {}
    BY <1>1 DEF RequestDiagnostics
  <1>4. /\ RoleMismatch(caller, role, Member(Path("caller_identity"), "role")) = {}
        /\ Report("role_mismatch", Of("local_role"), context # None /\ context.local_role # "pi_zymkey") = {}
        /\ Report("missing_trust_binding", Member(Of("peer_trust"), "subject_fingerprint"),
                  /\ caller # None /\ context # None
                  /\ caller.certificate_fingerprint # context.peer_trust.subject_fingerprint) = {}
        /\ (IF raw = None \/ api = None THEN {} ELSE RequestPayloadDiagnostics(api, raw, Path("payload"))) = {}
    BY <1>1 DEF RequestDiagnostics
  <1>5. /\ d.caller_identity \in Json(IdentityDocument) /\ d.auth_context \in Json(ContextDocument)
        /\ d.payload \in Json(PayloadDocument)
    BY <1>2 DEF RequestDocument
  <1>6. IdentifierValue(d.request_id) \in LowerCase(Uuid) /\ IdentifierValue(d.request_id) # None
    BY <1>3, IdentifierFacts
  <1>7. api \in ApiName /\ api # None
    BY <1>3, EnumFacts
  <1>8. role \in PeerRole /\ role # None
    BY <1>3, EnumFacts
  <1>9. caller \in PeerIdentity /\ caller # None
    BY <1>3, <1>5, IdentityFacts
  <1>10. context \in AuthContextSummary /\ context # None /\ context.mutual_tls = TRUE
    BY <1>3, <1>5, ContextFacts
  <1>11. raw \in PayloadContract /\ raw # None
    BY <1>3, <1>5, PayloadFacts
  <1>12. RequestPayloadDiagnostics(api, raw, Path("payload")) = {}
    BY <1>4, <1>7, <1>11
  <1> HIDE DEF api, role, caller, context, raw
  <1>13. caller.role = role
    BY <1>4, <1>8, <1>9, MismatchFacts
  <1>14. context.local_role = "pi_zymkey"
    BY <1>4, <1>10 DEF Report
  <1>15. caller.certificate_fingerprint = context.peer_trust.subject_fingerprint
    BY <1>4, <1>9, <1>10 DEF Report
  <1>16. /\ Normalized(raw) \in PayloadContract
         /\ RequestPayloadDiagnostics(api, Normalized(raw), Path("payload")) = {}
    BY <1>7, <1>11, <1>12, RequestPayloadTwice
  <1>17. Normalized(raw) # None
    BY <1>16, AbsenceAssumption
  <1>18. whole \in ProtectedRequestEnvelope /\ \A part \in DOMAIN whole : whole[part] # None
    BY <1>6, <1>7, <1>8, <1>9, <1>10, <1>16, <1>17 DEF ProtectedRequestEnvelope
  <1>19. RequestValue(d) = Complete(whole)
    BY DEF RequestValue, api, role, caller, context, raw
  <1>20. /\ whole.api_name = api /\ whole.caller_role = role /\ whole.caller_identity = caller
         /\ whole.auth_context = context /\ whole.payload = Normalized(raw)
    OBVIOUS
  <1> HIDE DEF whole
  <1>21. RequestValue(d) = whole
    BY <1>18, <1>19, CompleteFacts
  <1>22. whole # None
    BY <1>18, AbsenceAssumption
  <1> QED BY <1>10, <1>13, <1>14, <1>15, <1>16, <1>18, <1>20, <1>21, <1>22

LEMMA EntriesFacts ==
  ASSUME NEW v \in Json(EntryList), Present(v, Path("diagnostics")) = {}
  PROVE  EntriesValue(v) \in SUBSET Diagnostic /\ EntriesValue(v) # None
  <1> DEFINE good == {j \in DOMAIN v : EntryDiagnostics(v[j], Path("diagnostics")) = {}}
  <1>1. IsArray(v)
    BY DEF IsArray, Present, Report
  <1>2. v \in EntryList /\ v \in Seq(EntryDocument \cup {WrongType})
    BY <1>1, ListsAssumption DEF IsArray, Json
  <1>3. EntriesValue(v) = {v[i] : i \in good}
    BY <1>1 DEF EntriesValue
  <1>4. ASSUME NEW i \in good PROVE v[i] \in Diagnostic
    <2>1. v[i] \in EntryDocument \cup {WrongType} /\ EntryDiagnostics(v[i], Path("diagnostics")) = {}
      BY <1>2
    <2>2. v[i] # WrongType
      BY <2>1, AbsenceAssumption DEF EntryDiagnostics, Present, Report
    <2>3. v[i] \in EntryDocument
      BY <2>1, <2>2
    <2> DEFINE entry == v[i]
    <2>4. /\ RequiredString(entry.code, Member(Path("diagnostics"), "code")) = {}
          /\ RequiredEnum(entry.severity, {"error", "warning"}, "invalid_severity",
                          Member(Path("diagnostics"), "severity")) = {}
          /\ RequiredString(entry.path, Member(Path("diagnostics"), "path")) = {}
          /\ RequiredString(entry.message, Member(Path("diagnostics"), "message")) = {}
      BY <2>1, <2>2 DEF EntryDiagnostics
    <2> HIDE DEF entry
    <2>5. entry \in EntryDocument
      BY <2>3 DEF entry
    <2>6. entry.code \in Json(Text) /\ entry.path \in Json(Text) /\ entry.message \in Json(Text)
      BY <2>5 DEF EntryDocument
    <2>7. entry.code \in Text /\ entry.path \in Text /\ entry.message \in Text
      BY <2>4, <2>6, StringFacts
    <2>8. entry.severity \in {"error", "warning"}
      BY <2>4, EnumFacts
    <2>9. entry \in Diagnostic
      BY <2>5, <2>7, <2>8 DEF EntryDocument, Diagnostic
    <2> QED BY <2>9 DEF entry
  <1>5. None # {v[i] : i \in good}
    BY <1>2, AbsenceAssumption DEF NoneIsNoSelection
  <1> HIDE DEF good
  <1> QED BY <1>3, <1>4, <1>5

LEMMA ResponseFacts ==
  ASSUME NEW d \in Json(ResponseDocument), ResponseDiagnostics(d) = {}
  PROVE  /\ ResponseValue(d) \in ProtectedResponseEnvelope /\ ResponseValue(d) # None
         /\ DiagnosticsPresence(ResponseValue(d).status, ResponseValue(d).diagnostics) = {}
         /\ ResponseValue(d).status # None
         /\ ResponseValue(d).payload.payload_type \in ResponseFamily
         /\ ResponseValue(d).payload.schema_ref = SchemaRefFor[ResponseValue(d).payload.payload_type]
         /\ BodyDiagnostics(ResponseValue(d).payload.payload_type, ResponseValue(d).payload.body, Path("payload")) = {}
  <1> DEFINE state == EnumValue(d.status, EnvelopeStatus)
             entries == EntriesValue(d.diagnostics)
             raw == PayloadValue(d.payload)
             whole == [request_id |-> IdentifierValue(d.request_id), status |-> state,
                       diagnostics |-> entries, payload |-> Normalized(raw)]
  <1>1. d \notin {None, WrongType}
    BY DEF ResponseDiagnostics, Unreadable, Report
  <1>2. d \in ResponseDocument
    BY <1>1 DEF Json
  <1>3. /\ RequiredEnum(d.request_id, Uuid, "invalid_request_id", Path("request_id")) = {}
        /\ RequiredEnum(d.status, EnvelopeStatus, "invalid_status", Path("status")) = {}
        /\ Present(d.diagnostics, Path("diagnostics")) = {}
        /\ PayloadDiagnostics(d.payload, Path("payload")) = {}
        /\ DiagnosticsPresence(state, entries) = {}
        /\ (IF raw = None THEN {} ELSE ResponsePayloadDiagnostics(raw, None, Path("payload"))) = {}
    BY <1>1 DEF ResponseDiagnostics
  <1>4. d.diagnostics \in Json(EntryList) /\ d.payload \in Json(PayloadDocument)
    BY <1>2 DEF ResponseDocument
  <1>5. IdentifierValue(d.request_id) \in LowerCase(Uuid) /\ IdentifierValue(d.request_id) # None
    BY <1>3, IdentifierFacts
  <1>6. state \in EnvelopeStatus /\ state # None
    BY <1>3, EnumFacts
  <1>7. entries \in SUBSET Diagnostic /\ entries # None
    BY <1>3, <1>4, EntriesFacts
  <1>8. raw \in PayloadContract /\ raw # None
    BY <1>3, <1>4, PayloadFacts
  <1>9. ResponsePayloadDiagnostics(raw, None, Path("payload")) = {}
    BY <1>3, <1>8
  <1> HIDE DEF state, entries, raw
  <1>10. /\ Normalized(raw) \in PayloadContract
         /\ Normalized(raw).payload_type \in ResponseFamily
         /\ Normalized(raw).schema_ref = SchemaRefFor[Normalized(raw).payload_type]
         /\ BodyDiagnostics(Normalized(raw).payload_type, Normalized(raw).body, Path("payload")) = {}
    BY <1>8, <1>9, ResponsePayloadTwice
  <1>11. Normalized(raw) # None
    BY <1>10, AbsenceAssumption
  <1>12. whole \in ProtectedResponseEnvelope /\ \A part \in DOMAIN whole : whole[part] # None
    BY <1>5, <1>6, <1>7, <1>10, <1>11 DEF ProtectedResponseEnvelope
  <1>13. ResponseValue(d) = Complete(whole)
    BY DEF ResponseValue, state, entries, raw
  <1>14. whole.status = state /\ whole.diagnostics = entries /\ whole.payload = Normalized(raw)
    OBVIOUS
  <1> HIDE DEF whole
  <1>15. ResponseValue(d) = whole
    BY <1>12, <1>13, CompleteFacts
  <1>16. whole # None
    BY <1>12, AbsenceAssumption
  <1> QED BY <1>3, <1>6, <1>10, <1>12, <1>14, <1>15, <1>16

-----------------------------------------------------------------------------
(* The inductive invariant. A call is made once and nothing it used changes *)
(* any more: before a parser is called its value is None, so no call of the *)
(* second stage can have used it.                                           *)

LEMMA CallNames ==
  ASSUME NEW s
  PROVE  /\ <<"contract", 0>> \in Calls(s) /\ <<"module", 0>> \in Calls(s) /\ <<"response", 0>> \in Calls(s)
         /\ \A k \in DOMAIN s.requests :
              <<"request", k>> \in Calls(s) /\ <<"authorize", k>> \in Calls(s) /\ <<"validate", k>> \in Calls(s)
  BY DEF Calls

LEMMA ReturnFacts ==
  ASSUME NEW call, NEW diagnostics, Return(call, diagnostics), call \in DOMAIN log
  PROVE  /\ log[call] = None /\ log'[call] = diagnostics /\ DOMAIN log' = DOMAIN log
         /\ \A other \in DOMAIN log : other # call => log'[other] = log[other]
  BY DEF Return

LEMMA ParseContractKeeps ==
  ASSUME CallsAreDetermined, ParseContract
  PROVE  CallsAreDetermined'
  <1> USE DEF CallsAreDetermined
  <1> DEFINE call == <<"contract", 0>>
  <1>1. Shape /\ Shape' /\ session' = session
    <2>1. DOMAIN log' = DOMAIN log
      BY DEF ParseContract, Return
    <2> QED BY <2>1 DEF ParseContract, Shape
  <1>2. /\ log[call] = None /\ log'[call] = ContractDiagnostics(session.contract)
        /\ \A other \in DOMAIN log : other # call => log'[other] = log[other]
    <2>1. Return(call, ContractDiagnostics(session.contract)) /\ call \in DOMAIN log
      BY <1>1, CallNames DEF ParseContract, Shape
    <2> QED BY <2>1, ReturnFacts
  <1>3. ContractCall'
    BY <1>1, <1>2 DEF ContractCall, ParseContract
  <1>4. contract = None
    BY <1>2, AbsenceAssumption DEF ContractCall
  <1>5. ModuleCall' /\ ResponseCall'
    <2>1. log'[<<"module", 0>>] = log[<<"module", 0>>] /\ log'[<<"response", 0>>] = log[<<"response", 0>>]
      BY <1>1, <1>2, CallNames DEF Shape
    <2> QED BY <1>1, <2>1 DEF ModuleCall, ResponseCall, ParseContract
  <1>6. ASSUME NEW k \in DOMAIN session.requests
        PROVE  RequestCall(k)' /\ AuthorizeCall(k)' /\ ValidateCall(k)'
    <2>1. /\ log'[<<"request", k>>] = log[<<"request", k>>] /\ log'[<<"authorize", k>>] = log[<<"authorize", k>>]
          /\ log'[<<"validate", k>>] = log[<<"validate", k>>]
      BY <1>1, <1>2, CallNames DEF Shape
    <2>2. RequestCall(k) /\ log[<<"authorize", k>>] = None /\ log[<<"validate", k>>] = None
      BY <1>4 DEF AuthorizeCall, ValidateCall
    <2> QED BY <1>1, <2>1, <2>2 DEF RequestCall, AuthorizeCall, ValidateCall, ParseContract
  <1> QED BY <1>1, <1>3, <1>5, <1>6

LEMMA ParseModuleKeeps ==
  ASSUME CallsAreDetermined, ParseModule
  PROVE  CallsAreDetermined'
  <1> USE DEF CallsAreDetermined
  <1> DEFINE call == <<"module", 0>>
  <1>1. Shape /\ Shape' /\ session' = session
    <2>1. DOMAIN log' = DOMAIN log
      BY DEF ParseModule, Return
    <2> QED BY <2>1 DEF ParseModule, Shape
  <1>2. /\ log[call] = None /\ log'[call] = ModuleDiagnostics(session.module)
        /\ \A other \in DOMAIN log : other # call => log'[other] = log[other]
    <2>1. Return(call, ModuleDiagnostics(session.module)) /\ call \in DOMAIN log
      BY <1>1, CallNames DEF ParseModule, Shape
    <2> QED BY <2>1, ReturnFacts
  <1>3. ModuleCall'
    BY <1>1, <1>2 DEF ModuleCall, ParseModule
  <1>4. ContractCall' /\ ResponseCall'
    <2>1. log'[<<"contract", 0>>] = log[<<"contract", 0>>] /\ log'[<<"response", 0>>] = log[<<"response", 0>>]
      BY <1>1, <1>2, CallNames DEF Shape
    <2> QED BY <1>1, <2>1 DEF ContractCall, ResponseCall, ParseModule
  <1>5. ASSUME NEW k \in DOMAIN session.requests
        PROVE  RequestCall(k)' /\ AuthorizeCall(k)' /\ ValidateCall(k)'
    <2>1. /\ log'[<<"request", k>>] = log[<<"request", k>>] /\ log'[<<"authorize", k>>] = log[<<"authorize", k>>]
          /\ log'[<<"validate", k>>] = log[<<"validate", k>>]
      BY <1>1, <1>2, CallNames DEF Shape
    <2>2. RequestCall(k) /\ AuthorizeCall(k) /\ ValidateCall(k)
      OBVIOUS
    <2> QED BY <1>1, <2>1, <2>2 DEF RequestCall, AuthorizeCall, ValidateCall, ParseModule
  <1> QED BY <1>1, <1>3, <1>4, <1>5

LEMMA ParseResponseKeeps ==
  ASSUME CallsAreDetermined, ParseResponse
  PROVE  CallsAreDetermined'
  <1> USE DEF CallsAreDetermined
  <1> DEFINE call == <<"response", 0>>
  <1>1. Shape /\ Shape' /\ session' = session
    <2>1. DOMAIN log' = DOMAIN log
      BY DEF ParseResponse, Return
    <2> QED BY <2>1 DEF ParseResponse, Shape
  <1>2. /\ log[call] = None /\ log'[call] = ResponseDiagnostics(session.response)
        /\ \A other \in DOMAIN log : other # call => log'[other] = log[other]
    <2>1. Return(call, ResponseDiagnostics(session.response)) /\ call \in DOMAIN log
      BY <1>1, CallNames DEF ParseResponse, Shape
    <2> QED BY <2>1, ReturnFacts
  <1>3. ResponseCall'
    BY <1>1, <1>2 DEF ResponseCall, ParseResponse
  <1>4. response = None
    BY <1>2, AbsenceAssumption DEF ResponseCall
  <1>5. ContractCall' /\ ModuleCall'
    <2>1. log'[<<"contract", 0>>] = log[<<"contract", 0>>] /\ log'[<<"module", 0>>] = log[<<"module", 0>>]
      BY <1>1, <1>2, CallNames DEF Shape
    <2> QED BY <1>1, <2>1 DEF ContractCall, ModuleCall, ParseResponse
  <1>6. ASSUME NEW k \in DOMAIN session.requests
        PROVE  RequestCall(k)' /\ AuthorizeCall(k)' /\ ValidateCall(k)'
    <2>1. /\ log'[<<"request", k>>] = log[<<"request", k>>] /\ log'[<<"authorize", k>>] = log[<<"authorize", k>>]
          /\ log'[<<"validate", k>>] = log[<<"validate", k>>]
      BY <1>1, <1>2, CallNames DEF Shape
    <2>2. RequestCall(k) /\ AuthorizeCall(k) /\ log[<<"validate", k>>] = None
      BY <1>4 DEF ValidateCall
    <2> QED BY <1>1, <2>1, <2>2 DEF RequestCall, AuthorizeCall, ValidateCall, ParseResponse
  <1> QED BY <1>1, <1>3, <1>5, <1>6

LEMMA ParseRequestKeeps ==
  ASSUME CallsAreDetermined, NEW k \in DOMAIN session.requests, ParseRequest(k)
  PROVE  CallsAreDetermined'
  <1> USE DEF CallsAreDetermined
  <1> DEFINE call == <<"request", k>>
             value == IF RequestDiagnostics(session.requests[k]) = {} THEN RequestValue(session.requests[k]) ELSE None
  <1>1. Shape /\ session' = session /\ requests' = [requests EXCEPT ![k] = value]
    BY DEF ParseRequest
  <1>2. /\ log[call] = None /\ log'[call] = RequestDiagnostics(session.requests[k]) /\ DOMAIN log' = DOMAIN log
        /\ \A other \in DOMAIN log : other # call => log'[other] = log[other]
    <2>1. Return(call, RequestDiagnostics(session.requests[k])) /\ call \in DOMAIN log
      BY <1>1, CallNames DEF ParseRequest, Shape
    <2> QED BY <2>1, ReturnFacts
  <1>3. k \in DOMAIN requests
    BY <1>1 DEF Shape
  <1>4. requests'[k] = value /\ \A l \in DOMAIN session.requests : l # k => requests'[l] = requests[l]
    <2> HIDE DEF value
    <2> QED BY <1>1, <1>3 DEF Shape
  <1>5. Shape'
    <2> HIDE DEF value
    <2> QED BY <1>1, <1>2 DEF Shape
  <1>6. requests[k] = None
    BY <1>2, AbsenceAssumption DEF RequestCall
  <1>7. ContractCall' /\ ModuleCall' /\ ResponseCall'
    <2>1. /\ log'[<<"contract", 0>>] = log[<<"contract", 0>>] /\ log'[<<"module", 0>>] = log[<<"module", 0>>]
          /\ log'[<<"response", 0>>] = log[<<"response", 0>>]
      BY <1>1, <1>2, CallNames DEF Shape
    <2>2. contract' = contract /\ module' = module /\ response' = response
      BY DEF ParseRequest
    <2> HIDE DEF value
    <2> QED BY <1>1, <2>1, <2>2 DEF ContractCall, ModuleCall, ResponseCall
  <1>8. ASSUME NEW l \in DOMAIN session.requests
        PROVE  RequestCall(l)' /\ AuthorizeCall(l)' /\ ValidateCall(l)'
    <2>1. log'[<<"authorize", l>>] = log[<<"authorize", l>>] /\ log'[<<"validate", l>>] = log[<<"validate", l>>]
      BY <1>1, <1>2, CallNames DEF Shape
    <2>2. contract' = contract /\ response' = response
      BY DEF ParseRequest
    <2>3. CASE l = k
      <3>1. log[<<"authorize", l>>] = None /\ log[<<"validate", l>>] = None
        BY <1>6, <2>3 DEF AuthorizeCall, ValidateCall
      <3>2. RequestCall(l)'
        BY <1>1, <1>2, <1>4, <2>3 DEF RequestCall
      <3> QED BY <2>1, <3>1, <3>2 DEF AuthorizeCall, ValidateCall
    <2>4. CASE l # k
      <3>1. log'[<<"request", l>>] = log[<<"request", l>>] /\ requests'[l] = requests[l]
        BY <1>1, <1>2, <1>4, <2>4, CallNames DEF Shape
      <3>2. RequestCall(l) /\ AuthorizeCall(l) /\ ValidateCall(l)
        OBVIOUS
      <3> HIDE DEF value
      <3> QED BY <1>1, <2>1, <2>2, <3>1, <3>2 DEF RequestCall, AuthorizeCall, ValidateCall
    <2> QED BY <2>3, <2>4
  <1> QED BY <1>1, <1>5, <1>7, <1>8

\* A call of the second stage changes the log only.
LEMMA JudgementKeeps ==
  ASSUME CallsAreDetermined, NEW k \in DOMAIN session.requests, Authorize(k) \/ Validate(k)
  PROVE  CallsAreDetermined'
  <1> USE DEF CallsAreDetermined
  <1>1. /\ Shape /\ session' = session /\ requests' = requests
        /\ contract' = contract /\ module' = module /\ response' = response
    BY DEF Authorize, Validate
  <1>2. PICK name, diagnostics :
          /\ name \in {"authorize", "validate"}
          /\ Return(<<name, k>>, diagnostics) /\ contract # None /\ requests[k] # None
          /\ name = "authorize" => diagnostics = AuthorizeRequest(contract, requests[k])
          /\ name = "validate" => response # None /\ diagnostics = ValidateResponse(contract, requests[k], response)
    BY DEF Authorize, Validate
  <1>3. /\ log'[<<name, k>>] = diagnostics /\ DOMAIN log' = DOMAIN log
        /\ \A other \in DOMAIN log : other # <<name, k>> => log'[other] = log[other]
    <2>1. <<name, k>> \in DOMAIN log
      BY <1>1, <1>2, CallNames DEF Shape
    <2> QED BY <1>2, <2>1, ReturnFacts
  <1>4. Shape'
    BY <1>1, <1>3 DEF Shape
  <1>5. ContractCall' /\ ModuleCall' /\ ResponseCall'
    <2>1. /\ log'[<<"contract", 0>>] = log[<<"contract", 0>>] /\ log'[<<"module", 0>>] = log[<<"module", 0>>]
          /\ log'[<<"response", 0>>] = log[<<"response", 0>>]
      BY <1>1, <1>2, <1>3, CallNames DEF Shape
    <2> QED BY <1>1, <2>1 DEF ContractCall, ModuleCall, ResponseCall
  <1>6. ASSUME NEW l \in DOMAIN session.requests
        PROVE  RequestCall(l)' /\ AuthorizeCall(l)' /\ ValidateCall(l)'
    <2>1. RequestCall(l) /\ AuthorizeCall(l) /\ ValidateCall(l)
      OBVIOUS
    <2>2. log'[<<"request", l>>] = log[<<"request", l>>]
      BY <1>1, <1>2, <1>3, CallNames DEF Shape
    <2>3. RequestCall(l)'
      BY <1>1, <2>1, <2>2 DEF RequestCall
    <2>4. AuthorizeCall(l)'
      <3>1. CASE name = "authorize" /\ l = k
        BY <1>1, <1>2, <1>3, <3>1 DEF AuthorizeCall
      <3>2. CASE ~(name = "authorize" /\ l = k)
        <4>1. log'[<<"authorize", l>>] = log[<<"authorize", l>>]
          BY <1>1, <1>3, <3>2, CallNames DEF Shape
        <4> QED BY <1>1, <2>1, <4>1 DEF AuthorizeCall
      <3> QED BY <3>1, <3>2
    <2>5. ValidateCall(l)'
      <3>1. CASE name = "validate" /\ l = k
        BY <1>1, <1>2, <1>3, <3>1 DEF ValidateCall
      <3>2. CASE ~(name = "validate" /\ l = k)
        <4>1. log'[<<"validate", l>>] = log[<<"validate", l>>]
          BY <1>1, <1>3, <3>2, CallNames DEF Shape
        <4> QED BY <1>1, <2>1, <4>1 DEF ValidateCall
      <3> QED BY <3>1, <3>2
    <2> QED BY <2>3, <2>4, <2>5
  <1> QED BY <1>1, <1>4, <1>5, <1>6

LEMMA InductiveInvariant == Spec => []CallsAreDetermined
  <1>1. Init => CallsAreDetermined
    <2> SUFFICES ASSUME Init PROVE CallsAreDetermined
      OBVIOUS
    <2>1. Shape
      BY SessionsAssumption DEF Init, Shape
    <2>2. /\ log[<<"contract", 0>>] = None /\ log[<<"module", 0>>] = None /\ log[<<"response", 0>>] = None
          /\ \A k \in DOMAIN session.requests : /\ log[<<"request", k>>] = None /\ log[<<"authorize", k>>] = None
                                                /\ log[<<"validate", k>>] = None
      BY CallNames DEF Init
    <2>3. ContractCall /\ ModuleCall /\ ResponseCall
      BY <2>2, AbsenceAssumption DEF Init, ContractCall, ModuleCall, ResponseCall
    <2>4. ASSUME NEW k \in DOMAIN session.requests
          PROVE  RequestCall(k) /\ AuthorizeCall(k) /\ ValidateCall(k)
      <3>1. requests[k] = None
        BY DEF Init
      <3> QED BY <2>2, <3>1, AbsenceAssumption DEF RequestCall, AuthorizeCall, ValidateCall
    <2> QED BY <2>1, <2>3, <2>4 DEF CallsAreDetermined
  <1>2. CallsAreDetermined /\ [Next]_vars => CallsAreDetermined'
    <2> SUFFICES ASSUME CallsAreDetermined, [Next]_vars PROVE CallsAreDetermined'
      OBVIOUS
    <2>1. CASE ParseContract
      BY <2>1, ParseContractKeeps
    <2>2. CASE ParseModule
      BY <2>2, ParseModuleKeeps
    <2>3. CASE ParseResponse
      BY <2>3, ParseResponseKeeps
    <2>4. ASSUME NEW k \in DOMAIN session.requests, ParseRequest(k) PROVE CallsAreDetermined'
      BY <2>4, ParseRequestKeeps
    <2>5. ASSUME NEW k \in DOMAIN session.requests, Authorize(k) PROVE CallsAreDetermined'
      BY <2>5, JudgementKeeps
    <2>6. ASSUME NEW k \in DOMAIN session.requests, Validate(k) PROVE CallsAreDetermined'
      BY <2>6, JudgementKeeps
    <2>7. CASE UNCHANGED vars
      BY <2>7 DEF CallsAreDetermined, Shape, ContractCall, ModuleCall, ResponseCall, RequestCall, AuthorizeCall,
                  ValidateCall, vars
    <2> QED BY <2>1, <2>2, <2>3, <2>4, <2>5, <2>6, <2>7 DEF Next
  <1> QED BY <1>1, <1>2, PTL DEF Spec

-----------------------------------------------------------------------------
(* What the second stage may take for granted *)

BaselineContract(c) ==
  /\ c \in SecureChannelContract
  /\ c.server_role = "pi_zymkey" /\ c.server_identity.role = "pi_zymkey"
  /\ c.client_role = "ubuntu_tpm" /\ c.client_identity.role = "ubuntu_tpm"
  /\ Len(c.acl) = 1 /\ c.acl[1].caller_role = "ubuntu_tpm" /\ c.acl[1].allowed_api_names # {}

BoundRequest(r) ==
  /\ r \in ProtectedRequestEnvelope
  /\ r.auth_context.mutual_tls = TRUE /\ r.auth_context.local_role = "pi_zymkey"
  /\ r.caller_identity.role = r.caller_role
  /\ r.caller_identity.certificate_fingerprint = r.auth_context.peer_trust.subject_fingerprint
  /\ RequestPayloadDiagnostics(r.api_name, r.payload, Path("payload")) = {}

WellFormedResponse(p) ==
  /\ p \in ProtectedResponseEnvelope /\ p.status # None
  /\ DiagnosticsPresence(p.status, p.diagnostics) = {}
  /\ p.payload.payload_type \in ResponseFamily
  /\ p.payload.schema_ref = SchemaRefFor[p.payload.payload_type]
  /\ BodyDiagnostics(p.payload.payload_type, p.payload.body, Path("payload")) = {}

LEMMA ContractReturned ==
  ASSUME CallsAreDetermined, log[<<"contract", 0>>] = {} \/ contract # None
  PROVE  contract # None /\ BaselineContract(contract) /\ Len(session.contract.acl) = 1
  <1>1. ContractDiagnostics(session.contract) = {} /\ contract = ContractValue(session.contract)
    BY AbsenceAssumption DEF CallsAreDetermined, ContractCall
  <1>2. session.contract \in Json(ContractDocument)
    BY DEF CallsAreDetermined, Shape, SessionDocuments
  <1> QED BY <1>1, <1>2, ContractFacts DEF BaselineContract

LEMMA ModuleReturned ==
  ASSUME CallsAreDetermined, log[<<"module", 0>>] = {} \/ module # None
  PROVE  /\ module # None /\ module \in SecurityModuleContract
         /\ module.module_role = "pi_zymkey" /\ module.server_identity.role = "pi_zymkey"
         /\ \A ref \in DOMAIN BaselineRefs : module[ref] = BaselineRefs[ref]
  <1>1. ModuleDiagnostics(session.module) = {} /\ module = ModuleValue(session.module)
    BY AbsenceAssumption DEF CallsAreDetermined, ModuleCall
  <1>2. session.module \in Json(ModuleDocument)
    BY DEF CallsAreDetermined, Shape, SessionDocuments
  <1> QED BY <1>1, <1>2, ModuleFacts

LEMMA RequestReturned ==
  ASSUME CallsAreDetermined, NEW k \in DOMAIN session.requests, log[<<"request", k>>] = {} \/ requests[k] # None
  PROVE  requests[k] # None /\ BoundRequest(requests[k])
  <1>1. RequestDiagnostics(session.requests[k]) = {} /\ requests[k] = RequestValue(session.requests[k])
    BY AbsenceAssumption DEF CallsAreDetermined, RequestCall
  <1>2. session.requests[k] \in Json(RequestDocument)
    BY DEF CallsAreDetermined, Shape, SessionDocuments
  <1> QED BY <1>1, <1>2, RequestFacts DEF BoundRequest

LEMMA ResponseReturned ==
  ASSUME CallsAreDetermined, log[<<"response", 0>>] = {} \/ response # None
  PROVE  response # None /\ WellFormedResponse(response)
  <1>1. ResponseDiagnostics(session.response) = {} /\ response = ResponseValue(session.response)
    BY AbsenceAssumption DEF CallsAreDetermined, ResponseCall
  <1>2. session.response \in Json(ResponseDocument)
    BY DEF CallsAreDetermined, Shape, SessionDocuments
  <1> QED BY <1>1, <1>2, ResponseFacts DEF WellFormedResponse

LEMMA RequestIndices ==
  ASSUME CallsAreDetermined
  PROVE  DOMAIN requests = DOMAIN session.requests
  BY DEF CallsAreDetermined, Shape

-----------------------------------------------------------------------------
(* The theorems about parsing *)

\* Whatever the parsers return, for any documents and in any order of the calls,
\* is complete and in its type.
THEOREM TypeCorrectness == Spec => []TypeOK
  <1>1. CallsAreDetermined => TypeOK
    <2> SUFFICES ASSUME CallsAreDetermined PROVE TypeOK
      OBVIOUS
    <2>1. contract \in SecureChannelContract \cup {None}
      BY ContractReturned DEF BaselineContract
    <2>2. module \in SecurityModuleContract \cup {None}
      BY ModuleReturned
    <2>3. response \in ProtectedResponseEnvelope \cup {None}
      BY ResponseReturned DEF WellFormedResponse
    <2>4. requests \in [DOMAIN session.requests -> ProtectedRequestEnvelope \cup {None}]
      <3>1. \A k \in DOMAIN session.requests : requests[k] \in ProtectedRequestEnvelope \cup {None}
        BY RequestReturned DEF BoundRequest
      <3>2. requests = [k \in DOMAIN session.requests |-> requests[k]]
        BY DEF CallsAreDetermined, Shape
      <3> QED BY <3>1, <3>2
    <2>5. session \in SessionDocuments /\ DOMAIN log = Calls(session)
      BY DEF CallsAreDetermined, Shape
    <2> QED BY <2>1, <2>2, <2>3, <2>4, <2>5 DEF TypeOK
  <1> QED BY <1>1, InductiveInvariant, PTL

\* A parser that reports nothing returns a value: ok() of a parse result never is
\* true of an empty one.
THEOREM RefusalExplained == Spec => []RefusalIsExplained
  <1>1. CallsAreDetermined => RefusalIsExplained
    BY ContractReturned, ModuleReturned, ResponseReturned, RequestReturned, RequestIndices DEF RefusalIsExplained
  <1> QED BY <1>1, InductiveInvariant, PTL

\* A contract that parses is the baseline: fixed roles, identities that have them,
\* and one rule, for the client, whatever the list of the document held.
THEOREM Baseline == Spec => []ParsedContractIsBaseline
  <1>1. CallsAreDetermined => ParsedContractIsBaseline
    <2> SUFFICES ASSUME CallsAreDetermined PROVE ParsedContractIsBaseline
      OBVIOUS
    <2>1. contract # None => BaselineContract(contract) /\ Len(session.contract.acl) = 1
      BY ContractReturned
    <2>2. module # None =>
            /\ module.module_role = "pi_zymkey" /\ module.server_identity.role = "pi_zymkey"
            /\ \A ref \in DOMAIN BaselineRefs : module[ref] = BaselineRefs[ref]
      BY ModuleReturned
    <2> QED BY <2>1, <2>2 DEF ParsedContractIsBaseline, BaselineContract
  <1> QED BY <1>1, InductiveInvariant, PTL

-----------------------------------------------------------------------------
(* authorize_request, on parsed values *)

LEMMA NoIdentityDifference ==
  ASSUME NEW expected \in PeerIdentity, NEW actual \in PeerIdentity
  PROVE  IdentityBinding(expected, actual) = {} <=> expected = actual
  <1>1. DOMAIN expected = DOMAIN actual
    BY DEF PeerIdentity
  <1>2. ASSUME IdentityBinding(expected, actual) = {} PROVE expected = actual
    <2>1. ASSUME NEW name \in DOMAIN expected PROVE expected[name] = actual[name]
      <3>1. Differs(name, expected, actual) = {}
        BY <1>2 DEF IdentityBinding
      <3> QED BY <3>1 DEF Differs, Report
    <2> QED BY <1>1, <2>1 DEF PeerIdentity
  <1>3. ASSUME expected = actual PROVE IdentityBinding(expected, actual) = {}
    BY <1>3 DEF IdentityBinding, Differs, Report
  <1> QED BY <1>2, <1>3

\* What is left of authorize_request: the checks on local role, mutual TLS,
\* fingerprint and payload find nothing any more.
Judged(c, r) ==
  Report("role_mismatch", Path("caller_role"), r.caller_role # c.client_role)
  \cup Report("invalid_channel_binding", Member(Path("auth_context"), "channel_id"),
              r.auth_context.channel_id # c.channel_id)
  \cup (IF r.caller_role # c.client_role THEN {}
        ELSE IdentityBinding(c.client_identity, r.caller_identity)
             \cup TrustBinding(c.trust_requirements, r.auth_context.peer_trust)
             \cup Report("unauthorized_api", Path("api_name"), ~ApiAllowed(c.acl, r.caller_role, r.api_name)))

LEMMA OnlyJudged ==
  ASSUME NEW c, BaselineContract(c), NEW r, BoundRequest(r)
  PROVE  AuthorizeRequest(c, r) = Judged(c, r)
  <1>1. Report("role_mismatch", Member(Path("auth_context"), "local_role"), r.auth_context.local_role # c.server_role) = {}
    BY DEF BaselineContract, BoundRequest, Report
  <1>2. Report("invalid_channel_binding", Member(Path("auth_context"), "mutual_tls"), ~r.auth_context.mutual_tls) = {}
    BY Zenon DEF BoundRequest, Report
  <1>3. Report("missing_trust_binding", Member(Member(Path("auth_context"), "peer_trust"), "subject_fingerprint"),
               r.caller_identity.certificate_fingerprint # r.auth_context.peer_trust.subject_fingerprint) = {}
    BY DEF BoundRequest, Report
  <1>4. RequestPayloadDiagnostics(r.api_name, r.payload, Path("payload")) = {}
    BY DEF BoundRequest
  <1> QED BY <1>1, <1>2, <1>3, <1>4 DEF AuthorizeRequest, Judged

LEMMA OneRuleDecides ==
  ASSUME NEW c, BaselineContract(c), NEW role, NEW api
  PROVE  ApiAllowed(c.acl, role, api) <=>
           \E i \in DOMAIN c.acl : c.acl[i].caller_role = role /\ api \in c.acl[i].allowed_api_names
  <1>1. DOMAIN c.acl = {1}
    BY DEF BaselineContract, SecureChannelContract
  <1>2. \A j \in 1..(1 - 1) : FALSE
    OBVIOUS
  <1> QED BY <1>1, <1>2 DEF ApiAllowed

LEMMA TrustIsBound ==
  ASSUME NEW requirements, NEW trust
  PROVE  TrustBinding(requirements, trust) = {} <=>
           /\ trust.decision = requirements.required_decision
           /\ trust.decision_reason = requirements.required_decision_reason
           /\ trust.revocation_status \in requirements.accepted_revocation_statuses
           /\ \A s \in requirements.required_checked_sources : s \in trust.checked_sources
  BY DEF TrustBinding, Report

LEMMA JudgedIffAdmissible ==
  ASSUME NEW c, BaselineContract(c), NEW r, BoundRequest(r)
  PROVE  Judged(c, r) = {} <=> Admissible(c, r)
  <1>1. c.client_identity \in PeerIdentity /\ r.caller_identity \in PeerIdentity
    BY DEF BaselineContract, BoundRequest, SecureChannelContract, ProtectedRequestEnvelope
  <1>2. Judged(c, r) = {} <=>
          /\ r.caller_role = c.client_role
          /\ r.auth_context.channel_id = c.channel_id
          /\ IdentityBinding(c.client_identity, r.caller_identity) = {}
          /\ TrustBinding(c.trust_requirements, r.auth_context.peer_trust) = {}
          /\ ApiAllowed(c.acl, r.caller_role, r.api_name)
    BY DEF Judged, Report
  <1>3. IdentityBinding(c.client_identity, r.caller_identity) = {} <=> r.caller_identity = c.client_identity
    BY <1>1, NoIdentityDifference
  <1>4. ApiAllowed(c.acl, r.caller_role, r.api_name) <=>
          \E i \in DOMAIN c.acl : c.acl[i].caller_role = r.caller_role /\ r.api_name \in c.acl[i].allowed_api_names
    BY OneRuleDecides
  <1>5. TrustBinding(c.trust_requirements, r.auth_context.peer_trust) = {} <=>
          /\ r.auth_context.peer_trust.decision = c.trust_requirements.required_decision
          /\ r.auth_context.peer_trust.decision_reason = c.trust_requirements.required_decision_reason
          /\ r.auth_context.peer_trust.revocation_status \in c.trust_requirements.accepted_revocation_statuses
          /\ \A s \in c.trust_requirements.required_checked_sources : s \in r.auth_context.peer_trust.checked_sources
    BY TrustIsBound
  <1>6. /\ r.auth_context.mutual_tls /\ r.auth_context.local_role = c.server_role
        /\ r.caller_identity = c.client_identity =>
             r.auth_context.peer_trust.subject_fingerprint = c.client_identity.certificate_fingerprint
    BY Zenon DEF BaselineContract, BoundRequest
  <1> QED BY <1>2, <1>3, <1>4, <1>5, <1>6, Zenon DEF Admissible

LEMMA ClientIdentityRole ==
  ASSUME NEW c, BaselineContract(c), NEW r, BoundRequest(r), r.caller_role = c.client_role
  PROVE  \A d \in IdentityBinding(c.client_identity, r.caller_identity) : d.code = "invalid_peer_identity"
  <1> SUFFICES ASSUME NEW name \in DOMAIN c.client_identity,
                      NEW d \in Differs(name, c.client_identity, r.caller_identity)
               PROVE  d.code = "invalid_peer_identity"
    BY DEF IdentityBinding
  <1>1. c.client_identity.role = r.caller_identity.role
    BY DEF BaselineContract, BoundRequest
  <1>2. name # "role"
    BY <1>1 DEF Differs, Report
  <1> QED BY <1>2 DEF Differs, Report

\* The path of the report on checked sources, third member.
LEMMA CheckedSourcesPath ==
  Member(Member(Path("auth_context"), "peer_trust"), "checked_sources")[3] = <<"checked_sources", 0>>
  BY DEF Member, Path

LEMMA JudgedReports ==
  ASSUME NEW c, BaselineContract(c), NEW r, BoundRequest(r), NEW d \in Judged(c, r)
  PROVE  /\ d.code \in {"role_mismatch", "invalid_channel_binding", "invalid_peer_identity",
                        "missing_trust_binding", "peer_not_trusted", "unauthorized_api"}
         /\ d.code = "role_mismatch" => d.path = Path("caller_role") /\ r.caller_role # c.client_role
         /\ d.code = "missing_trust_binding" => d.path[3] = <<"checked_sources", 0>>
         /\ r.caller_role # c.client_role => d.code \in {"role_mismatch", "invalid_channel_binding"}
  <1>1. CASE d \in Report("role_mismatch", Path("caller_role"), r.caller_role # c.client_role)
    BY <1>1 DEF Report
  <1>2. CASE d \in Report("invalid_channel_binding", Member(Path("auth_context"), "channel_id"),
                          r.auth_context.channel_id # c.channel_id)
    BY <1>2 DEF Report
  <1>3. CASE r.caller_role = c.client_role /\ d \in IdentityBinding(c.client_identity, r.caller_identity)
    <2>1. d.code = "invalid_peer_identity"
      BY <1>3, ClientIdentityRole
    <2> QED BY <1>3, <2>1
  <1>4. CASE r.caller_role = c.client_role /\ d \in TrustBinding(c.trust_requirements, r.auth_context.peer_trust)
    <2>1. \/ d.code = "peer_not_trusted"
          \/ /\ d.code = "missing_trust_binding"
             /\ d.path = Member(Member(Path("auth_context"), "peer_trust"), "checked_sources")
      BY <1>4 DEF TrustBinding, Report
    <2> QED BY <1>4, <2>1, CheckedSourcesPath
  <1>5. CASE /\ r.caller_role = c.client_role
             /\ d \in Report("unauthorized_api", Path("api_name"), ~ApiAllowed(c.acl, r.caller_role, r.api_name))
    BY <1>5 DEF Report
  <1> QED BY <1>1, <1>2, <1>3, <1>4, <1>5 DEF Judged

-----------------------------------------------------------------------------
(* validate_response, on parsed values *)

\* What is left of validate_response: schema, body and the presence of
\* diagnostics give nothing any more.
Compared(c, r, p) ==
  Report("invalid_channel_binding", <<<<"request", 0>>, <<"auth_context", 0>>, <<"channel_id", 0>>>>,
         r.auth_context.channel_id # c.channel_id)
  \cup Report("request_id_mismatch", Path("request_id"), p.request_id # r.request_id)
  \cup Report("invalid_status_body_combination", Member(Path("payload"), "payload_type"),
              p.status = "ok" <=> p.payload.payload_type = "error_response")
  \cup Report("request_response_api_mismatch", Member(Path("payload"), "payload_type"),
              /\ p.status = "ok" /\ p.payload.payload_type # "error_response"
              /\ p.payload.payload_type # ResponseFamilyOf[r.api_name])

LEMMA OnlyCompared ==
  ASSUME NEW c, NEW r, NEW p, WellFormedResponse(p)
  PROVE  ValidateResponse(c, r, p) = Compared(c, r, p)
  <1> DEFINE family == p.payload.payload_type
             place == Member(Path("payload"), "payload_type")
  <1>1. family \in Text /\ family # None
    BY TextAssumption DEF WellFormedResponse, ProtectedResponseEnvelope, PayloadContract
  <1>2. ResponseFamilyIn(p.payload) = family
    BY DEF WellFormedResponse, ResponseFamilyIn
  <1>3. DiagnosticsPresence(p.status, p.diagnostics) = {} /\ BodyDiagnostics(family, p.payload.body, Path("payload")) = {}
    BY DEF WellFormedResponse
  <1>4. ResponsePayloadDiagnostics(p.payload, p.status, Path("payload")) =
          Report("invalid_status_body_combination", place, p.status # None /\ (p.status = "ok" <=> family = "error_response"))
    BY <1>3 DEF WellFormedResponse, ResponsePayloadDiagnostics
  <1>5. p.status # None
    BY DEF WellFormedResponse
  <1>6. ResponsePayloadDiagnostics(p.payload, p.status, Path("payload")) =
          Report("invalid_status_body_combination", place, p.status = "ok" <=> family = "error_response")
    BY <1>4, <1>5 DEF Report
  <1>7. Report("request_response_api_mismatch", place, ApiMismatch(r.api_name, ResponseFamilyIn(p.payload), p.status)) =
          Report("request_response_api_mismatch", place,
                 /\ p.status = "ok" /\ family # "error_response" /\ family # ResponseFamilyOf[r.api_name])
    BY <1>1, <1>2 DEF ApiMismatch, Report
  <1> HIDE DEF family, place
  <1> QED BY <1>3, <1>6, <1>7 DEF ValidateResponse, Compared, family, place

\* No API has the family of a refusal, and no two have one family.
LEMMA FamiliesDiffer ==
  /\ \A api \in ApiName : ResponseFamilyOf[api] # "error_response"
  /\ \A api \in ApiName, other \in ApiName : ResponseFamilyOf[api] = ResponseFamilyOf[other] => api = other
  BY DEF ApiName, ResponseFamilyOf

LEMMA ComparedIffAnswers ==
  ASSUME NEW c, NEW r, BoundRequest(r), NEW p, WellFormedResponse(p)
  PROVE  /\ Compared(c, r, p) = {} <=> Answers(r, p) /\ r.auth_context.channel_id = c.channel_id
         /\ ~({"invalid_status_body_combination", "request_response_api_mismatch"}
              \subseteq {d.code : d \in Compared(c, r, p)})
  <1>1. r.api_name \in ApiName
    BY DEF BoundRequest, ProtectedRequestEnvelope
  <1>2. p.status = "ok" => p.diagnostics = {}
    BY DEF WellFormedResponse, DiagnosticsPresence, Report
  <1>3. p.status # "ok" => p.diagnostics # {}
    BY DEF WellFormedResponse, DiagnosticsPresence, Report
  <1>4. Compared(c, r, p) = {} <=>
          /\ r.auth_context.channel_id = c.channel_id /\ p.request_id = r.request_id
          /\ ~(p.status = "ok" <=> p.payload.payload_type = "error_response")
          /\ ~(/\ p.status = "ok" /\ p.payload.payload_type # "error_response"
               /\ p.payload.payload_type # ResponseFamilyOf[r.api_name])
    BY DEF Compared, Report
  <1>5. Compared(c, r, p) = {} <=> Answers(r, p) /\ r.auth_context.channel_id = c.channel_id
    BY <1>1, <1>2, <1>3, <1>4, FamiliesDiffer DEF Answers
  <1>6. ASSUME NEW d \in Compared(c, r, p), d.code = "invalid_status_body_combination"
        PROVE  p.status = "ok" <=> p.payload.payload_type = "error_response"
    BY <1>6 DEF Compared, Report
  <1>7. ASSUME NEW d \in Compared(c, r, p), d.code = "request_response_api_mismatch"
        PROVE  p.status = "ok" /\ p.payload.payload_type # "error_response"
    BY <1>7 DEF Compared, Report
  <1>8. ASSUME {"invalid_status_body_combination", "request_response_api_mismatch"}
                 \subseteq {d.code : d \in Compared(c, r, p)}
        PROVE  FALSE
    <2>1. PICK d \in Compared(c, r, p) : d.code = "invalid_status_body_combination"
      BY <1>8
    <2>2. PICK e \in Compared(c, r, p) : e.code = "request_response_api_mismatch"
      BY <1>8
    <2> QED BY <1>6, <1>7, <2>1, <2>2
  <1> QED BY <1>5, <1>8

LEMMA ComparedReports ==
  ASSUME NEW c, NEW r, NEW p
  PROVE  {d.code : d \in Compared(c, r, p)} \subseteq
           {"invalid_channel_binding", "request_id_mismatch", "invalid_status_body_combination",
            "request_response_api_mismatch"}
  BY DEF Compared, Report

-----------------------------------------------------------------------------
(* The theorems about the second stage *)

LEMMA AuthorizedCall ==
  ASSUME CallsAreDetermined, NEW k \in DOMAIN requests, log[<<"authorize", k>>] # None
  PROVE  /\ BaselineContract(contract) /\ BoundRequest(requests[k])
         /\ log[<<"authorize", k>>] = Judged(contract, requests[k])
  <1>1. k \in DOMAIN session.requests
    BY RequestIndices
  <1>2. /\ contract # None /\ requests[k] # None
        /\ log[<<"authorize", k>>] = AuthorizeRequest(contract, requests[k])
    BY <1>1 DEF CallsAreDetermined, AuthorizeCall
  <1>3. BaselineContract(contract) /\ BoundRequest(requests[k])
    BY <1>1, <1>2, ContractReturned, RequestReturned
  <1> QED BY <1>2, <1>3, OnlyJudged

LEMMA ValidatedCall ==
  ASSUME CallsAreDetermined, NEW k \in DOMAIN requests, log[<<"validate", k>>] # None
  PROVE  /\ BoundRequest(requests[k]) /\ WellFormedResponse(response)
         /\ log[<<"validate", k>>] = Compared(contract, requests[k], response)
  <1>1. k \in DOMAIN session.requests
    BY RequestIndices
  <1>2. /\ contract # None /\ requests[k] # None /\ response # None
        /\ log[<<"validate", k>>] = ValidateResponse(contract, requests[k], response)
    BY <1>1 DEF CallsAreDetermined, ValidateCall
  <1>3. BoundRequest(requests[k]) /\ WellFormedResponse(response)
    BY <1>1, <1>2, RequestReturned, ResponseReturned
  <1> QED BY <1>2, <1>3, OnlyCompared

\* Of the requests that parse, exactly those of the contract's client over its
\* channel, with the trust and the right it demands, are authorized.
THEOREM Authorization == Spec => []AuthorizedIffAdmissible
  <1>1. CallsAreDetermined => AuthorizedIffAdmissible
    <2> SUFFICES ASSUME CallsAreDetermined, NEW k \in DOMAIN requests, log[<<"authorize", k>>] # None
                 PROVE  log[<<"authorize", k>>] = {} <=> Admissible(contract, requests[k])
      BY DEF AuthorizedIffAdmissible
    <2> QED BY AuthorizedCall, JudgedIffAdmissible
  <1> QED BY <1>1, InductiveInvariant, PTL

\* The second stage finds nothing wrong that parsing has checked, and tells a
\* caller of the wrong role nothing else about the contract than a wrong channel.
THEOREM Stages == Spec => []StagesAreDisjoint
  <1>1. CallsAreDetermined => StagesAreDisjoint
    <2> SUFFICES ASSUME CallsAreDetermined, NEW k \in DOMAIN requests
                 PROVE
      /\ log[<<"authorize", k>>] # None =>
           LET codes == {d.code : d \in log[<<"authorize", k>>]}
           IN /\ codes \subseteq {"role_mismatch", "invalid_channel_binding", "invalid_peer_identity",
                                  "missing_trust_binding", "peer_not_trusted", "unauthorized_api"}
              /\ \A d \in log[<<"authorize", k>>] :
                   /\ d.code = "role_mismatch" => d.path = Path("caller_role")
                   /\ d.code = "missing_trust_binding" => d.path[3] = <<"checked_sources", 0>>
              /\ "role_mismatch" \in codes => codes \subseteq {"role_mismatch", "invalid_channel_binding"}
      /\ log[<<"validate", k>>] # None =>
           {d.code : d \in log[<<"validate", k>>]} \subseteq
             {"invalid_channel_binding", "request_id_mismatch", "invalid_status_body_combination",
              "request_response_api_mismatch"}
      BY DEF StagesAreDisjoint
    <2>1. ASSUME log[<<"authorize", k>>] # None
          PROVE  /\ \A d \in log[<<"authorize", k>>] :
                      /\ d.code \in {"role_mismatch", "invalid_channel_binding", "invalid_peer_identity",
                                     "missing_trust_binding", "peer_not_trusted", "unauthorized_api"}
                      /\ d.code = "role_mismatch" => d.path = Path("caller_role")
                      /\ d.code = "missing_trust_binding" => d.path[3] = <<"checked_sources", 0>>
                 /\ (\E d \in log[<<"authorize", k>>] : d.code = "role_mismatch") =>
                      \A d \in log[<<"authorize", k>>] : d.code \in {"role_mismatch", "invalid_channel_binding"}
      BY <2>1, AuthorizedCall, JudgedReports
    <2>2. ASSUME log[<<"validate", k>>] # None
          PROVE  {d.code : d \in log[<<"validate", k>>]} \subseteq
                   {"invalid_channel_binding", "request_id_mismatch", "invalid_status_body_combination",
                    "request_response_api_mismatch"}
      BY <2>2, ValidatedCall, ComparedReports
    <2> QED BY <2>1, <2>2
  <1> QED BY <1>1, InductiveInvariant, PTL

\* A response is accepted for exactly the requests it answers, whatever other
\* requests are outstanding.
THEOREM Answering == Spec => []AcceptedResponseAnswers
  <1>1. CallsAreDetermined => AcceptedResponseAnswers
    <2> SUFFICES ASSUME CallsAreDetermined, NEW k \in DOMAIN requests, log[<<"validate", k>>] # None
                 PROVE
      /\ log[<<"validate", k>>] = {} <=> /\ Answers(requests[k], response)
                                         /\ requests[k].auth_context.channel_id = contract.channel_id
      /\ ~({"invalid_status_body_combination", "request_response_api_mismatch"}
           \subseteq {d.code : d \in log[<<"validate", k>>]})
      /\ \A l \in DOMAIN requests :
           log[<<"validate", k>>] = {} /\ log[<<"validate", l>>] = {} =>
             /\ requests[l].request_id = requests[k].request_id
             /\ response.status = "ok" => requests[l].api_name = requests[k].api_name
      BY DEF AcceptedResponseAnswers
    <2>1. ASSUME NEW l \in DOMAIN requests, log[<<"validate", l>>] # None
          PROVE  /\ log[<<"validate", l>>] = {} <=> /\ Answers(requests[l], response)
                                                    /\ requests[l].auth_context.channel_id = contract.channel_id
                 /\ ~({"invalid_status_body_combination", "request_response_api_mismatch"}
                      \subseteq {d.code : d \in log[<<"validate", l>>]})
                 /\ requests[l].api_name \in ApiName
      <3>1. /\ BoundRequest(requests[l]) /\ WellFormedResponse(response)
            /\ log[<<"validate", l>>] = Compared(contract, requests[l], response)
        BY <2>1, ValidatedCall
      <3>2. requests[l].api_name \in ApiName
        BY <3>1 DEF BoundRequest, ProtectedRequestEnvelope
      <3> DEFINE c == contract
                 r == requests[l]
                 p == response
      <3> HIDE DEF c, r, p
      <3>3. BoundRequest(r) /\ WellFormedResponse(p)
        BY <3>1 DEF r, p
      <3>4. /\ Compared(c, r, p) = {} <=> Answers(r, p) /\ r.auth_context.channel_id = c.channel_id
            /\ ~({"invalid_status_body_combination", "request_response_api_mismatch"}
                 \subseteq {d.code : d \in Compared(c, r, p)})
        BY <3>3, ComparedIffAnswers
      <3> QED BY <3>1, <3>2, <3>4 DEF c, r, p
    <2>2. ASSUME NEW l \in DOMAIN requests, log[<<"validate", k>>] = {}, log[<<"validate", l>>] = {}
          PROVE  /\ requests[l].request_id = requests[k].request_id
                 /\ response.status = "ok" => requests[l].api_name = requests[k].api_name
      <3>1. /\ Answers(requests[k], response) /\ Answers(requests[l], response)
            /\ requests[k].api_name \in ApiName /\ requests[l].api_name \in ApiName
        BY <2>1, <2>2, AbsenceAssumption
      <3> QED BY <3>1, FamiliesDiffer DEF Answers
    <2> QED BY <2>1, <2>2
  <1> QED BY <1>1, InductiveInvariant, PTL
=============================================================================
