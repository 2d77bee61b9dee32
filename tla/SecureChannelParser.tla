------------------------- MODULE SecureChannelParser --------------------------
(***************************************************************************)
(* parse_secure_channel_contract, parse_security_module_contract,          *)
(* parse_protected_request_envelope and parse_protected_response_envelope, *)
(* on the tree of a JSON text. Each object X of the document has           *)
(* XDiagnostics, what is wrong with it, and XValue, what is read of it:    *)
(* None when a part it needs is missing. Diagnostics are collected to the  *)
(* end, and a document with one has no value.                              *)
(***************************************************************************)
EXTENDS ProtectedApi, FiniteSets

CONSTANTS
  WrongType,   \* a member of another JSON type than the expected one
  TextList,    \* the arrays of strings of the documents
  EntryList    \* the arrays of diagnostics of the documents

Json(S) == S \cup {None, WrongType}

-----------------------------------------------------------------------------
(* Documents *)

EntryDocument == [code : Json(Text), severity : Json(Text), path : Json(Text), message : Json(Text)]

ASSUME ListsAssumption ==
  /\ TextList \subseteq Seq(Text \cup {WrongType})
  /\ EntryList \subseteq Seq(EntryDocument \cup {WrongType})

IdentityDocument ==
  [role : Json(Text), device_id : Json(Text), certificate_fingerprint : Json(Text), subject_dn : Json(Text),
   san_dns_names : Json(TextList), san_uri_names : Json(TextList)]

RequirementsDocument ==
  [certificate_store_ref : Json(Text), required_decision : Json(Text), required_decision_reason : Json(Text),
   accepted_revocation_statuses : Json(TextList), required_checked_sources : Json(TextList)]

TrustDocument ==
  [subject_fingerprint : Json(Text), issuer_chain : Json(TextList), validation_time_utc : Json(Text),
   revocation_status : Json(Text), decision : Json(Text), decision_reason : Json(Text),
   checked_sources : Json(TextList)]

ContextDocument ==
  [channel_id : Json(Text), mutual_tls : Json(BOOLEAN), local_role : Json(Text),
   peer_trust : Json(TrustDocument), checked_sources : Json(TextList)]

PayloadDocument == [payload_type : Json(Text), schema_ref : Json(Text), body : Json([FieldName -> Json(Text)])]

RuleDocument == [caller_role : Json(Text), allowed_api_names : Json(TextList)]

ContractDocument ==
  [channel_id : Json(Text), server_role : Json(Text), client_role : Json(Text), tls_profile : Json(Text),
   trust_requirements : Json(RequirementsDocument), server_identity : Json(IdentityDocument),
   client_identity : Json(IdentityDocument), acl : Json(Seq(RuleDocument \cup {WrongType}))]

ModuleDocument ==
  [module_id : Json(Text), module_role : Json(Text), secure_channel_id : Json(Text),
   request_envelope_ref : Json(Text), response_envelope_ref : Json(Text),
   supported_api_names : Json(TextList), server_identity : Json(IdentityDocument)]

RequestDocument ==
  [request_id : Json(Text), api_name : Json(Text), caller_role : Json(Text),
   caller_identity : Json(IdentityDocument), auth_context : Json(ContextDocument),
   payload : Json(PayloadDocument)]

ResponseDocument ==
  [request_id : Json(Text), status : Json(Text), diagnostics : Json(EntryList), payload : Json(PayloadDocument)]

NoneIsNoSelection(lists) == \A v \in lists : \A among \in SUBSET DOMAIN v : None # {v[i] : i \in among}

\* An absent value is none of those that the parsers return.
ASSUME AbsenceAssumption ==
  /\ None # WrongType /\ None # {} /\ None \notin BOOLEAN
  /\ NoneIsNoSelection(TextList) /\ NoneIsNoSelection(EntryList)
  /\ None \notin PeerIdentity \cup TrustRequirements \cup TrustSummary \cup AuthContextSummary
                \cup AclRule \cup Seq(AclRule) \cup Body \cup PayloadContract
  /\ None \notin SecureChannelContract \cup SecurityModuleContract
                \cup ProtectedRequestEnvelope \cup ProtectedResponseEnvelope

-----------------------------------------------------------------------------
(* Members of an object *)

Present(v, path) ==
  Report("missing_field", path, v = None) \cup Report("invalid_type", path, v = WrongType)

RequiredString(v, path) == Present(v, path) \cup Report("invalid_value", path, v = Empty)

StringValue(v) == IF v \in {WrongType, Empty} THEN None ELSE v

RequiredEnum(v, legal, code, path) ==
  RequiredString(v, path) \cup Report(code, path, v \notin legal \cup {None, WrongType, Empty})

EnumValue(v, legal) == IF v \in legal THEN v ELSE None

RequiredFingerprint(v, path) ==
  RequiredString(v, path)
  \cup Report("invalid_fingerprint", path, v \notin Hex \cup {None, WrongType, Empty})

\* The mistake: the digits keep their case.
MutFingerprintValue(v) == IF v \in Hex THEN v ELSE None

FingerprintValue(v) == IF v \in Hex THEN LowerCopy[v] ELSE None

IsArray(v) == v \notin {None, WrongType}
Usable(v) == {i \in DOMAIN v : v[i] \notin {WrongType, Empty}}
Repeats(v, among) == {i \in among : \E j \in among : j < i /\ v[j] = v[i]}

\* The mistake: an array without items passes.
MutRequiredArray(v, path) ==
  IF ~IsArray(v) THEN Present(v, path)
  ELSE UNION {Report("invalid_type", Item(path, i), v[i] = WrongType)
              \cup Report("invalid_value", Item(path, i), v[i] = Empty) : i \in DOMAIN v}

RequiredArray(v, path) ==
  IF ~IsArray(v) THEN Present(v, path)
  ELSE (UNION {Report("invalid_type", Item(path, i), v[i] = WrongType)
               \cup Report("invalid_value", Item(path, i), v[i] = Empty) : i \in DOMAIN v})
       \cup Report("invalid_value", path, Usable(v) = {})

UniqueStrings(v, code, path) ==
  RequiredArray(v, path)
  \cup (IF IsArray(v) THEN UNION {Report(code, Item(path, i), TRUE) : i \in Repeats(v, Usable(v))} ELSE {})

ArrayValue(v) == IF ~IsArray(v) \/ Usable(v) = {} THEN None ELSE {v[i] : i \in Usable(v)}

Legal(v, legal) == {i \in Usable(v) : v[i] \in legal}

\* Repetitions are looked for among the items that are names of the enumeration.
UniqueEnums(v, legal, code, duplicate, path) ==
  RequiredArray(v, path)
  \cup (IF IsArray(v)
        THEN (UNION {Report(code, Item(path, i), TRUE) : i \in Usable(v) \ Legal(v, legal)})
             \cup (UNION {Report(duplicate, Item(path, i), TRUE) : i \in Repeats(v, Legal(v, legal))})
        ELSE {})

EnumsValue(v, legal) == IF ~IsArray(v) \/ Legal(v, legal) = {} THEN None ELSE {v[i] : i \in Legal(v, legal)}

\* The value of an object, if it has all its parts.
Complete(value) == IF \E part \in DOMAIN value : value[part] = None THEN None ELSE value

-----------------------------------------------------------------------------
(* The parts of contracts and envelopes *)

PeerIdentityDiagnostics(d, path) ==
  IF d \in {None, WrongType} THEN Present(d, path)
  ELSE RequiredEnum(d.role, PeerRole, "invalid_role", Member(path, "role"))
       \cup RequiredString(d.device_id, Member(path, "device_id"))
       \cup RequiredFingerprint(d.certificate_fingerprint, Member(path, "certificate_fingerprint"))
       \cup RequiredString(d.subject_dn, Member(path, "subject_dn"))
       \cup UniqueStrings(d.san_dns_names, "duplicate_san_entry", Member(path, "san_dns_names"))
       \cup UniqueStrings(d.san_uri_names, "duplicate_san_entry", Member(path, "san_uri_names"))

PeerIdentityValue(d) ==
  IF d \in {None, WrongType} THEN None
  ELSE Complete([role |-> EnumValue(d.role, PeerRole), device_id |-> StringValue(d.device_id),
                 certificate_fingerprint |-> FingerprintValue(d.certificate_fingerprint),
                 subject_dn |-> StringValue(d.subject_dn),
                 san_dns_names |-> ArrayValue(d.san_dns_names),
                 san_uri_names |-> ArrayValue(d.san_uri_names)])

TrustRequirementsDiagnostics(d, path) ==
  IF d \in {None, WrongType} THEN Present(d, path)
  ELSE RequiredString(d.certificate_store_ref, Member(path, "certificate_store_ref"))
       \cup RequiredEnum(d.required_decision, TrustDecision, "invalid_trust_decision",
                         Member(path, "required_decision"))
       \cup RequiredEnum(d.required_decision_reason, TrustDecisionReason, "invalid_trust_reason",
                         Member(path, "required_decision_reason"))
       \cup UniqueEnums(d.accepted_revocation_statuses, RevocationStatus, "invalid_revocation_status",
                        "duplicate_revocation_status", Member(path, "accepted_revocation_statuses"))
       \cup UniqueStrings(d.required_checked_sources, "duplicate_checked_source",
                          Member(path, "required_checked_sources"))

TrustRequirementsValue(d) ==
  IF d \in {None, WrongType} THEN None
  ELSE Complete([certificate_store_ref |-> StringValue(d.certificate_store_ref),
                 required_decision |-> EnumValue(d.required_decision, TrustDecision),
                 required_decision_reason |-> EnumValue(d.required_decision_reason, TrustDecisionReason),
                 accepted_revocation_statuses |-> EnumsValue(d.accepted_revocation_statuses, RevocationStatus),
                 required_checked_sources |-> ArrayValue(d.required_checked_sources)])

\* The issuer chain is sorted as well, but may repeat an issuer; nothing reads it.
TrustSummaryDiagnostics(d, path) ==
  IF d \in {None, WrongType} THEN Present(d, path)
  ELSE RequiredFingerprint(d.subject_fingerprint, Member(path, "subject_fingerprint"))
       \cup RequiredArray(d.issuer_chain, Member(path, "issuer_chain"))
       \cup RequiredEnum(d.validation_time_utc, UtcTimestamp, "invalid_time",
                         Member(path, "validation_time_utc"))
       \cup RequiredEnum(d.revocation_status, RevocationStatus, "invalid_revocation_status",
                         Member(path, "revocation_status"))
       \cup RequiredEnum(d.decision, TrustDecision, "invalid_trust_decision", Member(path, "decision"))
       \cup RequiredEnum(d.decision_reason, TrustDecisionReason, "invalid_trust_reason",
                         Member(path, "decision_reason"))
       \cup UniqueStrings(d.checked_sources, "duplicate_checked_source", Member(path, "checked_sources"))

TrustSummaryValue(d) ==
  IF d \in {None, WrongType} THEN None
  ELSE Complete([subject_fingerprint |-> FingerprintValue(d.subject_fingerprint),
                 issuer_chain |-> ArrayValue(d.issuer_chain),
                 validation_time_utc |-> EnumValue(d.validation_time_utc, UtcTimestamp),
                 revocation_status |-> EnumValue(d.revocation_status, RevocationStatus),
                 decision |-> EnumValue(d.decision, TrustDecision),
                 decision_reason |-> EnumValue(d.decision_reason, TrustDecisionReason),
                 checked_sources |-> ArrayValue(d.checked_sources)])

AuthContextDiagnostics(d, path) ==
  IF d \in {None, WrongType} THEN Present(d, path)
  ELSE RequiredString(d.channel_id, Member(path, "channel_id"))
       \cup Present(d.mutual_tls, Member(path, "mutual_tls"))
       \cup Report("invalid_channel_binding", Member(path, "mutual_tls"), d.mutual_tls = FALSE)
       \cup RequiredEnum(d.local_role, PeerRole, "invalid_role", Member(path, "local_role"))
       \cup TrustSummaryDiagnostics(d.peer_trust, Member(path, "peer_trust"))
       \cup UniqueStrings(d.checked_sources, "duplicate_checked_source", Member(path, "checked_sources"))

AuthContextValue(d) ==
  IF d \in {None, WrongType} THEN None
  ELSE Complete([channel_id |-> StringValue(d.channel_id),
                 mutual_tls |-> EnumValue(d.mutual_tls, {TRUE}),
                 local_role |-> EnumValue(d.local_role, PeerRole),
                 peer_trust |-> TrustSummaryValue(d.peer_trust),
                 checked_sources |-> ArrayValue(d.checked_sources)])

\* A member of the body that is not a string is reported and left out.
PayloadDiagnostics(d, path) ==
  IF d \in {None, WrongType} THEN Present(d, path)
  ELSE RequiredString(d.payload_type, Member(path, "payload_type"))
       \cup RequiredString(d.schema_ref, Member(path, "schema_ref"))
       \cup Present(d.body, Member(path, "body"))
       \cup (IF d.body \in {None, WrongType} THEN {}
             ELSE UNION {Report("invalid_type", Member(Member(path, "body"), field), d.body[field] = WrongType) :
                           field \in FieldName})

PayloadValue(d) ==
  IF d \in {None, WrongType} THEN None
  ELSE Complete([payload_type |-> StringValue(d.payload_type), schema_ref |-> StringValue(d.schema_ref),
                 body |-> IF d.body \in {None, WrongType} THEN None
                          ELSE [field \in FieldName |->
                                  IF d.body[field] = WrongType THEN None ELSE d.body[field]]])

AclRuleDiagnostics(d, path) ==
  IF d = WrongType THEN Present(d, path)
  ELSE RequiredEnum(d.caller_role, PeerRole, "invalid_role", Member(path, "caller_role"))
       \cup UniqueEnums(d.allowed_api_names, ApiName, "invalid_api_name", "duplicate_allowed_api_name",
                        Member(path, "allowed_api_names"))

AclRuleValue(d) ==
  IF d = WrongType THEN None
  ELSE Complete([caller_role |-> EnumValue(d.caller_role, PeerRole),
                 allowed_api_names |-> EnumsValue(d.allowed_api_names, ApiName)])

\* The rules that were read, in the order of the enumeration of roles. (Rules of
\* one role are ordered by their names in the code; a document with two such
\* rules is refused, and what is reported of it does not depend on their order.)
AclRules(d) ==
  LET read == {i \in DOMAIN d : AclRuleValue(d[i]) # None}
      Role(i) == AclRuleValue(d[i]).caller_role
      Before(i, j) == \/ Role(i) = "pi_zymkey" /\ Role(j) = "ubuntu_tpm"
                      \/ Role(i) = Role(j) /\ i < j
      place(i) == Cardinality({i} \cup {j \in read : Before(j, i)})
  IN [n \in 1..Cardinality(read) |-> AclRuleValue(d[CHOOSE i \in read : place(i) = n])]

AclValue(d) == IF d \in {None, WrongType} \/ AclRules(d) = <<>> THEN None ELSE AclRules(d)

\* The mistake: a role may have a second rule.
MutAclDiagnostics(d, path) ==
  IF d \in {None, WrongType} THEN Present(d, path)
  ELSE (UNION {AclRuleDiagnostics(d[i], Item(path, i)) : i \in DOMAIN d})
       \cup Report("invalid_acl_binding", path, AclRules(d) = <<>>)

AclDiagnostics(d, path) ==
  IF d \in {None, WrongType} THEN Present(d, path)
  ELSE LET Rule(i) == AclRuleValue(d[i])
           read == {i \in DOMAIN d : Rule(i) # None}
           again == {i \in read : \E j \in read : j < i /\ Rule(j).caller_role = Rule(i).caller_role}
       IN (UNION {AclRuleDiagnostics(d[i], Item(path, i)) : i \in DOMAIN d})
          \cup (UNION {Report("invalid_acl_binding", Member(Item(path, i), "caller_role"), TRUE) : i \in again})
          \cup Report("invalid_acl_binding", path, read = {})

-----------------------------------------------------------------------------
(* Documents. None stands for a text that is not JSON. *)

Unreadable(d) ==
  Report("json_malformed", <<>>, d = None) \cup Report("invalid_type", <<>>, d = WrongType)

\* make_parse_result: every diagnostic of this component is an error.
Parsed(diagnostics, value) == IF diagnostics = {} THEN value ELSE None

\* The mistake: only the server's identity is compared.
MutRoleMismatch(holder, role, path) ==
  Report("role_mismatch", path, holder # None /\ role = "pi_zymkey" /\ holder.role # role)

RoleMismatch(holder, role, path) ==
  Report("role_mismatch", path, holder # None /\ role # None /\ holder.role # role)

\* The rule numbers count the sorted rules that were read, not those of the
\* document.
AclBindingDiagnostics(acl, client_role) ==
  IF acl = None \/ client_role = None THEN {}
  ELSE LET foreign == {i \in DOMAIN acl : acl[i].caller_role # client_role}
       IN Report("invalid_acl_binding", Path("acl"), foreign = DOMAIN acl)
          \cup (UNION {Report("invalid_acl_binding", Member(Item(Path("acl"), i), "caller_role"), TRUE) :
                         i \in foreign})

ContractDiagnostics(d) ==
  IF d \in {None, WrongType} THEN Unreadable(d)
  ELSE LET server_role == EnumValue(d.server_role, PeerRole)
           client_role == EnumValue(d.client_role, PeerRole)
       IN RequiredString(d.channel_id, Path("channel_id"))
          \cup RequiredEnum(d.server_role, PeerRole, "invalid_role", Path("server_role"))
          \cup RequiredEnum(d.client_role, PeerRole, "invalid_role", Path("client_role"))
          \cup RequiredString(d.tls_profile, Path("tls_profile"))
          \cup TrustRequirementsDiagnostics(d.trust_requirements, Path("trust_requirements"))
          \cup PeerIdentityDiagnostics(d.server_identity, Path("server_identity"))
          \cup PeerIdentityDiagnostics(d.client_identity, Path("client_identity"))
          \cup AclDiagnostics(d.acl, Path("acl"))
          \cup Report("invalid_server_role", Path("server_role"), server_role = "ubuntu_tpm")
          \cup Report("invalid_client_role", Path("client_role"), client_role = "pi_zymkey")
          \cup RoleMismatch(PeerIdentityValue(d.server_identity), server_role,
                            Member(Path("server_identity"), "role"))
          \cup RoleMismatch(PeerIdentityValue(d.client_identity), client_role,
                            Member(Path("client_identity"), "role"))
          \cup AclBindingDiagnostics(AclValue(d.acl), client_role)

ContractValue(d) ==
  Complete([channel_id |-> StringValue(d.channel_id), tls_profile |-> StringValue(d.tls_profile),
            server_role |-> EnumValue(d.server_role, PeerRole),
            client_role |-> EnumValue(d.client_role, PeerRole),
            trust_requirements |-> TrustRequirementsValue(d.trust_requirements),
            server_identity |-> PeerIdentityValue(d.server_identity),
            client_identity |-> PeerIdentityValue(d.client_identity), acl |-> AclValue(d.acl)])

RequestDiagnostics(d) ==
  IF d \in {None, WrongType} THEN Unreadable(d)
  ELSE LET api == EnumValue(d.api_name, ApiName)
           caller == PeerIdentityValue(d.caller_identity)
           context == AuthContextValue(d.auth_context)
           payload == PayloadValue(d.payload)
           Of(name) == Member(Path("auth_context"), name)
       IN RequiredEnum(d.request_id, Uuid, "invalid_request_id", Path("request_id"))
          \cup RequiredEnum(d.api_name, ApiName, "invalid_api_name", Path("api_name"))
          \cup RequiredEnum(d.caller_role, PeerRole, "invalid_role", Path("caller_role"))
          \cup PeerIdentityDiagnostics(d.caller_identity, Path("caller_identity"))
          \cup AuthContextDiagnostics(d.auth_context, Path("auth_context"))
          \cup PayloadDiagnostics(d.payload, Path("payload"))
          \cup RoleMismatch(caller, EnumValue(d.caller_role, PeerRole), Member(Path("caller_identity"), "role"))
          \cup Report("role_mismatch", Of("local_role"), context # None /\ context.local_role # "pi_zymkey")
          \cup Report("missing_trust_binding", Member(Of("peer_trust"), "subject_fingerprint"),
                      /\ caller # None /\ context # None
                      /\ caller.certificate_fingerprint # context.peer_trust.subject_fingerprint)
          \cup (IF payload = None \/ api = None THEN {}
                ELSE RequestPayloadDiagnostics(api, payload, Path("payload")))

\* Validation puts fields of the body in lower case, in place.
Normalized(payload) ==
  IF payload = None \/ payload.payload_type \notin RequestFamily \cup ResponseFamily THEN payload
  ELSE [payload EXCEPT !.body = ValidatedBody(payload.payload_type, payload.body)]

IdentifierValue(v) == IF v \in Uuid THEN LowerCopy[v] ELSE None

RequestValue(d) ==
  Complete([request_id |-> IdentifierValue(d.request_id), api_name |-> EnumValue(d.api_name, ApiName),
            caller_role |-> EnumValue(d.caller_role, PeerRole),
            caller_identity |-> PeerIdentityValue(d.caller_identity),
            auth_context |-> AuthContextValue(d.auth_context),
            payload |-> Normalized(PayloadValue(d.payload))])

\* An entry of the diagnostics of a response; one with a defect is left out.
EntryDiagnostics(d, path) ==
  IF d = WrongType THEN Present(d, path)
  ELSE RequiredString(d.code, Member(path, "code"))
       \cup RequiredEnum(d.severity, {"error", "warning"}, "invalid_severity", Member(path, "severity"))
       \cup RequiredString(d.path, Member(path, "path"))
       \cup RequiredString(d.message, Member(path, "message"))

EntriesValue(v) ==
  IF ~IsArray(v) THEN {}
  ELSE {v[i] : i \in {j \in DOMAIN v : EntryDiagnostics(v[j], Path("diagnostics")) = {}}}

\* The diagnostics are compared with the status while parsing already.
DiagnosticsPresence(status, entries) ==
  Report("unexpected_response_diagnostics", Path("diagnostics"), status = "ok" /\ entries # {})
  \cup Report("missing_response_diagnostics", Path("diagnostics"), status \notin {None, "ok"} /\ entries = {})

ResponseDiagnostics(d) ==
  IF d \in {None, WrongType} THEN Unreadable(d)
  ELSE LET payload == PayloadValue(d.payload)
       IN RequiredEnum(d.request_id, Uuid, "invalid_request_id", Path("request_id"))
          \cup RequiredEnum(d.status, EnvelopeStatus, "invalid_status", Path("status"))
          \cup Present(d.diagnostics, Path("diagnostics"))
          \cup (IF IsArray(d.diagnostics)
                THEN UNION {EntryDiagnostics(d.diagnostics[i], Item(Path("diagnostics"), i)) : i \in DOMAIN d.diagnostics}
                ELSE {})
          \cup PayloadDiagnostics(d.payload, Path("payload"))
          \cup DiagnosticsPresence(EnumValue(d.status, EnvelopeStatus), EntriesValue(d.diagnostics))
          \cup (IF payload = None THEN {} ELSE ResponsePayloadDiagnostics(payload, None, Path("payload")))

ResponseValue(d) ==
  Complete([request_id |-> IdentifierValue(d.request_id), status |-> EnumValue(d.status, EnvelopeStatus),
            diagnostics |-> EntriesValue(d.diagnostics), payload |-> Normalized(PayloadValue(d.payload))])

BaselineRefs ==
  [secure_channel_id |-> "spb1.control.v1", request_envelope_ref |-> "protected_request.v1",
   response_envelope_ref |-> "protected_response.v1"]

ModuleDiagnostics(d) ==
  IF d \in {None, WrongType} THEN Unreadable(d)
  ELSE LET role == EnumValue(d.module_role, PeerRole)
       IN RequiredString(d.module_id, Path("module_id"))
          \cup RequiredEnum(d.module_role, PeerRole, "invalid_role", Path("module_role"))
          \cup RequiredEnum(d.secure_channel_id, {BaselineRefs.secure_channel_id},
                            "invalid_secure_channel_ref", Path("secure_channel_id"))
          \cup RequiredEnum(d.request_envelope_ref, {BaselineRefs.request_envelope_ref},
                            "invalid_request_envelope_ref", Path("request_envelope_ref"))
          \cup RequiredEnum(d.response_envelope_ref, {BaselineRefs.response_envelope_ref},
                            "invalid_response_envelope_ref", Path("response_envelope_ref"))
          \cup UniqueEnums(d.supported_api_names, ApiName, "invalid_api_name",
                           "duplicate_supported_api_name", Path("supported_api_names"))
          \cup PeerIdentityDiagnostics(d.server_identity, Path("server_identity"))
          \cup Report("invalid_server_role", Path("module_role"), role = "ubuntu_tpm")
          \cup RoleMismatch(PeerIdentityValue(d.server_identity), role,
                            Member(Path("server_identity"), "role"))

ModuleValue(d) ==
  Complete([module_id |-> StringValue(d.module_id), module_role |-> EnumValue(d.module_role, PeerRole),
            secure_channel_id |-> StringValue(d.secure_channel_id),
            request_envelope_ref |-> StringValue(d.request_envelope_ref),
            response_envelope_ref |-> StringValue(d.response_envelope_ref),
            supported_api_names |-> EnumsValue(d.supported_api_names, ApiName),
            server_identity |-> PeerIdentityValue(d.server_identity)])
=============================================================================
