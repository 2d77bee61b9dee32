---------------------------- MODULE ProtectedApi -----------------------------
(***************************************************************************)
(* The objects of the secure channel between the host (ubuntu_tpm) and the *)
(* security module (pi_zymkey), and the rules for the payload of a request *)
(* or of a response: which family belongs to which API, and which fields   *)
(* the body of each family has. Both stages, parsing and checking, apply   *)
(* these rules.                                                            *)
(*                                                                         *)
(* Vectors that the parser sorts and keeps free of repetitions are sets.   *)
(* A definition whose name starts with Mut is a plausible mistake in the   *)
(* definition after it.                                                    *)
(***************************************************************************)
EXTENDS Naturals, Sequences

CONSTANTS
  Text,          \* the strings of the documents
  Empty,         \* the empty one
  LowerCopy,     \* lower_copy, a function on Text
  Hex,           \* strings of hexadecimal digits, in either case
  Uuid,          \* strings with the form of a UUID, in either case
  UtcTimestamp,  \* strings with the form of a time
  FieldName,     \* the names that members of a body have in the documents
  None           \* an empty std::optional, or an absent member

ASSUME TextAssumption ==
  /\ Hex \cup Uuid \cup UtcTimestamp \subseteq Text \ {Empty}
  /\ Empty \in Text /\ None \notin Text
  /\ LowerCopy \in [Text -> Text]
  /\ \A t \in Text : /\ LowerCopy[LowerCopy[t]] = LowerCopy[t]
                     /\ t = Empty <=> LowerCopy[t] = Empty
                     /\ t \in Hex <=> LowerCopy[t] \in Hex
                     /\ t \in Uuid <=> LowerCopy[t] \in Uuid

PeerRole == {"pi_zymkey", "ubuntu_tpm"}
ApiName == {"sign", "unwrap", "decrypt", "health", "identity"}
TrustDecision == {"trusted", "rejected", "warning_only"}
TrustDecisionReason == {"ok", "anchor_missing", "expired", "not_yet_valid", "revoked",
                        "chain_broken", "algorithm_forbidden", "revocation_unavailable"}
RevocationStatus == {"good", "revoked", "unknown", "not_checked"}
EnvelopeStatus == {"ok", "denied", "error"}

LowerCase(S) == {t \in S : LowerCopy[t] = t}

PeerIdentity ==
  [role : PeerRole, device_id : Text, certificate_fingerprint : LowerCase(Hex), subject_dn : Text,
   san_dns_names : SUBSET Text, san_uri_names : SUBSET Text]

TrustRequirements ==
  [certificate_store_ref : Text, required_decision : TrustDecision,
   required_decision_reason : TrustDecisionReason,
   accepted_revocation_statuses : SUBSET RevocationStatus, required_checked_sources : SUBSET Text]

TrustSummary ==
  [subject_fingerprint : LowerCase(Hex), issuer_chain : SUBSET Text, validation_time_utc : UtcTimestamp,
   revocation_status : RevocationStatus, decision : TrustDecision,
   decision_reason : TrustDecisionReason, checked_sources : SUBSET Text]

AuthContextSummary ==
  [channel_id : Text, mutual_tls : BOOLEAN, local_role : PeerRole, peer_trust : TrustSummary,
   checked_sources : SUBSET Text]

AclRule == [caller_role : PeerRole, allowed_api_names : SUBSET ApiName]

SecureChannelContract ==
  [channel_id : Text, server_role : PeerRole, client_role : PeerRole, tls_profile : Text,
   trust_requirements : TrustRequirements, server_identity : PeerIdentity,
   client_identity : PeerIdentity, acl : Seq(AclRule)]

SecurityModuleContract ==
  [module_id : Text, module_role : PeerRole, secure_channel_id : Text, request_envelope_ref : Text,
   response_envelope_ref : Text, supported_api_names : SUBSET ApiName,
   server_identity : PeerIdentity]

-----------------------------------------------------------------------------
(* Payload families *)

RequestFamilyOf ==
  [sign |-> "sign_request", unwrap |-> "unwrap_request", decrypt |-> "decrypt_request",
   health |-> "health_request", identity |-> "identity_request"]

ResponseFamilyOf ==
  [sign |-> "sign_response", unwrap |-> "unwrap_response", decrypt |-> "decrypt_response",
   health |-> "health_response", identity |-> "identity_response"]

RequestFamily == {RequestFamilyOf[api] : api \in ApiName}
ResponseFamily == {ResponseFamilyOf[api] : api \in ApiName} \cup {"error_response"}

SchemaRefFor ==
  [sign_request     |-> "spb1.sign.request.v1",     sign_response     |-> "spb1.sign.response.v1",
   unwrap_request   |-> "spb1.unwrap.request.v1",   unwrap_response   |-> "spb1.unwrap.response.v1",
   decrypt_request  |-> "spb1.decrypt.request.v1",  decrypt_response  |-> "spb1.decrypt.response.v1",
   health_request   |-> "spb1.health.request.v1",   health_response   |-> "spb1.health.response.v1",
   identity_request |-> "spb1.identity.request.v1", identity_response |-> "spb1.identity.response.v1",
   error_response   |-> "spb1.error.response.v1"]

RequiredFields ==
  [sign_request     |-> {"manifest_hash", "metadata_summary"},
   unwrap_request   |-> {"wrapped_key_ref", "wrapping_key_slot"},
   decrypt_request  |-> {"ciphertext_ref", "context_summary"},
   health_request   |-> {},
   identity_request |-> {},
   sign_response    |-> {"signature", "pubkey"},
   unwrap_response  |-> {"key_handle"},
   decrypt_response |-> {"result_handle"},
   health_response  |-> {"module_status"},
   identity_response |-> {"module_id", "module_role", "certificate_fingerprint"},
   error_response   |-> {"error_code", "error_summary"}]

OptionalFields ==
  [sign_request     |-> {"key_slot"},
   unwrap_request   |-> {"unwrap_context"},
   decrypt_request  |-> {"output_handle"},
   health_request   |-> {},
   identity_request |-> {},
   sign_response    |-> {"key_fingerprint"},
   unwrap_response  |-> {"unwrap_receipt"},
   decrypt_response |-> {"operation_note"},
   health_response  |-> {"status_summary"},
   identity_response |-> {"subject_dn"},
   error_response   |-> {}]

AllowedFields(family) == RequiredFields[family] \cup OptionalFields[family]

ASSUME FieldsAssumption == \A family \in DOMAIN RequiredFields : AllowedFields(family) \subseteq FieldName

\* A body gives the text of each field it has; which fields it may have is a rule
\* of its family, not of its type.
Body == [FieldName -> Text \cup {None}]

Fields(body) == {field \in FieldName : body[field] # None}

PayloadContract == [payload_type : Text, schema_ref : Text, body : Body]

ProtectedRequestEnvelope ==
  [request_id : LowerCase(Uuid), api_name : ApiName, caller_role : PeerRole,
   caller_identity : PeerIdentity, auth_context : AuthContextSummary, payload : PayloadContract]

\* The diagnostics of the other side.
Diagnostic == [code : Text, severity : {"error", "warning"}, path : Text, message : Text]

ProtectedResponseEnvelope ==
  [request_id : LowerCase(Uuid), status : EnvelopeStatus, diagnostics : SUBSET Diagnostic,
   payload : PayloadContract]

-----------------------------------------------------------------------------
(* The rules. A diagnostic has a code and a path; a path is a sequence of   *)
(* member names, each with the number of the array item, 0 if it is none.  *)
(* Diagnostics that differ in their message only are one.                  *)

Path(name) == <<<<name, 0>>>>
Member(path, name) == Append(path, <<name, 0>>)
Item(path, i) == [path EXCEPT ![Len(path)] = <<path[Len(path)][1], i>>]

Report(code, path, failed) == IF failed THEN {[code |-> code, path |-> path]} ELSE {}

\* The fields that are put in lower case before they are looked at.
LoweredFields == {"manifest_hash", "error_code", "key_fingerprint", "certificate_fingerprint",
                  "module_role", "module_status"}

ValidatedBody(family, body) ==
  [field \in FieldName |->
     IF field \in LoweredFields \cap AllowedFields(family) \cap Fields(body) THEN LowerCopy[body[field]]
     ELSE body[field]]

\* What one field of a body, in lower case where that applies, may not be.
MalformedField(field, value) ==
  \/ value = Empty
  \/ field \in {"key_fingerprint", "certificate_fingerprint"} /\ value \notin Hex
  \/ field = "module_role" /\ value # "pi_zymkey"
  \/ field = "module_status" /\ value \notin {"ok", "degraded", "maintenance"}

BodyDiagnostics(family, body, path) ==
  LET At(field) == Member(Member(path, "body"), field)
      Malformed(field) == MalformedField(field, ValidatedBody(family, body)[field])
      code == IF family \in RequestFamily THEN "invalid_request_body" ELSE "invalid_response_body"
  IN (UNION {Report("missing_required_field", At(field), field \notin Fields(body)) :
               field \in RequiredFields[family]})
     \cup (UNION {Report("unexpected_field", At(field), field \notin AllowedFields(family)) :
                    field \in Fields(body)})
     \cup (UNION {Report(code, At(field), Malformed(field)) :
                    field \in Fields(body) \cap AllowedFields(family)})

\* validate_request_payload_contract stops at the first of these three defects.
RequestPayloadDiagnostics(api, payload, path) ==
  IF payload.payload_type # RequestFamilyOf[api]
  THEN Report("invalid_payload_contract", Member(path, "payload_type"), TRUE)
  ELSE IF payload.schema_ref # SchemaRefFor[RequestFamilyOf[api]]
  THEN Report("invalid_payload_contract", Member(path, "schema_ref"), TRUE)
  ELSE BodyDiagnostics(RequestFamilyOf[api], payload.body, path)

\* The family of a response's payload, or None.
ResponseFamilyIn(payload) ==
  IF /\ payload.payload_type \in ResponseFamily
     /\ payload.schema_ref = SchemaRefFor[payload.payload_type]
  THEN payload.payload_type ELSE None

\* Without a status the pair is not enforced.
ResponsePayloadDiagnostics(payload, status, path) ==
  IF payload.payload_type \notin ResponseFamily
  THEN Report("invalid_payload_contract", Member(path, "payload_type"), TRUE)
  ELSE IF payload.schema_ref # SchemaRefFor[payload.payload_type]
  THEN Report("invalid_payload_contract", Member(path, "schema_ref"), TRUE)
  ELSE Report("invalid_status_body_combination", Member(path, "payload_type"),
              status # None /\ (status = "ok" <=> payload.payload_type = "error_response"))
       \cup BodyDiagnostics(payload.payload_type, payload.body, path)
=============================================================================
