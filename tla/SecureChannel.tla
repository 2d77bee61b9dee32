----------------------------- MODULE SecureChannel -----------------------------
(***************************************************************************)
(* The secure channel as its caller uses it: the contract of the channel   *)
(* and that of the module, the requests and a response are parsed, each    *)
(* request is authorized and the response is validated as the answer to a  *)
(* request. Each call is made at most once, as soon as the caller has its  *)
(* arguments, in any order; a call on a document that was refused is never *)
(* made. `log' keeps what each call reported.                              *)
(***************************************************************************)
EXTENDS SecureChannelParser

CONSTANT Sessions   \* the documents of a caller: one of each kind, and some requests

SessionDocuments ==
  [contract : Json(ContractDocument), module : Json(ModuleDocument),
   requests : Seq(Json(RequestDocument)), response : Json(ResponseDocument)]

ASSUME SessionsAssumption == Sessions \subseteq SessionDocuments

VARIABLES
  session,    \* the documents of this caller
  contract,   \* what parse_secure_channel_contract returned, None before
  module,     \* parse_security_module_contract
  requests,   \* parse_protected_request_envelope, for each request
  response,   \* parse_protected_response_envelope
  log         \* the diagnostics of each call, None before it

vars == <<session, contract, module, requests, response, log>>

\* A call has a name and the number of its request, 0 if it has none.
Calls(s) == ({"contract", "module", "response"} \X {0})
            \cup ({"request", "authorize", "validate"} \X DOMAIN s.requests)

-----------------------------------------------------------------------------
(* authorize_request *)

Differs(name, expected, actual) ==
  Report(IF name = "role" THEN "role_mismatch" ELSE "invalid_peer_identity",
         Member(Path("caller_identity"), name), expected[name] # actual[name])

\* The mistake: the fingerprint is not compared with the contract's.
MutIdentityBinding(expected, actual) ==
  UNION {Differs(name, expected, actual) : name \in DOMAIN expected \ {"certificate_fingerprint"}}

IdentityBinding(expected, actual) ==
  UNION {Differs(name, expected, actual) : name \in DOMAIN expected}

TrustBinding(requirements, trust) ==
  Report("peer_not_trusted", Member(Path("auth_context"), "peer_trust"),
         \/ trust.decision # requirements.required_decision
         \/ trust.decision_reason # requirements.required_decision_reason
         \/ trust.revocation_status \notin requirements.accepted_revocation_statuses)
  \cup Report("missing_trust_binding", Member(Member(Path("auth_context"), "peer_trust"), "checked_sources"),
         ~(requirements.required_checked_sources \subseteq trust.checked_sources))

\* The first rule of the caller's role decides.
ApiAllowed(acl, role, api) ==
  \E i \in DOMAIN acl : /\ acl[i].caller_role = role
                        /\ api \in acl[i].allowed_api_names
                        /\ \A j \in 1..(i - 1) : acl[j].caller_role # role

\* A caller of the wrong role is not compared with the client any further.
AuthorizeRequest(c, r) ==
  LET context == r.auth_context
      Of(name) == Member(Path("auth_context"), name)
      isClient == r.caller_role = c.client_role
  IN Report("role_mismatch", Path("caller_role"), ~isClient)
     \cup Report("role_mismatch", Of("local_role"), context.local_role # c.server_role)
     \cup Report("invalid_channel_binding", Of("channel_id"), context.channel_id # c.channel_id)
     \cup Report("invalid_channel_binding", Of("mutual_tls"), ~context.mutual_tls)
     \cup (IF ~isClient THEN {}
           ELSE IdentityBinding(c.client_identity, r.caller_identity)
                \cup Report("missing_trust_binding", Member(Of("peer_trust"), "subject_fingerprint"),
                            r.caller_identity.certificate_fingerprint # context.peer_trust.subject_fingerprint)
                \cup TrustBinding(c.trust_requirements, context.peer_trust)
                \cup Report("unauthorized_api", Path("api_name"),
                            ~ApiAllowed(c.acl, r.caller_role, r.api_name)))
     \cup RequestPayloadDiagnostics(r.api_name, r.payload, Path("payload"))

-----------------------------------------------------------------------------
(* validate_response *)

\* The mistake: the family is compared whatever the status.
MutApiMismatch(api, family, status) ==
  family \notin {None, "error_response"} /\ family # ResponseFamilyOf[api]

ApiMismatch(api, family, status) ==
  family \notin {None, "error_response"} /\ status = "ok" /\ family # ResponseFamilyOf[api]

ValidateResponse(c, r, p) ==
  Report("invalid_channel_binding", <<<<"request", 0>>, <<"auth_context", 0>>, <<"channel_id", 0>>>>,
         r.auth_context.channel_id # c.channel_id)
  \cup Report("request_id_mismatch", Path("request_id"), p.request_id # r.request_id)
  \cup ResponsePayloadDiagnostics(p.payload, p.status, Path("payload"))
  \cup Report("request_response_api_mismatch", Member(Path("payload"), "payload_type"),
              ApiMismatch(r.api_name, ResponseFamilyIn(p.payload), p.status))
  \cup DiagnosticsPresence(p.status, p.diagnostics)

-----------------------------------------------------------------------------
Init ==
  /\ session \in Sessions
  /\ contract = None /\ module = None /\ response = None
  /\ requests = [k \in DOMAIN session.requests |-> None]
  /\ log = [call \in Calls(session) |-> None]

Return(call, diagnostics) ==
  log[call] = None /\ log' = [log EXCEPT ![call] = diagnostics]

ParseContract ==
  LET diagnostics == ContractDiagnostics(session.contract)
  IN /\ Return(<<"contract", 0>>, diagnostics)
     /\ contract' = IF diagnostics = {} THEN ContractValue(session.contract) ELSE None
     /\ UNCHANGED <<session, module, requests, response>>

ParseModule ==
  LET diagnostics == ModuleDiagnostics(session.module)
  IN /\ Return(<<"module", 0>>, diagnostics)
     /\ module' = IF diagnostics = {} THEN ModuleValue(session.module) ELSE None
     /\ UNCHANGED <<session, contract, requests, response>>

ParseRequest(k) ==
  LET diagnostics == RequestDiagnostics(session.requests[k])
  IN /\ Return(<<"request", k>>, diagnostics)
     /\ requests' = [requests EXCEPT ![k] = IF diagnostics = {} THEN RequestValue(session.requests[k]) ELSE None]
     /\ UNCHANGED <<session, contract, module, response>>

ParseResponse ==
  LET diagnostics == ResponseDiagnostics(session.response)
  IN /\ Return(<<"response", 0>>, diagnostics)
     /\ response' = IF diagnostics = {} THEN ResponseValue(session.response) ELSE None
     /\ UNCHANGED <<session, contract, module, requests>>

Authorize(k) ==
  /\ contract # None /\ requests[k] # None
  /\ Return(<<"authorize", k>>, AuthorizeRequest(contract, requests[k]))
  /\ UNCHANGED <<session, contract, module, requests, response>>

Validate(k) ==
  /\ contract # None /\ requests[k] # None /\ response # None
  /\ Return(<<"validate", k>>, ValidateResponse(contract, requests[k], response))
  /\ UNCHANGED <<session, contract, module, requests, response>>

Next ==
  \/ ParseContract
  \/ ParseModule
  \/ ParseResponse
  \/ \E k \in DOMAIN session.requests : ParseRequest(k) \/ Authorize(k) \/ Validate(k)

Spec == Init /\ [][Next]_vars

-----------------------------------------------------------------------------
(* The types: whatever was parsed is an object of its kind, complete, its   *)
(* fingerprints and identifiers well formed and in lower case.              *)
TypeOK ==
  /\ contract \in SecureChannelContract \cup {None}
  /\ module \in SecurityModuleContract \cup {None}
  /\ requests \in [DOMAIN session.requests -> ProtectedRequestEnvelope \cup {None}]
  /\ response \in ProtectedResponseEnvelope \cup {None}
  /\ session \in SessionDocuments /\ DOMAIN log = Calls(session)

(* A call of a parser gives a value or says why not. The parsers give a     *)
(* part up in many places, and at each one something must have been         *)
(* reported: otherwise ok() is true of a result without a value, and the    *)
(* caller reads an empty optional.                                          *)
RefusalIsExplained ==
  /\ log[<<"contract", 0>>] = {} => contract # None
  /\ log[<<"module", 0>>] = {} => module # None
  /\ log[<<"response", 0>>] = {} => response # None
  /\ \A k \in DOMAIN requests : log[<<"request", k>>] = {} => requests[k] # None

(* A contract that parses is the baseline of SecureChannelContract.md: its  *)
(* roles are fixed, its identities have them, and its list has exactly one  *)
(* rule, for the client. Rules that were dropped, repeated or meant for the *)
(* server never leave a contract that grants something else.                *)
ParsedContractIsBaseline ==
  /\ contract # None =>
       /\ contract.server_role = "pi_zymkey" /\ contract.server_identity.role = "pi_zymkey"
       /\ contract.client_role = "ubuntu_tpm" /\ contract.client_identity.role = "ubuntu_tpm"
       /\ Len(contract.acl) = 1 /\ Len(session.contract.acl) = 1
       /\ contract.acl[1].caller_role = "ubuntu_tpm" /\ contract.acl[1].allowed_api_names # {}
  /\ module # None =>
       /\ module.module_role = "pi_zymkey" /\ module.server_identity.role = "pi_zymkey"
       /\ \A ref \in DOMAIN BaselineRefs : module[ref] = BaselineRefs[ref]

\* The trust context and the rights that SecureChannelContract.md asks of every
\* request.
Admissible(c, r) ==
  LET trust == r.auth_context.peer_trust
  IN /\ r.caller_role = c.client_role /\ r.caller_identity = c.client_identity
     /\ r.auth_context.channel_id = c.channel_id
     /\ r.auth_context.mutual_tls /\ r.auth_context.local_role = c.server_role
     /\ trust.subject_fingerprint = c.client_identity.certificate_fingerprint
     /\ trust.decision = c.trust_requirements.required_decision
     /\ trust.decision_reason = c.trust_requirements.required_decision_reason
     /\ trust.revocation_status \in c.trust_requirements.accepted_revocation_statuses
     /\ \A s \in c.trust_requirements.required_checked_sources : s \in trust.checked_sources
     /\ \E i \in DOMAIN c.acl : c.acl[i].caller_role = r.caller_role /\ r.api_name \in c.acl[i].allowed_api_names

(* Of the requests that parse, exactly those are authorized whose caller is *)
(* the client of the contract, over its channel, with the trust and the     *)
(* right it demands. The checks on local role, mutual TLS, fingerprints and *)
(* payload were done while parsing already, in another order and on values  *)
(* that were normalised since.                                              *)
AuthorizedIffAdmissible ==
  \A k \in DOMAIN requests :
    log[<<"authorize", k>>] # None => (log[<<"authorize", k>>] = {} <=> Admissible(contract, requests[k]))

(* What parsing has checked is not found wrong by the second stage: of a    *)
(* parsed request only the caller's role, the channel, the identity, the    *)
(* trust and the right can be refused, of a parsed response only what       *)
(* relates it to its request or its status to its family. And a caller of   *)
(* the wrong role is told nothing else about the contract than a wrong      *)
(* channel (caller_role_matches_contract).                                *)
StagesAreDisjoint ==
  \A k \in DOMAIN requests :
    /\ log[<<"authorize", k>>] # None =>
         LET codes == {d.code : d \in log[<<"authorize", k>>]}
         IN /\ codes \subseteq {"role_mismatch", "invalid_channel_binding", "invalid_peer_identity",
                                "missing_trust_binding", "peer_not_trusted", "unauthorized_api"}
            /\ \A d \in log[<<"authorize", k>>] :
                 /\ d.code = "role_mismatch" => d.path = Path("caller_role")
                 /\ d.code = "missing_trust_binding" => d.path[3] = <<"checked_sources", 0>>
            /\ "role_mismatch" \in codes => codes \subseteq {"role_mismatch", "invalid_channel_binding"}
    /\ log[<<"validate", k>>] # None =>
         {d.code : d \in log[<<"validate", k>>]} \subseteq
           {"invalid_channel_binding", "request_id_mismatch", "invalid_status_body_combination",
            "request_response_api_mismatch"}

\* The answers that ProtectedApiEnvelope.md allows to a request.
Answers(r, p) ==
  /\ p.request_id = r.request_id
  /\ IF p.status = "ok" THEN p.payload.payload_type = ResponseFamilyOf[r.api_name] /\ p.diagnostics = {}
     ELSE p.payload.payload_type = "error_response" /\ p.diagnostics # {}

(* A response is accepted for exactly the requests it answers, on the       *)
(* channel of the contract; with two requests outstanding, only for both if *)
(* they have one identifier and, unless it is a refusal, one API. By the    *)
(* precedence rule of ProtectedApiEnvelope.md a response whose status       *)
(* contradicts its family is not also said to be of another API.            *)
AcceptedResponseAnswers ==
  \A k \in DOMAIN requests :
    LET result == log[<<"validate", k>>]
    IN result # None =>
         /\ result = {} <=> /\ Answers(requests[k], response)
                            /\ requests[k].auth_context.channel_id = contract.channel_id
         /\ ~({"invalid_status_body_combination", "request_response_api_mismatch"}
              \subseteq {d.code : d \in result})
         /\ \A l \in DOMAIN requests :
              result = {} /\ log[<<"validate", l>>] = {} =>
                /\ requests[l].request_id = requests[k].request_id
                /\ response.status = "ok" => requests[l].api_name = requests[k].api_name

(* ProtectedApiEnvelope.md: parsing a response checks its members, their    *)
(* types, the identifier, the family, the schema and the body only; whether *)
(* diagnostics go with the status is for the second stage. A response that  *)
(* is refused is so for more than that.                                     *)
RefusedForMoreThanDiagnostics ==
  log[<<"response", 0>>] \notin {None, {}} =>
    \E d \in log[<<"response", 0>>] :
      d.code \notin {"unexpected_response_diagnostics", "missing_response_diagnostics"}
=============================================================================
