--------------------------- MODULE MCSecureChannel ---------------------------
(***************************************************************************)
(* Sessions on the baseline contract of host_spb1_contract.hpp with every  *)
(* member of each document wrong alone, with lists of rules of up to two   *)
(* rules, with requests that differ in role, channel, identity, trust and  *)
(* API, and with every pairing of a request, or of two requests, and a     *)
(* response.                                                               *)
(***************************************************************************)
EXTENDS SecureChannel

\* Two fingerprints, one of them in both cases; identifiers likewise.
MCHex == {"aa", "bb", "BB"}
MCUuid == {"id-1", "ID-1", "id-2"}
MCTime == {"2026-01-01T00:00:00Z"}
Others == {"x", "y", "roots", "crl", "text", "ok", "OK"} \union PeerRole
Refs == {BaselineRefs[r] : r \in DOMAIN BaselineRefs}
Types == RequestFamily \union ResponseFamily
Schemas == {SchemaRefFor[f] : f \in Types}
MCText == {""} \union MCHex \union MCUuid \union MCTime
          \union Others \union Refs \union Types \union Schemas
          \union ApiName \union TrustDecision \union TrustDecisionReason \union RevocationStatus
          \union EnvelopeStatus \union {"error", "warning"}
MCLowerCopy ==
  [t \in MCText |-> IF t = "BB" THEN "bb" ELSE IF t = "ID-1" THEN "id-1" ELSE IF t = "OK" THEN "ok" ELSE t]

-----------------------------------------------------------------------------
Bad == {None, WrongType, ""}

\* The document, and those with one member of it wrong.
Wrong(d, member, values) == {[d EXCEPT ![member] = v] : v \in values}

Identity(role, fingerprint) ==
  [role |-> role, device_id |-> "x", certificate_fingerprint |-> fingerprint, subject_dn |-> "x",
   san_dns_names |-> <<"x">>, san_uri_names |-> <<"x">>]

Client == Identity("ubuntu_tpm", "bb")
Server == Identity("pi_zymkey", "aa")

BadLists == {<<>>, <<"">>, <<WrongType>>, <<"x", "x">>, <<"x", "">>, <<"y", "x">>}
BadArrays == {None, WrongType} \union BadLists

Statuses == {<<"unknown", "good">>, <<"good", "good">>, <<"good", "x">>}
Sources == {<<"roots", "crl">>, <<"roots">>, <<"crl">>}
Apis == {<<"sign">>, <<"sign", "sign">>, <<"x", "sign">>, <<"health">>, <<"unwrap", "sign">>, <<"sign", "health">>,
         <<"sign", "unwrap", "health", "identity", "decrypt">>}
MCTextList == BadLists \union {<<"x">>, <<"good">>} \union Statuses \union Sources \union Apis

WrongIdentities(d) ==
  {None, WrongType}
  \union Wrong(d, "role", Bad \union {"x", "ubuntu_tpm", "pi_zymkey"})
  \union UNION {Wrong(d, f, Bad \union {"y"}) : f \in {"device_id", "subject_dn"}}
  \union Wrong(d, "certificate_fingerprint", Bad \union {"x", "aa", "BB"})
  \union UNION {Wrong(d, f, BadArrays) : f \in {"san_dns_names", "san_uri_names"}}

Requirements ==
  [certificate_store_ref |-> "x", required_decision |-> "trusted", required_decision_reason |-> "ok",
   accepted_revocation_statuses |-> <<"good">>, required_checked_sources |-> <<"roots">>]

WrongRequirements ==
  {None, WrongType}
  \union Wrong(Requirements, "certificate_store_ref", Bad)
  \union Wrong(Requirements, "required_decision", Bad \union {"x", "warning_only"})
  \union Wrong(Requirements, "required_decision_reason", Bad \union {"x", "revoked"})
  \union Wrong(Requirements, "accepted_revocation_statuses",
               BadArrays \union Statuses)
  \union Wrong(Requirements, "required_checked_sources", BadArrays \union {<<"roots", "crl">>})

Rule(role, apis) == [caller_role |-> role, allowed_api_names |-> apis]

Rules == {WrongType, Rule("x", <<"sign">>), Rule("ubuntu_tpm", <<>>), Rule("ubuntu_tpm", <<"sign", "sign">>),
          Rule("ubuntu_tpm", <<"x", "sign">>)}
         \union {Rule(role, apis) : role \in PeerRole, apis \in {<<"health">>, <<"unwrap", "sign">>}}

Contract ==
  [channel_id |-> "spb1.control.v1", server_role |-> "pi_zymkey", client_role |-> "ubuntu_tpm",
   tls_profile |-> "x", trust_requirements |-> Requirements, server_identity |-> Server,
   client_identity |-> Client, acl |-> <<Rule("ubuntu_tpm", <<"sign", "unwrap", "health", "identity", "decrypt">>)>>]

Contracts ==
  {None, WrongType, Contract}
  \union UNION {Wrong(Contract, f, Bad) : f \in {"channel_id", "tls_profile"}}
  \union UNION {Wrong(Contract, f, Bad \union {"x", "pi_zymkey", "ubuntu_tpm"}) : f \in {"server_role", "client_role"}}
  \union Wrong(Contract, "trust_requirements", WrongRequirements)
  \union Wrong(Contract, "server_identity", WrongIdentities(Server))
  \union Wrong(Contract, "client_identity", WrongIdentities(Client))
  \union Wrong(Contract, "acl", {None, WrongType, <<>>} \union [1..1 -> Rules] \union [1..2 -> Rules])

Module ==
  [module_id |-> "x", module_role |-> "pi_zymkey", secure_channel_id |-> "spb1.control.v1",
   request_envelope_ref |-> "protected_request.v1", response_envelope_ref |-> "protected_response.v1",
   supported_api_names |-> <<"sign", "health">>, server_identity |-> Server]

Modules ==
  {None, WrongType, Module}
  \union UNION {Wrong(Module, f, Bad \union {"x", "ubuntu_tpm"}) : f \in {"module_id", "module_role"} \union DOMAIN BaselineRefs}
  \union Wrong(Module, "supported_api_names", BadArrays \union {<<"sign", "sign">>, <<"x", "sign">>})
  \union Wrong(Module, "server_identity", WrongIdentities(Server))

-----------------------------------------------------------------------------
Trust ==
  [subject_fingerprint |-> "bb", issuer_chain |-> <<"x", "x">>, validation_time_utc |-> "2026-01-01T00:00:00Z",
   revocation_status |-> "good", decision |-> "trusted", decision_reason |-> "ok",
   checked_sources |-> <<"roots", "crl">>]

WrongTrust ==
  {None, WrongType}
  \union Wrong(Trust, "subject_fingerprint", Bad \union {"x", "aa", "BB"})
  \union Wrong(Trust, "issuer_chain", BadArrays)
  \union Wrong(Trust, "validation_time_utc", Bad \union {"x"})
  \union {[Trust EXCEPT !.revocation_status = s, !.decision = t, !.decision_reason = r] :
            s \in {"good", "unknown", "x", None}, t \in {"trusted", "warning_only", "x"}, r \in {"ok", "revoked", ""}}
  \union Wrong(Trust, "checked_sources", BadArrays \union {<<"crl">>, <<"roots">>})

Context ==
  [channel_id |-> "spb1.control.v1", mutual_tls |-> TRUE, local_role |-> "pi_zymkey", peer_trust |-> Trust,
   checked_sources |-> <<"x">>]

WrongContexts ==
  {None, WrongType}
  \union Wrong(Context, "channel_id", Bad \union {"y"})
  \union Wrong(Context, "mutual_tls", {None, WrongType, FALSE})
  \union Wrong(Context, "local_role", Bad \union {"x", "ubuntu_tpm"})
  \union Wrong(Context, "peer_trust", WrongTrust)
  \union Wrong(Context, "checked_sources", BadArrays)

MCFieldName == UNION {AllowedFields(family) : family \in Types} \union {"other"}

Payload(family, body) == [payload_type |-> family, schema_ref |-> SchemaRefFor[family], body |-> body]

\* Texts that pass as any field.
Value(field) ==
  CASE field \in {"key_fingerprint", "certificate_fingerprint"} -> "BB"
    [] field = "module_role" -> "pi_zymkey"
    [] field = "module_status" -> "OK"
    [] OTHER -> "text"

Full(family) ==
  Payload(family, [f \in MCFieldName |-> IF f \in AllowedFields(family) THEN Value(f) ELSE None])

WrongPayloads(family) ==
  LET body == Full(family).body
      fields == AllowedFields(family)
  IN {None, WrongType, Full(family), [Full(family) EXCEPT !.schema_ref = "x"], [Full(family) EXCEPT !.body = WrongType]}
     \union {Payload(family, [body EXCEPT ![g] = v]) : g \in fields, v \in {None, "", WrongType, "x"}}
     \union {Payload(family, [body EXCEPT !["other"] = v]) : v \in {"x", WrongType}}

Request(id, api) ==
  [request_id |-> id, api_name |-> api, caller_role |-> "ubuntu_tpm", caller_identity |-> Client,
   auth_context |-> Context, payload |-> Full(RequestFamilyOf[api])]

\* A caller that names the server as itself throughout.
Posing == [Request("id-1", "sign") EXCEPT !.caller_role = "pi_zymkey", !.caller_identity.role = "pi_zymkey"]

Requests ==
  {None, WrongType, Posing, [Posing EXCEPT !.auth_context.channel_id = "y"]}
  \union {Request("id-1", api) : api \in ApiName}
  \union {[Request("id-1", api) EXCEPT !.payload = p] : api \in {"sign"}, p \in {Full(f) : f \in Types}}
  \union UNION {Wrong(Request("id-1", api), "payload", WrongPayloads(RequestFamilyOf[api])) : api \in ApiName}
  \union Wrong(Request("id-1", "sign"), "request_id", Bad \union {"x", "ID-1"})
  \union Wrong(Request("id-1", "sign"), "api_name", Bad \union {"x"})
  \union Wrong(Request("id-1", "sign"), "caller_role", Bad \union {"x", "pi_zymkey"})
  \union Wrong(Request("id-1", "sign"), "caller_identity", WrongIdentities(Client))
  \union Wrong(Request("id-1", "sign"), "auth_context", WrongContexts)

Entry == [code |-> "x", severity |-> "error", path |-> "x", message |-> "x"]
Entries == UNION {Wrong(Entry, f, Bad \union {"warning"}) : f \in DOMAIN Entry}
EntryLists == {<<WrongType>>, <<WrongType, Entry>>} \union {<<e>> : e \in Entries}
MCEntryList == EntryLists \union {<<>>, <<Entry>>}

Response(id, status, entries, payload) ==
  [request_id |-> id, status |-> status, diagnostics |-> entries, payload |-> payload]

Pairings ==
  {Response(id, status, entries, Full(family)) : id \in {"id-1", "id-2"}, status \in EnvelopeStatus,
     entries \in {<<>>, <<Entry>>}, family \in {"sign_response", "unwrap_response", "error_response"}}

Responses ==
  {None, WrongType}
  \union UNION {Wrong(Response("id-1", "ok", <<>>, p), "request_id", {"id-1"}) :
                  p \in UNION {WrongPayloads(f) : f \in ResponseFamily \ {"error_response"}}}
  \union {Response("id-1", "denied", <<Entry>>, p) : p \in WrongPayloads("error_response") \union {Full("sign_request")}}
  \union Wrong(Response("id-1", "ok", <<>>, Full("sign_response")), "request_id", Bad \union {"x", "ID-1"})
  \union Wrong(Response("id-1", "ok", <<>>, Full("sign_response")), "status", Bad \union {"x"})
  \union Wrong(Response("id-1", "error", <<>>, Full("error_response")), "diagnostics",
               {None, WrongType} \union EntryLists)

-----------------------------------------------------------------------------
Session(c, m, rs, p) == [contract |-> c, module |-> m, requests |-> rs, response |-> p]
Answer == Response("id-1", "ok", <<>>, Full("sign_response"))

MCSessions ==
  {Session(c, None, <<Request("id-1", "sign")>>, None) : c \in Contracts}
  \union {Session(None, m, <<>>, None) : m \in Modules}
  \union {Session(Contract, None, <<r>>, Answer) : r \in Requests}
  \union {Session(Contract, None, <<Request("id-1", api)>>, p) : api \in {"sign", "identity"}, p \in Responses}
  \union {Session(Contract, None, <<Request("ID-1", "sign"), Request(id, api)>>, p) :
            id \in {"id-1", "id-2"}, api \in {"sign", "unwrap"}, p \in Pairings}
=============================================================================
