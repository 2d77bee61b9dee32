--------------------------- MODULE MCAuditExport ----------------------------
(***************************************************************************)
(* Documents for AuditExport, in four families: every story of up to four  *)
(* tamper events, every order of three events by time and id, an event     *)
(* with one member wrong before a sound one, and a header with one member  *)
(* wrong. Identifiers end in A, B, a, b, c, d (in byte order) or, for 7,   *)
(* in a letter that is not hexadecimal; instant 9 is not a timestamp.      *)
(***************************************************************************)
EXTENDS AuditExport

MCIdentifier == 1 .. 7
MCUuid == 1 .. 6
MCLowerCopy == [i \in MCIdentifier |-> CASE i = 1 -> 3 [] i = 2 -> 4 [] i > 2 -> i]
MCInstant == {1, 2, 3, 4, 9}
MCUtcTimestamp == {1, 2, 3, 4}

Sound == [role |-> "known", device_id |-> "text", certificate_fingerprint |-> "lower_hex"]
Filled == [content |-> "text"]

MakeEvent(type, id, time) ==
  [event_id |-> id, event_type |-> type, severity |-> "known", event_time_utc |-> time,
   producer_role |-> "known", actor_identity |-> Sound, peer_identity |-> Sound,
   correlation_id |-> None, request_id |-> 5, export_id_ref |-> 3, payload_metadata |-> "strings",
   decision_summary |-> Filled, result_summary |-> Filled]

MakeDocument(list) ==
  [export_id |-> 3, export_time_utc |-> 1, events |-> list,
   ordering |-> [ordered_by |-> "event_time_utc,event_id", direction |-> "ascending"],
   export_metadata |-> [completeness |-> "known", export_reason |-> "text", source_channel_id |-> "text"],
   integrity_metadata |-> [placeholder_type |-> "none", placeholder_ref |-> None]]

Stories == UNION {[1 .. n -> TamperType \cup {"trust_peer_validated"}] : n \in 0 .. 4}

StoryDocuments ==
  {MakeDocument([k \in DOMAIN s |-> MakeEvent(s[k], k + 2, k)]) : s \in Stories}

OrderDocuments ==
  {MakeDocument(<<MakeEvent("trust_peer_validated", p[1], p[2]), MakeEvent("tamper_detected", q[1], q[2]),
                  MakeEvent("tamper_lockout", r[1], r[2])>>) :
     p, q, r \in {1, 3, 4} \X {1, 2}}

BadIdentities ==
  {None, WrongType} \cup
  {[Sound EXCEPT !.role = v] : v \in {None, WrongType, "unsupported"}} \cup
  {[Sound EXCEPT !.device_id = v] : v \in {None, WrongType, "empty"}} \cup
  {[Sound EXCEPT !.certificate_fingerprint = v] : v \in {None, WrongType, "other"}}

BadSummaries == {None, WrongType} \cup {[content |-> v] : v \in {None, WrongType, "empty"}}

Variants(e) ==
  {[e EXCEPT !.event_id = v] : v \in {None, WrongType, 1, 4, 7}} \cup
  {[e EXCEPT !.event_type = v] : v \in {None, WrongType, "unsupported"}} \cup
  {[e EXCEPT !.severity = v] : v \in {None, WrongType, "unsupported"}} \cup
  {[e EXCEPT !.event_time_utc = v] : v \in {None, WrongType, 9}} \cup
  {[e EXCEPT !.producer_role = v] : v \in {None, WrongType, "unsupported"}} \cup
  {[e EXCEPT !.correlation_id = v] : v \in {WrongType, "empty"}} \cup
  {[e EXCEPT !.request_id = v, !.actor_identity = w] : v \in {None, WrongType, 1, 7}, w \in {None, Sound}} \cup
  {[e EXCEPT !.export_id_ref = v] : v \in {None, WrongType, 1, 5, 7}} \cup
  {[e EXCEPT !.payload_metadata = v] : v \in {None, WrongType, "mixed"}} \cup
  {[e EXCEPT !.actor_identity = v] : v \in BadIdentities} \cup
  {[e EXCEPT !.peer_identity = v] : v \in BadIdentities} \cup
  {[e EXCEPT !.decision_summary = v] : v \in BadSummaries} \cup
  {[e EXCEPT !.result_summary = v] : v \in BadSummaries}

EventDocuments ==
  {MakeDocument(<<e, MakeEvent("recovery_started", 4, 4)>>) :
     e \in UNION {Variants(MakeEvent(type, 3, 1)) : type \in EventType}} \cup
  {MakeDocument(<<WrongType, MakeEvent("recovery_started", 4, 4)>>)}

HeaderDocuments ==
  UNION {LET d == MakeDocument(list) IN
         {[d EXCEPT !.export_id = v] : v \in {None, WrongType, 1, 5, 7}} \cup
         {[d EXCEPT !.export_time_utc = v] : v \in {None, WrongType, 9}} \cup
         {[d EXCEPT !.events = v] : v \in {None, WrongType}} \cup
         {[d EXCEPT !.ordering = v] : v \in {None, WrongType} \cup
            [ordered_by : Json(OrderedBy), direction : Json(Direction)]} \cup
         {[d EXCEPT !.export_metadata = v] : v \in {None, WrongType} \cup
            [completeness : Json(Enumeration), export_reason : {None, "empty"}, source_channel_id : {WrongType, "text"}]} \cup
         {[d EXCEPT !.integrity_metadata = v] : v \in {None, WrongType} \cup
            [placeholder_type : Json(PlaceholderType), placeholder_ref : Json(Text)]} :
         list \in {<<>>, <<MakeEvent("tamper_detected", 3, 1)>>, <<MakeEvent("recovery_failed", 3, 1)>>}}

MCDocuments == {None, WrongType} \cup StoryDocuments \cup OrderDocuments \cup EventDocuments \cup HeaderDocuments
=============================================================================
