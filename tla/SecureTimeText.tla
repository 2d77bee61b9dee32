--------------------------- MODULE SecureTimeText ---------------------------
(***************************************************************************)
(* Secure clock policies and secure time statuses as JSON texts: how they  *)
(* are parsed (parse_secure_clock_policy, parse_secure_time_status), how   *)
(* they are written (to_json), and a caller that parses one of each and    *)
(* hands what it got to the gate of SecureTimeGate. Callers that build the *)
(* two objects themselves enter at the gate.                               *)
(*                                                                         *)
(* The gate asks of clock_id only whether it is empty, never reads         *)
(* source_role and reads the two times as numbers: GatePolicy and          *)
(* GateStatus make its view of a parsed object.                            *)
(***************************************************************************)
EXTENDS SecureTimeGate, JsonReader

CONSTANTS
  Texts,   \* pairs of texts a caller parses: records [policy, status]
  Times    \* the numbers of the texts that have the form of a timestamp

ASSUME TimesAssumption == \A text \in DOMAIN Times : Times[text] \in Timestamp

VARIABLES
  texts,    \* the two texts, or None
  parsed,   \* the two ParseResults, None before they are there
  stage     \* where the caller is

textVars == <<texts, parsed, stage>>

-----------------------------------------------------------------------------
(* Members. A member gives at most one diagnostic, but for the items of an  *)
(* array; index is the position of the item, 0 for the member itself.       *)

ErrAtItem(code, name, index) == [code |-> code, path |-> <<name, index>>]

ErrAt(code, name) == ErrAtItem(code, name, 0)

Field(root, name) == FindField(root, <<Plain(name)>>)

\* The name that a string spells; "" is none.
NameOf(v) ==
  IF Is("string", v) /\ Len(v.string) = 1 THEN v.string[1].run ELSE ""

Reads(root, name, required, type, Legal(_), code) ==
  LET field == Field(root, name) IN
  IF field = Nothing THEN Reports(required, ErrAt("missing_required_time_field", name))
  ELSE IF ~required /\ field = Null THEN {}
  ELSE IF ~Is(type, field) THEN {ErrAt("invalid_type", name)}
  ELSE Reports(~Legal(field), ErrAt(code, name))

ReadsString(root, name)  == Reads(root, name, TRUE, "string", LAMBDA v : TRUE, "")
ReadsTime(root, name)    == Reads(root, name, FALSE, "string", LAMBDA v : TRUE, "")
ReadsBoolean(root, name) == Reads(root, name, TRUE, "boolean", LAMBDA v : TRUE, "")

ReadsInteger(root, name, required) ==
  Reads(root, name, required, "number", LAMBDA v : v.number >= 0, "invalid_value")

ReadsEnum(root, name, names) ==
  Reads(root, name, TRUE, "string", LAMBDA v : NameOf(v) \in names,
        IF name = "time_source" THEN "invalid_time_source" ELSE "invalid_value")

\* The sources an array names, in its order. Items that name none are left out,
\* and so are not counted as duplicates.
Sources(items) ==
  LET named[n \in 0 .. Len(items)] ==
        IF n = 0 THEN <<>>
        ELSE IF NameOf(items[n]) \in TimeSource THEN Append(named[n - 1], NameOf(items[n]))
        ELSE named[n - 1]
  IN named[Len(items)]

ItemDiagnostics(items, name) ==
  UNION {LET item == items[i]
         IN IF ~Is("string", item) THEN {ErrAtItem("invalid_type", name, i)}
            ELSE Reports(NameOf(item) \notin TimeSource, ErrAtItem("invalid_time_source", name, i)) :
         i \in DOMAIN items}

ReadsSources(root, name) ==
  Reads(root, name, TRUE, "array", LAMBDA v : IsInjective(Sources(v.array)), "invalid_value")
  \union IF Is("array", Field(root, name)) THEN ItemDiagnostics(Field(root, name).array, name) ELSE {}

\* The sources of a parsed policy have the order of the enumeration.
SourceOrder == <<"rtc_secure", "rtc_untrusted", "imported_secure_time",
                 "operator_set_time_placeholder", "unknown">>

Sorted(sources) ==
  LET sorted[n \in 0 .. Len(SourceOrder)] ==
        IF n = 0 THEN <<>>
        ELSE IF SourceOrder[n] \in Range(sources) THEN Append(sorted[n - 1], SourceOrder[n])
        ELSE sorted[n - 1]
  IN sorted[Len(SourceOrder)]

OptionalText(root, name) ==
  IF Is("string", Field(root, name)) THEN Field(root, name).string ELSE None

-----------------------------------------------------------------------------
(* Objects *)

TimeOf(text) ==
  IF text = None THEN None
  ELSE IF text \in DOMAIN Times THEN Times[text]
  ELSE [year |-> 0, month |-> 0, day |-> 0, hour |-> 0, minute |-> 0, second |-> 0]   \* no date

GatePolicy(p) == [p EXCEPT !.clock_id = IF @ = <<>> THEN "empty" ELSE "given"]

GateStatus(s) ==
  [name \in DOMAIN s \ {"source_role"} |->
     IF name \in {"current_time_utc", "last_update_utc"} THEN TimeOf(s[name]) ELSE s[name]]

ParseResult(value, found) == [value |-> IF found = {} THEN value ELSE None, diagnostics |-> found]

SecureClockPolicyReads(root) ==
  ReadsString(root, "clock_id")
  \union ReadsInteger(root, "max_allowed_skew_seconds", TRUE)
  \union ReadsInteger(root, "freshness_window_seconds", TRUE)
  \union ReadsBoolean(root, "monotonic_required")
  \union ReadsSources(root, "allowed_time_sources")
  \union ReadsBoolean(root, "fail_closed_on_untrusted_time")

ParsePolicyObject(root) ==
  [clock_id |-> Field(root, "clock_id").string,
   max_allowed_skew_seconds |-> Field(root, "max_allowed_skew_seconds").number,
   freshness_window_seconds |-> Field(root, "freshness_window_seconds").number,
   monotonic_required |-> Field(root, "monotonic_required").boolean,
   allowed_time_sources |-> Sorted(Sources(Field(root, "allowed_time_sources").array)),
   fail_closed_on_untrusted_time |-> Field(root, "fail_closed_on_untrusted_time").boolean]

\* The enumerations of a status but its time source, by member.
StatusEnums ==
  [secure_time_status |-> SecureTimeStatusCode, time_source |-> TimeSource,
   source_role |-> {"primary", "fallback", "placeholder", "unknown"},
   source_trust_state |-> {"trusted", "untrusted", "unknown"},
   drift_state |-> {"within_policy", "skew_exceeded", "unknown"},
   freshness |-> {"fresh", "stale", "unknown"},
   monotonicity_status |-> {"monotonic", "non_monotonic", "unknown"},
   tamper_time_state |-> {"clear", "tamper_detected", "tamper_lockout", "recovery_in_progress"}]

PolicyNames ==
  {"clock_id", "max_allowed_skew_seconds", "freshness_window_seconds", "monotonic_required",
   "allowed_time_sources", "fail_closed_on_untrusted_time"}

StatusNames == DOMAIN StatusEnums \union {"current_time_utc", "last_update_utc", "skew_seconds"}

\* The objects that the parsers make.
PolicyObject ==
  [clock_id : Seq(Glyphs), max_allowed_skew_seconds : 0 .. MaxInt, freshness_window_seconds : 0 .. MaxInt,
   monotonic_required : BOOLEAN, allowed_time_sources : Seq(TimeSource),
   fail_closed_on_untrusted_time : BOOLEAN]

StatusObject ==
  [secure_time_status : SecureTimeStatusCode, time_source : TimeSource,
   source_role : {"primary", "fallback", "placeholder", "unknown"},
   source_trust_state : {"trusted", "untrusted", "unknown"},
   drift_state : {"within_policy", "skew_exceeded", "unknown"},
   freshness : {"fresh", "stale", "unknown"},
   monotonicity_status : {"monotonic", "non_monotonic", "unknown"},
   tamper_time_state : {"clear", "tamper_detected", "tamper_lockout", "recovery_in_progress"},
   current_time_utc : Seq(Glyphs) \union {None}, last_update_utc : Seq(Glyphs) \union {None},
   skew_seconds : (0 .. MaxInt) \union {None}]

\* The names that a text is made of are runs.
ASSUME TextsAssumption ==
  /\ Texts \subseteq [policy : Seq(Tokens), status : Seq(Tokens)]
  /\ None \notin Seq(Glyphs) /\ None \notin PolicyObject /\ None \notin StatusObject
  /\ PolicyNames \union StatusNames \union (UNION {StatusEnums[name] : name \in DOMAIN StatusEnums}) \subseteq Runs

SecureTimeStatusReads(root) ==
  (UNION {ReadsEnum(root, name, StatusEnums[name]) : name \in DOMAIN StatusEnums})
  \union ReadsTime(root, "current_time_utc") \union ReadsTime(root, "last_update_utc")
  \union ReadsInteger(root, "skew_seconds", FALSE)

ParseStatusObject(root) ==
  [name \in StatusNames |->
     IF name \in DOMAIN StatusEnums THEN NameOf(Field(root, name))
     ELSE IF name # "skew_seconds" THEN OptionalText(root, name)
     ELSE IF Is("number", Field(root, name)) THEN Field(root, name).number ELSE None]

\* The frame of both parsers: a malformed text and a root that is no object give
\* one diagnostic; an object is made if reading the members reported nothing.
\* The validators of the gate then judge the object.
ParsedRoot(root, ReadsOf(_), Make(_), Check(_)) ==
  IF root = Nothing THEN ParseResult(None, {ErrAt("json_malformed", "")})
  ELSE IF ~Is("object", root) THEN ParseResult(None, {ErrAt("invalid_type", "/")})
  ELSE IF ReadsOf(root) # {} THEN ParseResult(None, ReadsOf(root))
  ELSE ParseResult(Make(root), {ErrAt(d.code, d.path) : d \in Check(Make(root))})

ParsedObject(text, ReadsOf(_), Make(_), Check(_)) == ParsedRoot(Read(text), ReadsOf, Make, Check)

\* The mistake: a parsed policy is not validated.
MutParsedPolicy(text) ==
  ParsedObject(text, SecureClockPolicyReads, ParsePolicyObject, LAMBDA p : {})

ParsedPolicy(text) ==
  ParsedObject(text, SecureClockPolicyReads, ParsePolicyObject, LAMBDA p : PolicyDiagnostics(GatePolicy(p)))

ParsedStatus(text) ==
  ParsedObject(text, SecureTimeStatusReads, ParseStatusObject, LAMBDA s : StatusDiagnostics(GateStatus(s)))

-----------------------------------------------------------------------------
(* Writing. Each part of a list is the tokens of one entry. *)

Separated(parts) ==
  LET joined[n \in 0 .. Len(parts)] ==
        IF n = 0 THEN <<>> ELSE IF n = 1 THEN parts[1] ELSE joined[n - 1] \o <<Token(",")>> \o parts[n]
  IN joined[Len(parts)]

Quoted(text)  == <<StringToken([i \in DOMAIN text |-> Escape(text[i])])>>
Named(name)   == Quoted(<<Plain(name)>>)
Written(n)    == <<NumberToken(FALSE, n, FALSE)>>
Literal(b)    == <<Token(IF b THEN "true" ELSE "false")>>

Member(name, tokens) == Named(name) \o <<Token(":")>> \o tokens

Braced(members) == <<Token("{")>> \o Separated(members) \o <<Token("}")>>

PolicyText(p) ==
  Braced(<<Member("clock_id", Quoted(p.clock_id)),
           Member("max_allowed_skew_seconds", Written(p.max_allowed_skew_seconds)),
           Member("freshness_window_seconds", Written(p.freshness_window_seconds)),
           Member("monotonic_required", Literal(p.monotonic_required)),
           Member("allowed_time_sources",
                  <<Token("[")>>
                  \o Separated([i \in DOMAIN p.allowed_time_sources |-> Named(p.allowed_time_sources[i])])
                  \o <<Token("]")>>),
           Member("fail_closed_on_untrusted_time", Literal(p.fail_closed_on_untrusted_time))>>)

\* The members of a status in the order of to_json; one without a value is not written.
StatusText(s) ==
  LET Enum(name)     == <<Member(name, Named(s[name]))>>
      Optionally(name) == IF s[name] = None THEN <<>> ELSE <<Member(name, Quoted(s[name]))>>
  IN Braced(Enum("secure_time_status") \o Optionally("current_time_utc")
            \o Enum("time_source") \o Enum("source_role") \o Enum("source_trust_state")
            \o (IF s.skew_seconds = None THEN <<>> ELSE <<Member("skew_seconds", Written(s.skew_seconds))>>)
            \o Enum("drift_state") \o Enum("freshness") \o Optionally("last_update_utc")
            \o Enum("monotonicity_status") \o Enum("tamper_time_state"))

-----------------------------------------------------------------------------
(* The caller *)

\* The objects as the program declares them, before anything is parsed.
DefaultPolicy ==
  [clock_id |-> "empty", max_allowed_skew_seconds |-> 0, freshness_window_seconds |-> 0,
   monotonic_required |-> FALSE, allowed_time_sources |-> <<>>, fail_closed_on_untrusted_time |-> TRUE]

DefaultStatus ==
  [secure_time_status |-> "unavailable", current_time_utc |-> None, time_source |-> "unknown",
   source_trust_state |-> "unknown", skew_seconds |-> None, drift_state |-> "unknown",
   freshness |-> "unknown", last_update_utc |-> None, monotonicity_status |-> "unknown",
   tamper_time_state |-> "clear"]

Built == Init /\ texts = None /\ stage = "gate"

Told ==
  /\ texts \in Texts /\ stage = "parse_policy"
  /\ policy = DefaultPolicy /\ status = DefaultStatus
  /\ pc = "validate_policy" /\ hard_block = FALSE /\ trust_issue = FALSE
  /\ diagnostics = {} /\ result = None

TextInit == (Built \/ Told) /\ parsed = [policy |-> None, status |-> None]

ParsePolicy ==
  /\ stage = "parse_policy" /\ stage' = "parse_status"
  /\ parsed' = [parsed EXCEPT !.policy = ParsedPolicy(texts.policy)]
  /\ UNCHANGED <<texts, vars>>

ParseStatus ==
  /\ stage = "parse_status" /\ stage' = "call"
  /\ parsed' = [parsed EXCEPT !.status = ParsedStatus(texts.status)]
  /\ UNCHANGED <<texts, vars>>

Accepted == parsed.policy.value # None /\ parsed.status.value # None

Refuse ==
  /\ stage = "call" /\ stage' = "refused"
  /\ ~Accepted
  /\ UNCHANGED <<texts, parsed, vars>>

CallGate ==
  /\ stage = "call" /\ stage' = "gate"
  /\ Accepted
  /\ policy' = GatePolicy(parsed.policy.value) /\ status' = GateStatus(parsed.status.value)
  /\ UNCHANGED <<texts, parsed, pc, hard_block, trust_issue, diagnostics, result>>

Gate == stage = "gate" /\ Next /\ UNCHANGED textVars

TextNext == ParsePolicy \/ ParseStatus \/ Refuse \/ CallGate \/ Gate

TextSpec == TextInit /\ [][TextNext]_<<vars, textVars>>
-----------------------------------------------------------------------------
(* Properties *)

\* What an object says of a name: the value of its first member of that name.
Said(root, name) ==
  LET named == {i \in DOMAIN root.object : root.object[i].key = <<Plain(name)>>}
  IN IF named = {} THEN Nothing
     ELSE root.object[CHOOSE i \in named : \A j \in named : i <= j].value

\* The objects of specs/objects/SecureClockPolicy.md.
LegalPolicy(root) ==
  /\ Is("object", root)
  /\ Is("string", Said(root, "clock_id")) /\ Said(root, "clock_id").string # <<>>
  /\ \A name \in {"max_allowed_skew_seconds", "freshness_window_seconds"} :
       Is("number", Said(root, name)) /\ Said(root, name).number >= 0
  /\ \A name \in {"monotonic_required", "fail_closed_on_untrusted_time"} : Is("boolean", Said(root, name))
  /\ Is("array", Said(root, "allowed_time_sources"))
  /\ LET items == Said(root, "allowed_time_sources").array
     IN items # <<>> /\ IsInjective(items) /\ \A i \in DOMAIN items : NameOf(items[i]) \in TimeSource

LegalStatus(root) ==
  LET Given(name) == Said(root, name) \notin {Nothing, Null}
      Time(name)  == TimeOf(Said(root, name).string)
      times       == {"current_time_utc", "last_update_utc"}
  IN /\ Is("object", root)
     /\ \A name \in DOMAIN StatusEnums : NameOf(Said(root, name)) \in StatusEnums[name]
     /\ \A name \in times : Given(name) => Is("string", Said(root, name)) /\ IsUtc(Time(name))
     /\ Given("skew_seconds") => Is("number", Said(root, "skew_seconds")) /\ Said(root, "skew_seconds").number >= 0
     /\ NameOf(Said(root, "secure_time_status")) # "unavailable" =>
          \A name \in times \union {"skew_seconds"} : Given(name)
     /\ (\A name \in times : Given(name)) =>
          ~Before(Time("current_time_utc"), Time("last_update_utc"))

\* A text gives an object exactly if it is legal: it reads as an object whose
\* members have their types and values, and the object it stands for is valid. A
\* text that is not legal always says why.
TextIsAcceptedIffLegal ==
  stage = "call" =>
    /\ parsed.policy.value # None <=> LegalPolicy(Read(texts.policy))
    /\ parsed.status.value # None <=> LegalStatus(Read(texts.status))
    /\ \A which \in {"policy", "status"} :
         parsed[which].diagnostics = {} <=> parsed[which].value # None

\* What the object of a text says is what the text says: written again, it has
\* the same members, but for null, which is written as an absence, and for the
\* order of the sources; and the written text reads back as the same object,
\* whatever characters its strings have.
WrittenTextReadsBack ==
  LET Same(name, old, new) ==
        \/ new = old
        \/ new = Nothing /\ old = Null
        \/ name = "allowed_time_sources" /\ new # Nothing /\ Range(new.array) = Range(old.array)
      SaysWhat(object, old, new) ==
        \A name \in DOMAIN object : Same(name, Said(old, name), Said(new, name))
  IN stage = "call" =>
       LET p == parsed.policy.value
           s == parsed.status.value
       IN /\ p # None => /\ ParsedPolicy(PolicyText(p)).value = p
                         /\ SaysWhat(p, Read(texts.policy), Read(PolicyText(p)))
          /\ s # None => /\ ParsedStatus(StatusText(s)).value = s
                         /\ SaysWhat(s, Read(texts.status), Read(StatusText(s)))
=============================================================================
