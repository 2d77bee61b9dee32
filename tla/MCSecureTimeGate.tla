--------------------------- MODULE MCSecureTimeGate -------------------------
(***************************************************************************)
(* Calls of evaluate_secure_time: every combination of conditions of the   *)
(* gate on valid objects, with ages and skews at and just over the limits  *)
(* and an update in the last half minute before a leap day; and invalid    *)
(* policies and statuses, each member wrong alone or with another.         *)
(*                                                                         *)
(* Texts of both objects: every member of a legal text in turn missing,    *)
(* repeated and of every other type or value, the times of a status in     *)
(* every combination, and every short sequence of tokens as a policy.      *)
(***************************************************************************)
EXTENDS SecureTimeText

At(day, hour, minute, second) ==
  [year |-> 2024, month |-> 2, day |-> day, hour |-> hour, minute |-> minute, second |-> second]

LastUpdate == At(28, 23, 59, 30)
NoDate     == At(30, 0, 0, 0)
Currents   == {LastUpdate, At(29, 0, 0, 30), At(29, 0, 0, 31)}   \* ages 0, 60, 61

MCPolicy(clock, mono, sources, closed) ==
  [clock_id |-> clock, max_allowed_skew_seconds |-> 2, freshness_window_seconds |-> 60,
   monotonic_required |-> mono, allowed_time_sources |-> sources,
   fail_closed_on_untrusted_time |-> closed]

ValidPolicies ==
  {MCPolicy("given", mono, sources, closed) : mono \in BOOLEAN, closed \in BOOLEAN,
     sources \in {<<"rtc_secure">>, <<"rtc_untrusted", "rtc_secure">>}}

InvalidPolicies ==
  {MCPolicy(clock, TRUE, sources, closed) : clock \in {"empty", "given"}, closed \in BOOLEAN,
     sources \in {<<>>, <<"rtc_secure">>, <<"rtc_secure", "rtc_untrusted", "rtc_secure">>}}

MCStatuses(codes, nows, sources, trusts, skews, drifts, freshnesses, updates, monos, tampers) ==
  [secure_time_status : codes, current_time_utc : nows, time_source : sources,
   source_trust_state : trusts, skew_seconds : skews, drift_state : drifts,
   freshness : freshnesses, last_update_utc : updates, monotonicity_status : monos,
   tamper_time_state : tampers]

ValidStatuses ==
  MCStatuses({"trusted", "degraded", "unavailable"}, Currents, {"rtc_secure", "rtc_untrusted"},
             {"trusted", "unknown"}, {2, 3}, {"within_policy", "skew_exceeded"},
             {"fresh", "stale", "unknown"}, {LastUpdate}, {"monotonic", "unknown"},
             {"clear", "tamper_lockout"})

\* The other values of each enumeration, under conditions that pass otherwise.
OtherStatuses ==
  MCStatuses(SecureTimeStatusCode, {LastUpdate}, TimeSource, {"trusted", "untrusted"}, {0},
             {"within_policy", "unknown"}, {"fresh"}, {LastUpdate}, {"monotonic", "non_monotonic"},
             {"clear", "tamper_detected", "recovery_in_progress"})

\* Missing, malformed and contradicting times.
IncompleteStatuses ==
  MCStatuses(SecureTimeStatusCode, {None, NoDate, LastUpdate}, {"rtc_secure"}, {"trusted"},
             {None, 0}, {"within_policy"}, {"fresh"},
             {None, NoDate, LastUpdate, At(28, 23, 59, 31)}, {"monotonic"},
             {"clear", "tamper_detected"})

MCRequests ==
  [policy : ValidPolicies, status : ValidStatuses \union OtherStatuses \union IncompleteStatuses]
  \union [policy : InvalidPolicies, status : IncompleteStatuses]

-----------------------------------------------------------------------------
(* The grammar of JSON, as the set of the texts and their values. It is     *)
(* generated by the length of the text and does not use Read.               *)

MCMaxInt == 100
MCRuns   == STRING

\* The text of a value, with numbers written as they are.
RECURSIVE Spelled(_)
Spelled(v) ==
  IF Is("string", v) THEN Quoted(v.string)
  ELSE IF Is("number", v) THEN <<NumberToken(v.number < 0, IF v.number < 0 THEN -v.number ELSE v.number, FALSE)>>
  ELSE IF Is("boolean", v) THEN Literal(v.boolean)
  ELSE IF Is("null", v) THEN <<Token("null")>>
  ELSE IF Is("array", v)
       THEN <<Token("[")>> \o Separated([i \in DOMAIN v.array |-> Spelled(v.array[i])]) \o <<Token("]")>>
  ELSE Braced([i \in DOMAIN v.object |->
                 Quoted(v.object[i].key) \o <<Token(":")>> \o Spelled(v.object[i].value)])

AName == <<Plain("clock_id")>>

\* The values with texts of n tokens, of one string and one number; the items of
\* their arrays and the members of their objects, commas included.
RECURSIVE ValuesOf(_), ListsOf(_, _)
ListsOf(n, keyed) ==
  LET Entry(v) == IF keyed THEN [key |-> AName, value |-> v] ELSE v
      tokens   == IF keyed THEN 2 ELSE 0
  IN {<<Entry(v)>> : v \in ValuesOf(n - tokens)}
     \union UNION {{<<Entry(v)>> \o rest : v \in ValuesOf(i - tokens), rest \in ListsOf(n - i - 1, keyed)} :
                   i \in 1 .. n - 2}
ValuesOf(n) ==
  IF n <= 0 THEN {}
  ELSE IF n = 1 THEN {String(AName), Number(7)}
  ELSE IF n = 2 THEN {Array(<<>>), Object(<<>>)}
  ELSE {Array(list) : list \in ListsOf(n - 2, FALSE)} \union {Object(list) : list \in ListsOf(n - 2, TRUE)}

ShortBound   == 4   \* every text up to this length
GrammarBound == 7   \* grammatical texts up to this length, and one token from them

Grammar == UNION {{<<Spelled(v), v>> : v \in ValuesOf(n)} : n \in 1 .. GrammarBound}

GrammarTexts == {pair[1] : pair \in Grammar}

Alphabet ==
  {Token(kind) : kind \in {"{", "}", "[", "]", ":", ","}} \union {Spelled(String(AName))[1], NumberToken(FALSE, 7, FALSE)}

ShortTexts ==
  UNION {[1 .. n -> Alphabet] : n \in 0 .. ShortBound}
  \union UNION {{[pair[1] EXCEPT ![i] = token] : i \in DOMAIN pair[1], token \in Alphabet} : pair \in Grammar}

Edges == {0, MCMaxInt, MCMaxInt + 1, MCMaxInt + 2}

NumberTexts == {<<NumberToken(negative, n, FALSE)>> : negative \in BOOLEAN, n \in Edges}

\* A text reads as a value exactly if the grammar gives it that value. A number
\* reads as itself exactly if it is a std::int64_t.
ReadIffGrammar ==
  stage = "parse_status" =>
    /\ texts.policy \in ShortTexts =>
         LET v == Read(texts.policy)
         IN IF v # Nothing THEN <<texts.policy, v>> \in Grammar
            ELSE texts.policy \notin GrammarTexts
    /\ texts.policy \in NumberTexts =>
         LET n == IF texts.policy[1].negative THEN -texts.policy[1].magnitude ELSE texts.policy[1].magnitude
         IN Read(texts.policy) = IF n \in -MCMaxInt - 1 .. MCMaxInt THEN Number(n) ELSE Nothing

-----------------------------------------------------------------------------
(* Texts of the two objects *)

Name(name)      == String(<<Plain(name)>>)
Names(sequence) == Array([i \in DOMAIN sequence |-> Name(sequence[i])])
KeyOf(name)     == <<Plain(name)>>
Entry(name, v)  == [key |-> KeyOf(name), value |-> v]

FirstDay  == "2024-02-28T23:59:30Z"
MCTimes ==
  (KeyOf(FirstDay) :> LastUpdate)
  @@ (KeyOf("2024-02-29T00:00:30Z") :> At(29, 0, 0, 30))
  @@ (KeyOf("2024-02-30T00:00:00Z") :> NoDate)

BasePolicy ==
  <<Entry("clock_id", Name("clock-1")), Entry("max_allowed_skew_seconds", Number(2)),
    Entry("freshness_window_seconds", Number(60)), Entry("monotonic_required", Boolean(TRUE)),
    Entry("allowed_time_sources", Names(<<"rtc_secure">>)), Entry("fail_closed_on_untrusted_time", Boolean(FALSE))>>

BaseStatus ==
  <<Entry("secure_time_status", Name("trusted")), Entry("current_time_utc", Name(FirstDay)),
    Entry("time_source", Name("rtc_secure")), Entry("source_role", Name("primary")),
    Entry("source_trust_state", Name("trusted")), Entry("skew_seconds", Number(2)),
    Entry("drift_state", Name("within_policy")), Entry("freshness", Name("fresh")),
    Entry("last_update_utc", Name(FirstDay)), Entry("monotonicity_status", Name("monotonic")),
    Entry("tamper_time_state", Name("clear"))>>

OtherValues ==
  {Null, Boolean(FALSE), Number(0), Number(-1), Number(-MCMaxInt - 1), Number(MCMaxInt + 1), Object(<<>>),
   Name("unknown"), Name("rtc_secure"), Name("never"), String(<<>>), Array(<<>>),
   String(<<Plain("clock_id"), CodePoint(1), CodePoint(10), CodePoint(34), CodePoint(92), CodePoint(65536)>>),
   Names(<<"unknown", "rtc_untrusted", "rtc_secure">>), Names(<<"rtc_secure", "rtc_secure">>),
   Names(<<"never", "never">>), Array(<<Number(1), Name("rtc_secure")>>)}

\* Objects that differ from a legal one in one member, which is missing, has
\* another value, or is there twice; and reversed ones.
Edited(base) ==
  {base, Reverse(base), Append(base, Entry("other", Null))}
  \union {RemoveAt(base, i) : i \in DOMAIN base}
  \union {[base EXCEPT ![i].value = v] : i \in DOMAIN base, v \in OtherValues}
  \union {<<Entry(base[i].key[1].run, v)>> \o base : i \in DOMAIN base, v \in {Null, Number(1), Name("unknown")}}
  \union {Append(base, Entry(base[i].key[1].run, Null)) : i \in DOMAIN base}

\* Statuses that differ from a legal one in the code and in all that depends on it.
TimedStatuses ==
  LET dates == {Null, Name("today"), Name("2024-02-30T00:00:00Z"), Name(FirstDay), Name("2024-02-29T00:00:30Z")}
  IN {[BaseStatus EXCEPT ![1].value = Name(code), ![2].value = now, ![6].value = skew, ![9].value = update] :
        code \in SecureTimeStatusCode, now \in dates, update \in dates, skew \in {Null, Number(0)}}

\* Strings that json_escape never writes: the slash, units of letters, surrogates
\* alone and in the wrong order, digits that are none, raw control characters.
RareStrings ==
  LET High == Piece("unit", "", 55296)
      Low  == Piece("unit", "", 57343)
      p    == Piece("plain", "clock_id", 0)
  IN {<<Piece("unit", "", 1), Piece("escape", "", 98)>>, <<Piece("escape", "", 47)>>, <<Piece("unit", "", 233)>>, <<Piece("unit", "", 10)>>, <<Piece("raw", "", 128512)>>,
      <<p, High, Low>>, <<High, Low, High>>, <<High>>, <<Low>>, <<Low, High>>, <<High, p>>, <<High, p, Low>>,
      <<Piece("bad_unit", "", 0)>>, <<High, Piece("bad_unit", "", 0)>>, <<Piece("raw", "", 31)>>, <<Piece("escape", "", 120)>>}

PolicyTexts ==
  {Spelled(Object(object)) : object \in Edited(BasePolicy)}
  \union {[Spelled(Object(BasePolicy)) EXCEPT ![4] = StringToken(pieces)] : pieces \in RareStrings}
  \union {[Spelled(Object(BasePolicy)) EXCEPT ![8] = NumberToken(negative, n, fraction)] :
            negative \in BOOLEAN, n \in Edges, fraction \in BOOLEAN}

StatusTexts == {Spelled(Object(object)) : object \in Edited(BaseStatus) \union TimedStatuses}

MCTexts ==
  [policy : ShortTexts \union NumberTexts \union PolicyTexts, status : {Spelled(Object(BaseStatus))}]
  \union [policy : {Spelled(Object(BasePolicy))}, status : StatusTexts \union {<<Token("junk")>>, <<>>}]
=============================================================================
