---------------------------- MODULE SecureTimeGate --------------------------
(***************************************************************************)
(* evaluate_secure_time: the judgement of a secure time status under a     *)
(* secure clock policy, which decides whether operations that depend on    *)
(* the time may run. Both objects are validated first; a valid status is   *)
(* then checked condition by condition, each adding to two flags and to    *)
(* the diagnostics, and the flags give the answer at the end.              *)
(*                                                                         *)
(* A definition whose name starts with Mut is a plausible mistake in the   *)
(* definition after it.                                                    *)
(***************************************************************************)
EXTENDS UtcTime, Sequences, Functions

CONSTANTS
  Requests,   \* the calls: records [policy, status]
  None        \* an empty std::optional

SecureTimeStatusCode == {"trusted", "degraded", "untrusted", "unavailable"}

TimeSource == {"rtc_secure", "rtc_untrusted", "imported_secure_time",
               "operator_set_time_placeholder", "unknown"}

\* clock_id is only asked whether it is empty. The integers are uint64_t, and
\* the gate only compares them.
SecureClockPolicy ==
  [clock_id : {"empty", "given"}, max_allowed_skew_seconds : Nat, freshness_window_seconds : Nat,
   monotonic_required : BOOLEAN, allowed_time_sources : Seq(TimeSource),
   fail_closed_on_untrusted_time : BOOLEAN]

\* source_role is never read by the gate. A text that has not the form of a
\* timestamp is refused like one that has the form and is no date: the numbers
\* of such a date stand for it.
SecureTimeStatus ==
  [secure_time_status : SecureTimeStatusCode,
   current_time_utc : Timestamp \union {None}, time_source : TimeSource,
   source_trust_state : {"trusted", "untrusted", "unknown"},
   skew_seconds : Nat \union {None},
   drift_state : {"within_policy", "skew_exceeded", "unknown"},
   freshness : {"fresh", "stale", "unknown"},
   last_update_utc : Timestamp \union {None},
   monotonicity_status : {"monotonic", "non_monotonic", "unknown"},
   tamper_time_state : {"clear", "tamper_detected", "tamper_lockout", "recovery_in_progress"}]

ASSUME RequestsAssumption ==
  /\ Requests \subseteq [policy : SecureClockPolicy, status : SecureTimeStatus]
  /\ None \notin Timestamp /\ None \notin Nat

VARIABLES
  policy, status,   \* the arguments
  pc,               \* the next step of the call
  hard_block,       \* a condition failed that no policy forgives
  trust_issue,      \* the source is not trusted
  diagnostics,      \* what has been reported
  result            \* the answer, once there is one

vars == <<policy, status, pc, hard_block, trust_issue, diagnostics, result>>

Diagnostic(code, severity, path) == [code |-> code, severity |-> severity, path |-> path]

Err(code, path) == Diagnostic(code, "error", path)

ValidationStatus(found) ==
  IF \E d \in found : d.severity = "error" THEN "error"
  ELSE IF found # {} THEN "warning" ELSE "ok"

Reports(condition, diagnostic) == IF condition THEN {diagnostic} ELSE {}

-----------------------------------------------------------------------------
(* The validation of the two objects *)

PolicyDiagnostics(p) ==
  Reports(p.clock_id = "empty", Err("invalid_value", "clock_id"))
  \union Reports(p.allowed_time_sources = <<>>,
                 Err("missing_required_time_field", "allowed_time_sources"))
  \union Reports(~IsInjective(p.allowed_time_sources),
                 Err("invalid_value", "allowed_time_sources"))

MutRequired(code) == code = "trusted"

Required(code) == code # "unavailable"

Readable(time) == time # None /\ IsUtc(time)

TimeDiagnostics(s, time, path) ==
  Reports(Required(s.secure_time_status) /\ time = None, Err("missing_required_time_field", path))
  \union Reports(time # None /\ ~Readable(time), Err("invalid_time_format", path))

\* The comparison of EpochSeconds, by its two parts.
Before(t, u) ==
  \/ EpochDays(t) < EpochDays(u)
  \/ EpochDays(t) = EpochDays(u) /\ SecondOfDay(t) < SecondOfDay(u)

RunsBackwards(s) ==
  /\ Readable(s.current_time_utc) /\ Readable(s.last_update_utc)
  /\ Before(s.current_time_utc, s.last_update_utc)

StatusDiagnostics(s) ==
  TimeDiagnostics(s, s.current_time_utc, "current_time_utc")
  \union TimeDiagnostics(s, s.last_update_utc, "last_update_utc")
  \union Reports(Required(s.secure_time_status) /\ s.skew_seconds = None,
                 Err("missing_required_time_field", "skew_seconds"))
  \union Reports(RunsBackwards(s), Err("non_monotonic_time", "last_update_utc"))

-----------------------------------------------------------------------------
(* The conditions of the gate *)

\* push_gate_diagnostic: a code that was already reported is not reported again.
Push(found, diagnostic) ==
  IF \E d \in found : d.code = diagnostic.code THEN found ELSE found \union {diagnostic}

IntrinsicallyUntrusted(source) == source \notin {"rtc_secure", "imported_secure_time"}

TrustSeverity(p) == IF p.fail_closed_on_untrusted_time THEN "error" ELSE "warning"

SourceAllowed(p, s) == s.time_source \in Range(p.allowed_time_sources)

Age(s) == EpochSeconds(s.current_time_utc) - EpochSeconds(s.last_update_utc)

MutStale(p, s) ==
  /\ Readable(s.current_time_utc) /\ Readable(s.last_update_utc) /\ ~RunsBackwards(s)
  /\ s.freshness = "stale" \/ Age(s) > p.freshness_window_seconds

Stale(p, s) ==
  /\ Readable(s.current_time_utc) /\ Readable(s.last_update_utc) /\ ~RunsBackwards(s)
  /\ s.freshness # "fresh" \/ Age(s) > p.freshness_window_seconds

SkewExceeded(p, s) ==
  /\ s.skew_seconds # None
  /\ s.drift_state = "skew_exceeded" \/ s.skew_seconds > p.max_allowed_skew_seconds

NotMonotonic(p, s) == p.monotonic_required /\ s.monotonicity_status # "monotonic"

-----------------------------------------------------------------------------
(* The steps of the call *)

Init ==
  /\ \E request \in Requests : policy = request.policy /\ status = request.status
  /\ pc = "validate_policy"
  /\ hard_block = FALSE /\ trust_issue = FALSE
  /\ diagnostics = {} /\ result = None

Go(here, there) == pc = here /\ pc' = there /\ UNCHANGED <<policy, status>>

Answer(trusted, usable, found) ==
  result' = [trusted |-> trusted, usable |-> usable,
             timestamp_dependent_operations_allowed |-> usable,
             validation_status |-> ValidationStatus(found)]

ValidatePolicy ==
  /\ Go("validate_policy", "validate_status")
  /\ diagnostics' = PolicyDiagnostics(policy)
  /\ UNCHANGED <<hard_block, trust_issue, result>>

ValidateStatus ==
  /\ Go("validate_status", "decide")
  /\ diagnostics' = diagnostics \union StatusDiagnostics(status)
  /\ UNCHANGED <<hard_block, trust_issue, result>>

BlockInvalid ==
  /\ Go("decide", "done")
  /\ ValidationStatus(diagnostics) = "error"
  /\ Answer(FALSE, FALSE, diagnostics)
  /\ UNCHANGED <<hard_block, trust_issue, diagnostics>>

Unavailable(path) == Push(diagnostics, Err("secure_time_unavailable", path))

MutBlockTampered ==
  /\ Go("decide", "trust")
  /\ ValidationStatus(diagnostics) # "error"
  /\ status.tamper_time_state # "clear"
  /\ hard_block' = TRUE
  /\ diagnostics' = Unavailable("tamper_time_state")
  /\ UNCHANGED <<trust_issue, result>>

BlockTampered ==
  /\ Go("decide", "done")
  /\ ValidationStatus(diagnostics) # "error"
  /\ status.tamper_time_state # "clear"
  /\ diagnostics' = Unavailable("tamper_time_state")
  /\ Answer(FALSE, FALSE, diagnostics')
  /\ UNCHANGED <<hard_block, trust_issue>>

BlockUnavailable ==
  /\ Go("decide", "done")
  /\ ValidationStatus(diagnostics) # "error"
  /\ status.tamper_time_state = "clear"
  /\ status.secure_time_status = "unavailable"
  /\ diagnostics' = Unavailable("secure_time_status")
  /\ Answer(FALSE, FALSE, diagnostics')
  /\ UNCHANGED <<hard_block, trust_issue>>

\* A condition that blocks whatever the policy says of trust.
Block(condition, code, path) ==
  /\ hard_block' = (hard_block \/ condition)
  /\ diagnostics' = IF condition THEN Push(diagnostics, Err(code, path)) ELSE diagnostics

CheckSource ==
  /\ Go("decide", "trust")
  /\ ValidationStatus(diagnostics) # "error"
  /\ status.tamper_time_state = "clear"
  /\ status.secure_time_status # "unavailable"
  /\ Block(~SourceAllowed(policy, status), "policy_source_not_allowed", "allowed_time_sources")
  /\ UNCHANGED <<trust_issue, result>>

Distrust(path) ==
  Push(diagnostics, Diagnostic("untrusted_time_source", TrustSeverity(policy), path))

\* The source is judged before the status: its warning takes the code.
MutCheckTrust ==
  /\ Go("trust", "freshness")
  /\ hard_block' = (hard_block \/ status.secure_time_status # "trusted")
  /\ trust_issue' = (status.source_trust_state # "trusted" \/ IntrinsicallyUntrusted(status.time_source))
  /\ LET found == IF trust_issue' THEN Distrust("source_trust_state") ELSE diagnostics
     IN diagnostics' = IF status.secure_time_status # "trusted"
                       THEN Push(found, Err("untrusted_time_source", "secure_time_status"))
                       ELSE found
  /\ UNCHANGED result

CheckTrust ==
  /\ Go("trust", "freshness")
  /\ IF status.secure_time_status # "trusted" THEN
       /\ Block(TRUE, "untrusted_time_source", "secure_time_status")
       /\ UNCHANGED trust_issue
     ELSE IF status.source_trust_state # "trusted" THEN
       /\ trust_issue' = TRUE
       /\ diagnostics' = Distrust("source_trust_state")
       /\ UNCHANGED hard_block
     ELSE IF IntrinsicallyUntrusted(status.time_source) THEN
       /\ trust_issue' = TRUE
       /\ diagnostics' = Distrust("time_source")
       /\ UNCHANGED hard_block
     ELSE UNCHANGED <<hard_block, trust_issue, diagnostics>>
  /\ UNCHANGED result

\* Of the two branches, a status that runs backwards and one that is stale, the
\* code takes at most one.
CheckFreshness ==
  /\ Go("freshness", "skew")
  /\ IF RunsBackwards(status)
     THEN Block(TRUE, "non_monotonic_time", "last_update_utc")
     ELSE Block(Stale(policy, status), "stale_time", "last_update_utc")
  /\ UNCHANGED <<trust_issue, result>>

CheckSkew ==
  /\ Go("skew", "monotonicity")
  /\ Block(SkewExceeded(policy, status), "skew_exceeded", "skew_seconds")
  /\ UNCHANGED <<trust_issue, result>>

CheckMonotonicity ==
  /\ Go("monotonicity", "conclude")
  /\ Block(NotMonotonic(policy, status), "non_monotonic_time", "monotonicity_status")
  /\ UNCHANGED <<trust_issue, result>>

Conclude ==
  /\ Go("conclude", "done")
  /\ Answer(~hard_block /\ ~trust_issue,
            /\ ~hard_block /\ status.secure_time_status = "trusted"
            /\ ~trust_issue \/ ~policy.fail_closed_on_untrusted_time,
            diagnostics)
  /\ UNCHANGED <<hard_block, trust_issue, diagnostics>>

Next ==
  \/ ValidatePolicy \/ ValidateStatus
  \/ BlockInvalid \/ BlockTampered \/ BlockUnavailable
  \/ CheckSource \/ CheckTrust \/ CheckFreshness \/ CheckSkew \/ CheckMonotonicity
  \/ Conclude

Spec == Init /\ [][Next]_vars

-----------------------------------------------------------------------------
(* Properties *)

GateSteps == {"trust", "freshness", "skew", "monotonicity", "conclude"}

Result ==
  [trusted : BOOLEAN, usable : BOOLEAN, timestamp_dependent_operations_allowed : BOOLEAN,
   validation_status : {"ok", "warning", "error"}]

\* A status whose validation reported nothing has all that the gate reads
\* behind has_value: no condition is skipped because its field is absent.
Complete(s) ==
  /\ Readable(s.current_time_utc) /\ Readable(s.last_update_utc) /\ ~RunsBackwards(s)
  /\ s.skew_seconds # None

\* The types of the variables. The result is there at the end and only there, and
\* the conditions of the gate are only evaluated on complete statuses.
TypeOK ==
  /\ policy \in SecureClockPolicy /\ status \in SecureTimeStatus
  /\ pc \in {"validate_policy", "validate_status", "decide", "done"} \union GateSteps
  /\ hard_block \in BOOLEAN /\ trust_issue \in BOOLEAN
  /\ pc = "done" => result \in Result
  /\ pc # "done" => result = None
  /\ pc \in GateSteps => Complete(status)

Valid(p, s) == PolicyDiagnostics(p) = {} /\ StatusDiagnostics(s) = {}

\* The conditions of specs/objects/SecureClockPolicy.md on everything but the
\* trust in the source, all on a complete status.
Acceptable(p, s) ==
  /\ s.secure_time_status = "trusted" /\ s.tamper_time_state = "clear"
  /\ SourceAllowed(p, s)
  /\ s.freshness = "fresh" /\ ~(Age(s) > p.freshness_window_seconds)
  /\ s.drift_state # "skew_exceeded" /\ ~(s.skew_seconds > p.max_allowed_skew_seconds)
  /\ p.monotonic_required => s.monotonicity_status = "monotonic"

SourceTrusted(s) ==
  s.source_trust_state = "trusted" /\ ~IntrinsicallyUntrusted(s.time_source)

\* The gate is open exactly under the documented conditions: time is trusted when
\* it is acceptable and its source is trusted, usable when a source that is not
\* is forgiven by the policy; and what does not pass validation is neither.
GateIsTheDocs ==
  pc = "done" =>
    LET acceptable == Valid(policy, status) /\ Complete(status) /\ Acceptable(policy, status)
    IN /\ result.trusted <=> acceptable /\ SourceTrusted(status)
       /\ result.usable <=>
            /\ acceptable
            /\ SourceTrusted(status) \/ ~policy.fail_closed_on_untrusted_time

\* The diagnostics say what the flags say: time that may not be used is reported
\* with an error, time that may but is not trusted with a warning. A code is
\* reported only once, with the severity of its first cause, so that an error
\* could be lost behind a warning of the same code.
BlockIsAnError ==
  pc = "done" =>
    /\ result.validation_status = "error" <=> ~result.usable
    /\ result.validation_status = "ok" <=> result.trusted

\* A tampered or unavailable clock is the only thing reported of a valid status:
\* no second cause is put on top of it (docs/IMPLEMENT.md:541).
PrimaryCauseStandsAlone ==
  /\ pc = "done" /\ Valid(policy, status)
  /\ status.tamper_time_state # "clear" \/ status.secure_time_status = "unavailable"
  => \E path \in {"tamper_time_state", "secure_time_status"} :
       diagnostics = {Err("secure_time_unavailable", path)}
=============================================================================
