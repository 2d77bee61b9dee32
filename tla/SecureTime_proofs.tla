------------------------- MODULE SecureTime_proofs --------------------------
(***************************************************************************)
(* The gate of secure_time gives the documented answer for every policy    *)
(* and every status. The answer is computed from two flags at the end, so  *)
(* the properties of the result are not inductive: the invariant GateInv   *)
(* says what the flags and the diagnostics are at every step before it.    *)
(*                                                                         *)
(* Before the gate, a text gives an object exactly if it is legal. What is *)
(* read is a value of JSON, of which the parsers and the documentation     *)
(* say the same; an object that is accepted is one the gate may be given,  *)
(* so that the gate of a caller with texts is the gate of the first part.  *)
(*                                                                         *)
(* What an object says is written and read back. ReadsAs(tokens, v) says   *)
(* that the reader finds v wherever the tokens stand in a text; brackets,  *)
(* lists and members carry it from the strings up to the whole object.     *)
(*                                                                         *)
(* Last comes the calendar by which gate and texts count their seconds.    *)
(***************************************************************************)
EXTENDS SecureTimeText, UtcCalendar, FiniteSetTheorems, SequenceTheorems, WellFoundedInduction, TLAPS

\* What a check reports, and what it means that it reports nothing.
LEMMA ReportsFacts ==
  ASSUME NEW condition, NEW diagnostic
  PROVE  /\ \A d \in Reports(condition, diagnostic) : d = diagnostic
         /\ Reports(condition, diagnostic) = {} => ~condition
BY DEF Reports

\* A status whose validation reports nothing has all its times, and every
\* diagnostic of the two validations is an error.
LEMMA ValidMeansComplete ==
  ASSUME NEW s, StatusDiagnostics(s) = {}, Required(s.secure_time_status)
  PROVE  Complete(s)
<1>1. ASSUME NEW time, NEW path, TimeDiagnostics(s, time, path) = {}
      PROVE  Readable(time)
  <2>1. /\ Reports(Required(s.secure_time_status) /\ time = None,
                   Err("missing_required_time_field", path)) = {}
        /\ Reports(time # None /\ ~Readable(time), Err("invalid_time_format", path)) = {}
    BY <1>1, Zenon DEF TimeDiagnostics
  <2> QED
    BY <2>1, ReportsFacts, Zenon
<1>2. /\ TimeDiagnostics(s, s.current_time_utc, "current_time_utc") = {}
      /\ TimeDiagnostics(s, s.last_update_utc, "last_update_utc") = {}
      /\ Reports(Required(s.secure_time_status) /\ s.skew_seconds = None,
                 Err("missing_required_time_field", "skew_seconds")) = {}
      /\ Reports(RunsBackwards(s), Err("non_monotonic_time", "last_update_utc")) = {}
  BY Zenon DEF StatusDiagnostics
<1> QED
  BY <1>1, <1>2, ReportsFacts, Zenon DEF Complete

LEMMA ErrIsError ==
  ASSUME NEW code, NEW path
  PROVE  Err(code, path).severity = "error" /\ Err(code, path).code = code
BY DEF Err, Diagnostic

LEMMA ErrorReports ==
  \A condition, code, path : \A d \in Reports(condition, Err(code, path)) : d.severity = "error"
BY ReportsFacts, ErrIsError, SMT

LEMMA ValidationReportsErrors ==
  ASSUME NEW p, NEW s
  PROVE  \A d \in PolicyDiagnostics(p) \union StatusDiagnostics(s) : d.severity = "error"
<1>1. \A d \in PolicyDiagnostics(p) : d.severity = "error"
  <2> DEFINE unnamed == Reports(p.clock_id = "empty", Err("invalid_value", "clock_id"))
             empty == Reports(p.allowed_time_sources = <<>>,
                              Err("missing_required_time_field", "allowed_time_sources"))
             twice == Reports(~IsInjective(p.allowed_time_sources),
                              Err("invalid_value", "allowed_time_sources"))
  <2>1. \A d \in unnamed : d.severity = "error"
    BY ErrorReports
  <2>2. \A d \in empty : d.severity = "error"
    BY ErrorReports
  <2>3. \A d \in twice : d.severity = "error"
    BY ErrorReports
  <2>4. PolicyDiagnostics(p) = unnamed \union empty \union twice
    BY Zenon DEF PolicyDiagnostics
  <2> HIDE DEF unnamed, empty, twice
  <2> QED
    BY <2>1, <2>2, <2>3, <2>4, Zenon
<1>2. \A time, path : \A d \in TimeDiagnostics(s, time, path) : d.severity = "error"
  BY ErrorReports, Zenon DEF TimeDiagnostics
<1>3. \A d \in StatusDiagnostics(s) : d.severity = "error"
  BY <1>2, ErrorReports, Zenon DEF StatusDiagnostics
<1> QED
  BY <1>1, <1>3, Zenon

LEMMA PassedValidation ==
  ASSUME NEW p, NEW s,
         ValidationStatus(PolicyDiagnostics(p) \union StatusDiagnostics(s)) # "error"
  PROVE  Valid(p, s)
BY ValidationReportsErrors DEF Valid, ValidationStatus

-----------------------------------------------------------------------------
(* The invariant *)

\* What hard_block stands for at each step: the conditions checked before it.
Hard(p, s, here) ==
  \/ ~SourceAllowed(p, s)
  \/ here # "trust" /\ s.secure_time_status # "trusted"
  \/ here \in {"skew", "monotonicity", "conclude"} /\ Stale(p, s)
  \/ here \in {"monotonicity", "conclude"} /\ SkewExceeded(p, s)
  \/ here = "conclude" /\ NotMonotonic(p, s)

Distrusted(s, here) ==
  here # "trust" /\ s.secure_time_status = "trusted" /\ ~SourceTrusted(s)

\* The diagnostics carry an error exactly for a block or a distrust that the
\* policy does not forgive, and are empty exactly without either. Only the trust
\* check uses a code with two severities, and it uses it once.
DiagnosticsMatch(found, here) ==
  /\ \A d \in found : d.code # "untrusted_time_source" => d.severity = "error"
  /\ here = "trust" => \A d \in found : d.code # "untrusted_time_source"
  /\ (\E d \in found : d.severity = "error")
       <=> hard_block \/ (trust_issue /\ policy.fail_closed_on_untrusted_time)
  /\ found = {} <=> ~hard_block /\ ~trust_issue

GateInv ==
  /\ pc = "validate_status" => diagnostics = PolicyDiagnostics(policy)
  /\ pc = "decide" => diagnostics = PolicyDiagnostics(policy) \union StatusDiagnostics(status)
  /\ pc \in {"validate_policy", "validate_status", "decide"} => ~hard_block /\ ~trust_issue
  /\ pc \in GateSteps =>
       /\ Valid(policy, status)
       /\ status.tamper_time_state = "clear" /\ status.secure_time_status # "unavailable"
       /\ hard_block <=> Hard(policy, status, pc)
       /\ trust_issue <=> Distrusted(status, pc)
       /\ DiagnosticsMatch(diagnostics, pc)
  /\ GateIsTheDocs
  /\ BlockIsAnError
  /\ PrimaryCauseStandsAlone

IInv == TypeOK /\ GateInv

LEMMA Initially ==
  ASSUME Init
  PROVE  IInv
BY RequestsAssumption
   DEF Init, IInv, TypeOK, GateInv, GateSteps, GateIsTheDocs, BlockIsAnError,
       PrimaryCauseStandsAlone

-----------------------------------------------------------------------------
(* The steps before the gate *)

LEMMA ValidationSteps ==
  ASSUME IInv, ValidatePolicy \/ ValidateStatus
  PROVE  IInv'
BY DEF IInv, TypeOK, GateInv, GateSteps, GateIsTheDocs, BlockIsAnError,
       PrimaryCauseStandsAlone, ValidatePolicy, ValidateStatus, Go

\* Nothing is usable that did not pass validation.
LEMMA BlockInvalidStep ==
  ASSUME IInv, BlockInvalid
  PROVE  IInv'
<1>1. /\ pc = "decide" /\ pc' = "done"
      /\ UNCHANGED <<policy, status, hard_block, trust_issue, diagnostics>>
      /\ diagnostics = PolicyDiagnostics(policy) \union StatusDiagnostics(status)
      /\ ValidationStatus(diagnostics) = "error"
      /\ result' = [trusted |-> FALSE, usable |-> FALSE,
                    timestamp_dependent_operations_allowed |-> FALSE,
                    validation_status |-> "error"]
  BY DEF IInv, GateInv, BlockInvalid, Go, Answer
<1>2. ~Valid(policy, status)
  BY <1>1 DEF Valid, ValidationStatus
<1>3. TypeOK'
  BY <1>1 DEF IInv, TypeOK, GateSteps, Result
<1> QED
  BY <1>1, <1>2, <1>3
     DEF IInv, GateInv, GateSteps, GateIsTheDocs, BlockIsAnError, PrimaryCauseStandsAlone, Valid

\* A tampered or unavailable clock blocks with one error and nothing else.
LEMMA BlockUnavailableStep ==
  ASSUME IInv, BlockTampered \/ BlockUnavailable
  PROVE  IInv'
<1>1. /\ pc = "decide" /\ pc' = "done"
      /\ UNCHANGED <<policy, status, hard_block, trust_issue>>
      /\ status.tamper_time_state # "clear" \/ status.secure_time_status = "unavailable"
      /\ diagnostics = PolicyDiagnostics(policy) \union StatusDiagnostics(status)
      /\ ValidationStatus(diagnostics) # "error"
  BY DEF IInv, GateInv, BlockTampered, BlockUnavailable, Go
<1>2. Valid(policy, status) /\ diagnostics = {}
  BY <1>1, PassedValidation DEF Valid
<1>3. \E path \in {"tamper_time_state", "secure_time_status"} :
        diagnostics' = {Err("secure_time_unavailable", path)}
  BY <1>2 DEF BlockTampered, BlockUnavailable, Unavailable, Push
<1>4. ValidationStatus(diagnostics') = "error"
  BY <1>3 DEF ValidationStatus, Err, Diagnostic
<1>5. result' = [trusted |-> FALSE, usable |-> FALSE,
                timestamp_dependent_operations_allowed |-> FALSE,
                validation_status |-> "error"]
  BY <1>4 DEF BlockTampered, BlockUnavailable, Answer
<1>6. TypeOK'
  BY <1>1, <1>5 DEF IInv, TypeOK, GateSteps, Result
<1>7. (GateIsTheDocs /\ BlockIsAnError /\ PrimaryCauseStandsAlone)'
  BY <1>1, <1>3, <1>5 DEF GateIsTheDocs, BlockIsAnError, PrimaryCauseStandsAlone, Acceptable
<1> QED
  BY <1>1, <1>6, <1>7 DEF IInv, GateInv, GateSteps

-----------------------------------------------------------------------------
(* The steps of the gate *)

\* A condition that blocks: its diagnostic is an error, whether or not its code was
\* reported before, and the codes of the trust check are not touched.
LEMMA BlockKeepsMatch ==
  ASSUME NEW condition \in BOOLEAN, NEW code, NEW path, NEW here, NEW there,
         code # "untrusted_time_source", there # "trust" \/ here = "trust",
         hard_block \in BOOLEAN, trust_issue \in BOOLEAN,
         UNCHANGED <<policy, trust_issue>>,
         Block(condition, code, path), DiagnosticsMatch(diagnostics, here)
  PROVE  DiagnosticsMatch(diagnostics, there)'
<1>1. CASE ~condition
  BY <1>1 DEF Block, DiagnosticsMatch
<1>2. CASE condition
  <2>1. hard_block' /\ diagnostics' = Push(diagnostics, Err(code, path))
    BY <1>2 DEF Block
  <2>2. \A d \in diagnostics' : d \in diagnostics \/ d = Err(code, path)
    BY <2>1 DEF Push
  <2>3. \E d \in diagnostics' : d.severity = "error"
    BY <2>1 DEF Push, DiagnosticsMatch, Err, Diagnostic
  <2>4. \A d \in diagnostics' : d.code # "untrusted_time_source" => d.severity = "error"
    BY <2>2 DEF DiagnosticsMatch, Err, Diagnostic
  <2>5. there = "trust" => \A d \in diagnostics' : d.code # "untrusted_time_source"
    BY <2>2 DEF DiagnosticsMatch, Err, Diagnostic
  <2> QED
    BY <2>1, <2>3, <2>4, <2>5 DEF DiagnosticsMatch
<1> QED
  BY <1>1, <1>2

LEMMA CheckSourceStep ==
  ASSUME IInv, CheckSource
  PROVE  IInv'
<1>1. /\ pc = "decide" /\ pc' = "trust"
      /\ UNCHANGED <<policy, status, trust_issue, result>>
      /\ ValidationStatus(diagnostics) # "error"
      /\ status.tamper_time_state = "clear" /\ status.secure_time_status # "unavailable"
      /\ Block(~SourceAllowed(policy, status), "policy_source_not_allowed", "allowed_time_sources")
      /\ diagnostics = PolicyDiagnostics(policy) \union StatusDiagnostics(status)
      /\ hard_block = FALSE /\ trust_issue = FALSE /\ result = None
  BY DEF IInv, TypeOK, GateInv, CheckSource, Go
<1>2. Valid(policy, status) /\ diagnostics = {}
  BY <1>1, PassedValidation DEF Valid
<1>3. Complete(status)
  BY <1>1, <1>2, ValidMeansComplete DEF Valid, Required
<1>4. DiagnosticsMatch(diagnostics, "trust")
  BY <1>1, <1>2 DEF DiagnosticsMatch
<1>5. DiagnosticsMatch(diagnostics, "trust")'
  BY <1>1, <1>4, BlockKeepsMatch
<1>6. hard_block' = ~SourceAllowed(policy, status)
  BY <1>1 DEF Block
<1>7. TypeOK'
  BY <1>1, <1>3, <1>6 DEF IInv, TypeOK, GateSteps
<1>8. (Valid(policy, status) /\ SourceAllowed(policy, status))' =
         (Valid(policy, status) /\ SourceAllowed(policy, status))
  BY <1>1 DEF Valid, SourceAllowed
<1> QED
  BY <1>1, <1>2, <1>5, <1>6, <1>7, <1>8
     DEF IInv, GateInv, GateSteps, Hard, Distrusted, GateIsTheDocs, BlockIsAnError,
         PrimaryCauseStandsAlone
\* The only code with two severities is used by this step alone, so that its first
\* cause, whose severity counts, is the one that sets a flag.
LEMMA CheckTrustStep ==
  ASSUME IInv, CheckTrust
  PROVE  IInv'
<1>1. /\ pc = "trust" /\ pc' = "freshness" /\ UNCHANGED <<policy, status, result>>
      /\ hard_block \in BOOLEAN /\ trust_issue = FALSE
      /\ hard_block <=> ~SourceAllowed(policy, status)
      /\ DiagnosticsMatch(diagnostics, "trust")
      /\ Complete(status)
  BY DEF IInv, TypeOK, GateInv, GateSteps, CheckTrust, Go, Hard, Distrusted
<1>2. \A d \in diagnostics : d.code # "untrusted_time_source"
  BY <1>1 DEF DiagnosticsMatch
<1>3. /\ hard_block' \in BOOLEAN /\ trust_issue' \in BOOLEAN
      /\ hard_block' <=> Hard(policy, status, "freshness")
      /\ trust_issue' <=> Distrusted(status, "freshness")
      /\ DiagnosticsMatch(diagnostics, "freshness")'
  <2>1. CASE status.secure_time_status # "trusted"
    <3>1. hard_block' = TRUE /\ trust_issue' = FALSE
      BY <1>1, <2>1 DEF CheckTrust, Block
    <3>2. diagnostics' = diagnostics \union {Err("untrusted_time_source", "secure_time_status")}
      BY <1>2, <2>1 DEF CheckTrust, Block, Push, Err, Diagnostic
    <3>3. \A d \in diagnostics' : d.code # "untrusted_time_source" => d.severity = "error"
      BY <1>1, <3>2 DEF DiagnosticsMatch, Err, Diagnostic
    <3>4. diagnostics' # {} /\ \E d \in diagnostics' : d.severity = "error"
      <4>1. Err("untrusted_time_source", "secure_time_status") \in diagnostics'
        BY <3>2
      <4> QED
        BY <4>1, ErrIsError
    <3>5. DiagnosticsMatch(diagnostics, "freshness")'
      BY <3>1, <3>3, <3>4 DEF DiagnosticsMatch
    <3> QED
      BY <1>1, <2>1, <3>1, <3>5 DEF Hard, Distrusted
  <2>2. CASE status.secure_time_status = "trusted" /\ ~SourceTrusted(status)
    <3>1. PICK path \in {"source_trust_state", "time_source"} :
            trust_issue' = TRUE /\ hard_block' = hard_block /\ diagnostics' = Distrust(path)
      BY <2>2 DEF CheckTrust, SourceTrusted
    <3>2. diagnostics' = diagnostics
            \union {Diagnostic("untrusted_time_source", TrustSeverity(policy), path)}
      BY <1>2, <3>1 DEF Distrust, Push, Diagnostic
    <3>3. \A d \in diagnostics' : d.code # "untrusted_time_source" => d.severity = "error"
      BY <1>1, <3>2 DEF DiagnosticsMatch, Diagnostic
    <3>4. (\E d \in diagnostics' : d.severity = "error")
            <=> hard_block \/ policy.fail_closed_on_untrusted_time
      <4>1. (\E d \in diagnostics : d.severity = "error") <=> hard_block
        BY <1>1 DEF DiagnosticsMatch
      <4>2. TrustSeverity(policy) = "error" <=> policy.fail_closed_on_untrusted_time
        BY DEF TrustSeverity
      <4>3. PICK d : d.severity = TrustSeverity(policy) /\ diagnostics' = diagnostics \union {d}
        BY <3>2 DEF Diagnostic
      <4> QED
        BY <4>1, <4>2, <4>3
    <3>5. DiagnosticsMatch(diagnostics, "freshness")'
      BY <1>1, <3>1, <3>2, <3>3, <3>4 DEF DiagnosticsMatch
    <3> QED
      BY <1>1, <2>2, <3>1, <3>5 DEF Hard, Distrusted
  <2>3. CASE status.secure_time_status = "trusted" /\ SourceTrusted(status)
    <3>1. UNCHANGED <<hard_block, trust_issue, diagnostics>>
      BY <2>3 DEF CheckTrust, SourceTrusted
    <3> QED
      BY <1>1, <2>3, <3>1 DEF Hard, Distrusted, DiagnosticsMatch
  <2> QED
    BY <2>1, <2>2, <2>3
<1> QED
  BY <1>1, <1>3
     DEF IInv, TypeOK, GateInv, GateSteps, GateIsTheDocs, BlockIsAnError,
         PrimaryCauseStandsAlone, Valid, Hard, SourceAllowed, Stale, SkewExceeded, NotMonotonic

\* The three conditions after the trust check block or leave everything as it is.
LEMMA ConditionStep ==
  ASSUME IInv, CheckFreshness \/ CheckSkew \/ CheckMonotonicity
  PROVE  IInv'
<1>1. /\ pc \in {"freshness", "skew", "monotonicity"}
      /\ pc' \in {"skew", "monotonicity", "conclude"}
      /\ UNCHANGED <<policy, status, trust_issue, result>>
      /\ hard_block \in BOOLEAN /\ trust_issue \in BOOLEAN
      /\ hard_block <=> Hard(policy, status, pc)
      /\ trust_issue <=> Distrusted(status, pc)
      /\ DiagnosticsMatch(diagnostics, pc)
      /\ Complete(status)
  BY DEF IInv, TypeOK, GateInv, GateSteps, CheckFreshness, CheckSkew, CheckMonotonicity, Go
<1>2. PICK condition \in BOOLEAN, code \in {"stale_time", "skew_exceeded", "non_monotonic_time"},
           path \in {"last_update_utc", "skew_seconds", "monotonicity_status"} :
        /\ Block(condition, code, path)
        /\ Hard(policy, status, pc') <=> Hard(policy, status, pc) \/ condition
  <2>1. CASE CheckFreshness
    <3>1. Block(Stale(policy, status), "stale_time", "last_update_utc")
      BY <1>1, <2>1 DEF CheckFreshness, Complete
    <3>2. Hard(policy, status, pc') <=> Hard(policy, status, pc) \/ Stale(policy, status)
      BY <2>1 DEF CheckFreshness, Go, Hard
    <3> QED
      BY <3>1, <3>2 DEF Stale
  <2>2. CASE CheckSkew
    <3>1. Block(SkewExceeded(policy, status), "skew_exceeded", "skew_seconds")
      BY <2>2 DEF CheckSkew
    <3>2. Hard(policy, status, pc') <=> Hard(policy, status, pc) \/ SkewExceeded(policy, status)
      BY <2>2 DEF CheckSkew, Go, Hard
    <3> QED
      BY <3>1, <3>2 DEF SkewExceeded
  <2>3. CASE CheckMonotonicity
    <3>1. Block(NotMonotonic(policy, status), "non_monotonic_time", "monotonicity_status")
      BY <2>3 DEF CheckMonotonicity
    <3>2. Hard(policy, status, pc') <=> Hard(policy, status, pc) \/ NotMonotonic(policy, status)
      BY <2>3 DEF CheckMonotonicity, Go, Hard
    <3> QED
      BY <3>1, <3>2 DEF NotMonotonic
  <2> QED
    BY <2>1, <2>2, <2>3
<1>3. DiagnosticsMatch(diagnostics, pc)'
  <2>1. PICK here, there : here = pc /\ there = pc'
    OBVIOUS
  <2>2. DiagnosticsMatch(diagnostics, there)'
    BY <1>1, <1>2, <2>1, BlockKeepsMatch
  <2> QED
    BY <2>1, <2>2 DEF DiagnosticsMatch
<1>4. hard_block' \in BOOLEAN /\ (hard_block' <=> Hard(policy, status, pc'))
  BY <1>1, <1>2 DEF Block
<1>5. trust_issue' <=> Distrusted(status, pc')
  BY <1>1 DEF Distrusted
<1>6. TypeOK'
  BY <1>1, <1>4 DEF IInv, TypeOK, GateSteps
<1> QED
  BY <1>1, <1>3, <1>4, <1>5, <1>6
     DEF IInv, GateInv, GateSteps, GateIsTheDocs, BlockIsAnError,
         PrimaryCauseStandsAlone

\* At the end the flags stand for every condition, so that the answer is the
\* documented one.
LEMMA ConcludeStep ==
  ASSUME IInv, Conclude
  PROVE  IInv'
<1>1. /\ pc = "conclude" /\ pc' = "done"
      /\ UNCHANGED <<policy, status, hard_block, trust_issue, diagnostics>>
      /\ hard_block \in BOOLEAN /\ trust_issue \in BOOLEAN
      /\ policy.fail_closed_on_untrusted_time \in BOOLEAN
      /\ Valid(policy, status) /\ Complete(status)
      /\ status.tamper_time_state = "clear" /\ status.secure_time_status # "unavailable"
      /\ hard_block <=> Hard(policy, status, "conclude")
      /\ trust_issue <=> Distrusted(status, "conclude")
      /\ DiagnosticsMatch(diagnostics, "conclude")
  BY DEF IInv, TypeOK, GateInv, GateSteps, Conclude, Go, SecureClockPolicy
<1> DEFINE trusted == ~hard_block /\ ~trust_issue
           usable  == /\ ~hard_block /\ status.secure_time_status = "trusted"
                      /\ ~trust_issue \/ ~policy.fail_closed_on_untrusted_time
<1>2. result' = [trusted |-> trusted, usable |-> usable,
                timestamp_dependent_operations_allowed |-> usable,
                validation_status |-> ValidationStatus(diagnostics)]
  BY DEF Conclude, Answer
<1>3. ~Hard(policy, status, "conclude") <=> Acceptable(policy, status)
  BY <1>1 DEF Hard, Acceptable, Stale, SkewExceeded, NotMonotonic, Complete
<1>4. /\ trusted <=> Acceptable(policy, status) /\ SourceTrusted(status)
      /\ usable <=> /\ Acceptable(policy, status)
                    /\ SourceTrusted(status) \/ ~policy.fail_closed_on_untrusted_time
  BY <1>1, <1>3 DEF Distrusted, Acceptable
<1>5. /\ ValidationStatus(diagnostics) \in {"ok", "warning", "error"}
      /\ ValidationStatus(diagnostics) = "error" <=> ~usable
      /\ ValidationStatus(diagnostics) = "ok" <=> trusted
  BY <1>1, <1>3 DEF ValidationStatus, DiagnosticsMatch, Acceptable, Distrusted
<1> HIDE DEF trusted, usable
<1>6. trusted \in BOOLEAN /\ usable \in BOOLEAN
  BY DEF trusted, usable
<1>7. TypeOK'
  BY <1>1, <1>2, <1>5, <1>6 DEF IInv, TypeOK, GateSteps, Result
<1>8. GateIsTheDocs' /\ BlockIsAnError' /\ PrimaryCauseStandsAlone'
  BY <1>1, <1>2, <1>4, <1>5 DEF GateIsTheDocs, BlockIsAnError, PrimaryCauseStandsAlone
<1> QED
  BY <1>1, <1>7, <1>8 DEF IInv, GateInv, GateSteps

-----------------------------------------------------------------------------
(* The theorems *)

LEMMA Inductive ==
  ASSUME IInv, [Next]_vars
  PROVE  IInv'
<1>1. CASE Next
  BY <1>1, ValidationSteps, BlockInvalidStep, BlockUnavailableStep, CheckSourceStep,
     CheckTrustStep, ConditionStep, ConcludeStep DEF Next
<1>2. CASE UNCHANGED vars
  BY <1>2 DEF vars, IInv, TypeOK, GateInv, GateIsTheDocs, BlockIsAnError,
              PrimaryCauseStandsAlone, DiagnosticsMatch
<1> QED
  BY <1>1, <1>2

LEMMA Invariance == Spec => []IInv
  BY Initially, Inductive, PTL DEF Spec

\* Every variable keeps its type, and the conditions of the gate are evaluated on
\* statuses that have every field they read.
THEOREM TypeCorrectness == Spec => []TypeOK
<1>1. IInv => TypeOK
  BY DEF IInv
<1> QED
  BY <1>1, Invariance, PTL

\* The gate is open exactly under the documented conditions, for every policy and
\* every status.
THEOREM GateCorrectness == Spec => []GateIsTheDocs
<1>1. IInv => GateIsTheDocs
  BY DEF IInv, GateInv
<1> QED
  BY <1>1, Invariance, PTL

\* No block goes unreported and no error is lost behind a warning of its code.
THEOREM ReportCorrectness == Spec => []BlockIsAnError
<1>1. IInv => BlockIsAnError
  BY DEF IInv, GateInv
<1> QED
  BY <1>1, Invariance, PTL

\* A tampered or unavailable clock is reported as that and as nothing else.
THEOREM PrimaryCauseCorrectness == Spec => []PrimaryCauseStandsAlone
<1>1. IInv => PrimaryCauseStandsAlone
  BY DEF IInv, GateInv
<1> QED
  BY <1>1, Invariance, PTL

-----------------------------------------------------------------------------
(* Induction. A set of indices takes the place of the property.             *)

LEMMA LeastOf ==
  ASSUME NEW S \in SUBSET Nat, S # {}
  PROVE  \E i \in S : \A j \in S : i <= j
  <1>1. PICK i \in S : \A j \in S : <<j, i>> \notin OpToRel(<, Nat)
    BY NatLessThanWellFounded, WFMin
  <1>2. ASSUME NEW j \in S PROVE i <= j
    <2>1. i \in Nat /\ j \in Nat
      OBVIOUS
    <2>2. j < i => <<j, i>> \in OpToRel(<, Nat)
      BY <2>1 DEF OpToRel
    <2>3. ~(j < i)
      BY <1>1, <2>2, Zenon
    <2> QED BY <2>1, <2>3
  <1> QED BY <1>2

LEMMA Induction ==
  ASSUME NEW n \in Nat, NEW P, 0 \in P, \A i \in 1 .. n : i - 1 \in P => i \in P
  PROVE  \A i \in 0 .. n : i \in P
  <1> DEFINE bad == {i \in 0 .. n : i \notin P}
  <1> SUFFICES ASSUME bad # {} PROVE FALSE
    OBVIOUS
  <1>1. PICK i \in bad : \A j \in bad : i <= j
    <2> bad \in SUBSET Nat
      OBVIOUS
    <2> HIDE DEF bad
    <2> QED BY LeastOf
  <1>2. i \in 1 .. n /\ i - 1 \in 0 .. n /\ i - 1 \notin bad
    BY <1>1
  <1> QED BY <1>1, <1>2

Follows(f, n, base, step) == f[0] = base /\ \A i \in 1 .. n : f[i] = step[<<f[i - 1], i>>]

\* A recursive function over a range exists if its step stays in a set.
LEMMA Recursion ==
  ASSUME NEW n \in Nat, NEW V, NEW base \in V, NEW step \in [V \X (1 .. n) -> V]
  PROVE  \E f \in [0 .. n -> V] : Follows(f, n, base, step)
  <1> DEFINE Upto(m, f) == f[0] = base /\ \A i \in 1 .. m : f[i] = step[<<f[i - 1], i>>]
             P == {m \in 0 .. n : \E f \in [0 .. m -> V] : Upto(m, f)}
  <1>1. 0 \in P
    <2>1. [i \in 0 .. 0 |-> base] \in [0 .. 0 -> V] /\ Upto(0, [i \in 0 .. 0 |-> base])
      OBVIOUS
    <2> HIDE DEF Upto
    <2> QED BY <2>1
  <1>2. ASSUME NEW i \in 1 .. n, i - 1 \in P PROVE i \in P
    <2>1. PICK f \in [0 .. i - 1 -> V] : Upto(i - 1, f)
      BY <1>2
    <2> DEFINE g == [j \in 0 .. i |-> IF j = i THEN step[<<f[i - 1], i>>] ELSE f[j]]
    <2>2. f[i - 1] \in V /\ <<f[i - 1], i>> \in V \X (1 .. n)
      OBVIOUS
    <2>3. g \in [0 .. i -> V]
      BY <2>2
    <2>4. g[0] = base
      BY <2>1
    <2>5. ASSUME NEW j \in 1 .. i PROVE g[j] = step[<<g[j - 1], j>>]
      BY <2>1
    <2>6. Upto(i, g)
      BY <2>4, <2>5
    <2> HIDE DEF Upto, g
    <2> QED BY <2>3, <2>6
  <1>3. n \in P
    <2> HIDE DEF P
    <2> QED BY <1>1, <1>2, Induction
  <1> QED BY <1>3 DEF Follows

-----------------------------------------------------------------------------
(* The reader. Its function is known only by the equation that it keeps, so *)
(* that one which keeps it has to be found first.                           *)

Parts == {"value", "members", "items"}

StepAt(text, f, part, i) ==
  IF part = "value" THEN ReadValue(text, i, f) ELSE ReadList(text, part, ReadEntry(text, part, i, f), f)

IsTable(f) == f = [at \in Parts \X Nat |-> f[at]]

\* From position k on, f keeps the equation.
KeepsFrom(f, text, k) == \A part \in Parts : \A i \in Nat : i >= k => f[<<part, i>>] = StepAt(text, f, part, i)

\* Nothing, or something that was found at position i.
Advanced(found, i) ==
  found = Nothing \/ (found.next \in Nat /\ found.next > i /\ found = Found(found.value, found.next))

LEMMA NothingFacts ==
  ASSUME NEW v, NEW n
  PROVE  /\ Found(v, n) # Nothing /\ Found(v, n).value = v /\ Found(v, n).next = n
         /\ Number(v) # Nothing /\ Boolean(v) # Nothing /\ String(v) # Nothing /\ Array(v) # Nothing
         /\ Object(v) # Nothing /\ Null # Nothing
  BY DEF Found, Nothing, Number, Boolean, String, Array, Object, Null

LEMMA FoundAdvances ==
  ASSUME NEW i \in Nat, NEW n \in Nat, n > i, NEW v
  PROVE  Advanced(Found(v, n), i)
  BY NothingFacts DEF Advanced

\* What a step finds lies behind its position, if what it builds upon does.
LEMMA ValueAdvances ==
  ASSUME NEW text, NEW f, NEW i \in Nat,
         \A part \in Parts : \A j \in Nat : j > i => Advanced(f[<<part, j>>], j)
  PROVE  Advanced(ReadValue(text, i, f), i)
  <1>1. ASSUME NEW part \in Parts PROVE Advanced(Enclosed(part, f[<<part, i + 1>>]), i)
    <2>1. Advanced(f[<<part, i + 1>>], i + 1)
      OBVIOUS
    <2>2. CASE f[<<part, i + 1>>] = Nothing
      BY <2>2 DEF Enclosed, Advanced
    <2>3. CASE f[<<part, i + 1>>] # Nothing
      <3>1. f[<<part, i + 1>>].next \in Nat /\ f[<<part, i + 1>>].next > i
        BY <2>1, <2>3 DEF Advanced
      <3>2. Enclosed(part, f[<<part, i + 1>>]) =
              Found(IF part = "members" THEN Object(f[<<part, i + 1>>].value) ELSE Array(f[<<part, i + 1>>].value),
                    f[<<part, i + 1>>].next)
        BY <2>3, Zenon DEF Enclosed
      <3> QED BY <3>1, <3>2, FoundAdvances
    <2> QED BY <2>2, <2>3
  <1>2. Advanced(Found(Object(<<>>), i + 2), i) /\ Advanced(Found(Array(<<>>), i + 2), i)
    BY FoundAdvances
  <1>3. Advanced(ReadScalar(text, i), i)
    BY FoundAdvances DEF ReadScalar, Advanced
  <1>4. "members" \in Parts /\ "items" \in Parts
    BY DEF Parts
  <1> QED BY <1>1, <1>2, <1>3, <1>4, Zenon DEF ReadValue

LEMMA EntryAdvances ==
  ASSUME NEW text, NEW f, NEW i \in Nat, NEW part \in Parts, Advanced(f[<<"value", i>>], i),
         Advanced(f[<<"value", i + 2>>], i + 2)
  PROVE  Advanced(ReadEntry(text, part, i, f), i)
  <1>1. CASE part = "items"
    BY <1>1 DEF ReadEntry
  <1>2. CASE part # "items"
    <2> DEFINE key == KeyAt(text, i)
               found == IF KindAt(text, i + 1) = ":" THEN f[<<"value", i + 2>>] ELSE Nothing
    <2>1. ReadEntry(text, part, i, f) = Keyed(key, found)
      BY <1>2 DEF ReadEntry
    <2>2. found = Nothing \/ (found.next \in Nat /\ found.next > i)
      BY DEF Advanced
    <2> HIDE DEF key, found
    <2>3. CASE key = Nothing \/ found = Nothing
      BY <2>1, <2>3 DEF Keyed, Advanced
    <2>4. CASE ~(key = Nothing \/ found = Nothing)
      <3>1. Keyed(key, found) = Found([key |-> key.string, value |-> found.value], found.next)
        BY <2>4, Zenon DEF Keyed
      <3> QED BY <2>1, <2>2, <2>4, <3>1, FoundAdvances
    <2> QED BY <2>3, <2>4
  <1> QED BY <1>1, <1>2

LEMMA ListAdvances ==
  ASSUME NEW text, NEW f, NEW i \in Nat, NEW part \in Parts, NEW entry, Advanced(entry, i),
         \A j \in Nat : j > i => Advanced(f[<<part, j>>], j)
  PROVE  Advanced(ReadList(text, part, entry, f), i)
  <1>1. CASE entry = Nothing
    BY <1>1 DEF ReadList, Advanced
  <1>2. CASE entry # Nothing
    <2> DEFINE after == AfterEntry(KindAt(text, entry.next), IF part = "members" THEN "}" ELSE "]")
               rest == f[<<part, entry.next + 1>>]
    <2>1. ReadList(text, part, entry, f) = Followed(part, entry, after, f)
      BY <1>2, Zenon DEF ReadList
    <2>2. entry.next \in Nat /\ entry.next > i /\ entry.next + 1 \in Nat /\ entry.next + 1 > i
      BY <1>2 DEF Advanced
    <2>3. Advanced(rest, entry.next + 1)
      BY <2>2
    <2> HIDE DEF after
    <2>4. CASE after = "ended"
      <3>1. Followed(part, entry, after, f) = Found(<<entry.value>>, entry.next + 1)
        BY <2>4, Zenon DEF Followed
      <3> QED BY <2>1, <2>2, <3>1, FoundAdvances
    <2>5. CASE after = "another"
      <3>1. Followed(part, entry, after, f) = Prefixed(entry.value, rest)
        BY <2>5 DEF Followed
      <3>2. CASE rest = Nothing
        BY <2>1, <3>1, <3>2 DEF Prefixed, Advanced
      <3>3. CASE rest # Nothing
        <4>1. rest.next \in Nat /\ rest.next > i
          BY <2>2, <2>3, <3>3 DEF Advanced
        <4>2. Prefixed(entry.value, rest) = Found(<<entry.value>> \o rest.value, rest.next)
          BY <3>3, Zenon DEF Prefixed
        <4> QED BY <2>1, <3>1, <4>1, <4>2, FoundAdvances
      <3> QED BY <3>2, <3>3
    <2>6. CASE after \notin {"ended", "another"}
      BY <2>1, <2>6 DEF Followed, Advanced
    <2> QED BY <2>4, <2>5, <2>6
  <1> QED BY <1>1, <1>2

\* Behind the end of the text nothing is found.
LEMMA NothingBehind ==
  ASSUME NEW text \in Seq(Tokens), NEW f, NEW i \in Nat, i > Len(text), NEW part \in Parts,
         part = "items" => f[<<"value", i>>] = Nothing
  PROVE  StepAt(text, f, part, i) = Nothing
  <1>1. i \notin DOMAIN text
    OBVIOUS
  <1>2. KindAt(text, i) = "end" /\ KeyAt(text, i) = Nothing
    BY <1>1 DEF KindAt, KeyAt
  <1>3. ReadValue(text, i, f) = Nothing
    BY <1>1, <1>2 DEF ReadValue, ReadScalar
  <1>4. part # "value" => ReadEntry(text, part, i, f) = Nothing
    BY <1>2 DEF ReadEntry, Keyed
  <1>5. part # "value" => ReadList(text, part, ReadEntry(text, part, i, f), f) = Nothing
    BY <1>4 DEF ReadList
  <1> QED BY <1>3, <1>5 DEF StepAt

LEMMA Advances ==
  ASSUME NEW text \in Seq(Tokens), NEW f, NEW k \in Nat, KeepsFrom(f, text, k)
  PROVE  \A part \in Parts : \A i \in Nat : i >= k => Advanced(f[<<part, i>>], i)
  <1> DEFINE last == Len(text) + 1
             Good(m) == \A part \in Parts : \A i \in Nat : i >= k /\ i + m >= last => Advanced(f[<<part, i>>], i)
             P == {m \in 0 .. last : Good(m)}
  <1>1. last \in Nat
    OBVIOUS
  <1>2. 0 \in P
    <2>1. ASSUME NEW part \in Parts, NEW i \in Nat, i >= k, i + 0 >= last PROVE Advanced(f[<<part, i>>], i)
      <3>1. "value" \in Parts /\ i > Len(text)
        BY <2>1 DEF Parts
      <3>2. f[<<"value", i>>] = Nothing
        BY <2>1, <3>1, NothingBehind DEF KeepsFrom
      <3>3. f[<<part, i>>] = Nothing
        <4>1. StepAt(text, f, part, i) = Nothing
          <5> HIDE DEF last, P, Good
          <5> QED BY <3>1, <3>2, NothingBehind
        <4> QED BY <2>1, <4>1 DEF KeepsFrom
      <3> QED BY <3>3 DEF Advanced
    <2> QED BY <1>1, <2>1
  <1>3. ASSUME NEW m \in 1 .. last, m - 1 \in P PROVE m \in P
    <2>1. ASSUME NEW part \in Parts, NEW i \in Nat, i >= k, i + m >= last PROVE Advanced(f[<<part, i>>], i)
      <3>1. \A p \in Parts : \A j \in Nat : j > i => Advanced(f[<<p, j>>], j)
        <4>1. Good(m - 1)
          BY <1>3
        <4>2. ASSUME NEW p \in Parts, NEW j \in Nat, j > i PROVE Advanced(f[<<p, j>>], j)
          <5>1. j >= k /\ j + (m - 1) >= last
            BY <1>1, <2>1, <4>2
          <5> QED BY <4>1, <5>1
        <4> QED BY <4>2
      <3>2. "value" \in Parts /\ f[<<"value", i>>] = ReadValue(text, i, f)
        BY <2>1 DEF KeepsFrom, StepAt, Parts
      <3>3. Advanced(f[<<"value", i>>], i)
        <4> HIDE DEF last, P, Good
        <4> QED BY <3>1, <3>2, ValueAdvances
      <3>4. CASE part = "value"
        BY <3>3, <3>4
      <3>5. CASE part # "value"
        <4>1. f[<<part, i>>] = ReadList(text, part, ReadEntry(text, part, i, f), f)
          BY <2>1, <3>5 DEF KeepsFrom, StepAt
        <4>2. Advanced(f[<<"value", i + 2>>], i + 2)
          BY <3>1, <3>2
        <4>3. Advanced(ReadEntry(text, part, i, f), i)
          <5> HIDE DEF last, P, Good
          <5> QED BY <3>3, <4>2, EntryAdvances
        <4> DEFINE entry == ReadEntry(text, part, i, f)
        <4> HIDE DEF last, P, Good, entry
        <4>4. Advanced(ReadList(text, part, entry, f), i)
          BY <3>1, <4>3, ListAdvances DEF entry
        <4> QED BY <4>1, <4>4 DEF entry
      <3> QED BY <3>4, <3>5
    <2> QED BY <1>1, <2>1
  <1>4. last \in P
    <2> HIDE DEF last, P, Good
    <2> QED BY <1>1, <1>2, <1>3, Induction
  <1> QED BY <1>1, <1>4

SameBehind(f, g, i) == \A part \in Parts : \A j \in Nat : j > i => f[<<part, j>>] = g[<<part, j>>]

\* The step at a position looks at f behind it only, and, for a list, at the value there.
LEMMA SameStep ==
  ASSUME NEW text, NEW f, NEW g, NEW i \in Nat, NEW part \in Parts,
         SameBehind(f, g, i),
         part # "value" => f[<<"value", i>>] = g[<<"value", i>>] /\ Advanced(f[<<"value", i>>], i),
         Advanced(f[<<"value", i + 2>>], i + 2)
  PROVE  StepAt(text, f, part, i) = StepAt(text, g, part, i)
  <1>1. {"value", "members", "items"} = Parts
    BY DEF Parts
  <1>a. \A p \in Parts : \A j \in Nat : j > i => f[<<p, j>>] = g[<<p, j>>]
    BY DEF SameBehind
  <1>2. CASE part = "value"
    <2>1. f[<<"members", i + 1>>] = g[<<"members", i + 1>>] /\ f[<<"items", i + 1>>] = g[<<"items", i + 1>>]
      BY <1>1, <1>a
    <2> QED BY <1>2, <2>1 DEF StepAt, ReadValue
  <1>3. CASE part # "value"
    <2>1. f[<<"value", i>>] = g[<<"value", i>>] /\ f[<<"value", i + 2>>] = g[<<"value", i + 2>>]
      BY <1>1, <1>3, <1>a
    <2>2. ReadEntry(text, part, i, f) = ReadEntry(text, part, i, g)
      BY <2>1 DEF ReadEntry
    <2>3. Advanced(ReadEntry(text, part, i, f), i)
      BY <1>3, EntryAdvances
    <2> DEFINE entry == ReadEntry(text, part, i, f)
               after == AfterEntry(KindAt(text, entry.next), IF part = "members" THEN "}" ELSE "]")
    <2>4. CASE entry = Nothing
      BY <1>3, <2>2, <2>4 DEF StepAt, ReadList
    <2>5. CASE entry # Nothing
      <3>1. f[<<part, entry.next + 1>>] = g[<<part, entry.next + 1>>]
        <4>1. entry.next + 1 \in Nat /\ entry.next + 1 > i
          BY <2>3, <2>5 DEF Advanced
        <4> HIDE DEF entry
        <4> QED BY <4>1, <1>a
      <3>2. StepAt(text, f, part, i) = Followed(part, entry, after, f)
        BY <1>3, <2>5, Zenon DEF StepAt, ReadList
      <3>3. StepAt(text, g, part, i) = Followed(part, entry, after, g)
        BY <1>3, <2>2, <2>5, Zenon DEF StepAt, ReadList
      <3> HIDE DEF entry, after
      <3>4. Followed(part, entry, after, f) = Followed(part, entry, after, g)
        BY <3>1 DEF Followed
      <3> QED BY <3>2, <3>3, <3>4
    <2> QED BY <2>4, <2>5
  <1> QED BY <1>2, <1>3

\* One more position at which the equation is kept.
LEMMA KeepsOneMore ==
  ASSUME NEW text \in Seq(Tokens), NEW i \in Nat, NEW f, IsTable(f), KeepsFrom(f, text, i + 1)
  PROVE  \E g : IsTable(g) /\ KeepsFrom(g, text, i)
  <1> DEFINE here == ReadValue(text, i, f)
             h == [at \in Parts \X Nat |-> IF at = <<"value", i>> THEN here ELSE f[at]]
             g == [at \in Parts \X Nat |->
                     IF at[2] = i /\ at[1] # "value" THEN StepAt(text, h, at[1], i) ELSE h[at]]
  <1>1. \A p \in Parts : \A j \in Nat : j > i => Advanced(f[<<p, j>>], j)
    <2>1. \A p \in Parts : \A j \in Nat : j >= i + 1 => Advanced(f[<<p, j>>], j)
      BY Advances
    <2> QED BY <2>1
  <1>2. Advanced(here, i)
    BY <1>1, ValueAdvances
  <1>3. "value" \in Parts /\ i + 2 \in Nat /\ i + 2 > i
    BY DEF Parts
  <1> HIDE DEF here
  <1>4. h[<<"value", i>>] = here
    BY <1>3
  <1>5. \A p \in Parts : \A j \in Nat : j > i => h[<<p, j>>] = f[<<p, j>>]
    OBVIOUS
  <1> HIDE DEF h
  <1>6. g[<<"value", i>>] = here
    BY <1>3, <1>4
  <1>7. \A p \in Parts : \A j \in Nat : j > i => g[<<p, j>>] = f[<<p, j>>]
    BY <1>5
  <1>8. \A p \in Parts : p # "value" => g[<<p, i>>] = StepAt(text, h, p, i)
    OBVIOUS
  <1>9. IsTable(g)
    BY DEF IsTable
  <1> HIDE DEF g
  <1>a. Advanced(f[<<"value", i + 2>>], i + 2)
    BY <1>1, <1>3
  <1>10. ASSUME NEW part \in Parts, NEW j \in Nat, j > i
         PROVE  g[<<part, j>>] = StepAt(text, g, part, j)
    <2>1. f[<<part, j>>] = StepAt(text, f, part, j)
      BY <1>10 DEF KeepsFrom
    <2>2. SameBehind(f, g, j)
      BY <1>7, <1>10 DEF SameBehind
    <2>3. f[<<"value", j>>] = g[<<"value", j>>] /\ Advanced(f[<<"value", j>>], j)
      BY <1>1, <1>3, <1>7, <1>10
    <2>4. j + 2 \in Nat /\ j + 2 > i
      BY <1>10
    <2>5. Advanced(f[<<"value", j + 2>>], j + 2)
      BY <1>1, <1>3, <2>4
    <2>6. StepAt(text, f, part, j) = StepAt(text, g, part, j)
      BY <2>2, <2>3, <2>5, SameStep
    <2> QED BY <1>7, <1>10, <2>1, <2>6
  <1>11. g[<<"value", i>>] = StepAt(text, g, "value", i)
    <2>1. StepAt(text, f, "value", i) = StepAt(text, g, "value", i)
      <3>1. SameBehind(f, g, i)
        BY <1>7 DEF SameBehind
      <3> QED BY <1>3, <1>a, <3>1, SameStep
    <2> QED BY <1>6, <2>1 DEF StepAt, here
  <1>12. ASSUME NEW part \in Parts, part # "value" PROVE g[<<part, i>>] = StepAt(text, g, part, i)
    <2>1. SameBehind(h, g, i)
      BY <1>5, <1>7 DEF SameBehind
    <2>2. h[<<"value", i>>] = g[<<"value", i>>] /\ Advanced(h[<<"value", i>>], i)
      BY <1>2, <1>4, <1>6
    <2>3. Advanced(h[<<"value", i + 2>>], i + 2)
      BY <1>3, <1>5, <1>a
    <2>4. StepAt(text, h, part, i) = StepAt(text, g, part, i)
      BY <2>1, <2>2, <2>3, SameStep
    <2> QED BY <1>8, <1>12, <2>4
  <1>13. KeepsFrom(g, text, i)
    <2>1. ASSUME NEW part \in Parts, NEW j \in Nat, j >= i PROVE g[<<part, j>>] = StepAt(text, g, part, j)
      <3>1. j > i \/ j = i
        BY <2>1
      <3> QED BY <1>10, <1>11, <1>12, <3>1
    <2> QED BY <2>1 DEF KeepsFrom
  <1> QED BY <1>9, <1>13

LEMMA ParserExists ==
  ASSUME NEW text \in Seq(Tokens)
  PROVE  \E f : IsTable(f) /\ KeepsFrom(f, text, 0)
  <1> DEFINE last == Len(text) + 1
             Kept(k) == \E f : IsTable(f) /\ KeepsFrom(f, text, k)
             P == {m \in 0 .. last : Kept(last - m)}
  <1>1. last \in Nat
    OBVIOUS
  <1>2. Kept(last)
    <2> DEFINE f == [at \in Parts \X Nat |-> Nothing]
    <2>1. ASSUME NEW part \in Parts, NEW i \in Nat, i >= last PROVE f[<<part, i>>] = StepAt(text, f, part, i)
      <3>1. i > Len(text) /\ "value" \in Parts
        BY <2>1 DEF Parts
      <3>2. f[<<"value", i>>] = Nothing /\ f[<<part, i>>] = Nothing
        BY <3>1
      <3> HIDE DEF f, last, P
      <3> QED BY <3>1, <3>2, NothingBehind
    <2>2. IsTable(f)
      BY DEF IsTable
    <2> HIDE DEF f, last
    <2> QED BY <2>1, <2>2 DEF KeepsFrom
  <1>3. last - 0 = last
    BY <1>1
  <1>4. 0 \in P
    <2> HIDE DEF last, Kept
    <2> QED BY <1>1, <1>2, <1>3
  <1>5. ASSUME NEW m \in 1 .. last, m - 1 \in P PROVE m \in P
    <2>1. last - m \in Nat /\ last - (m - 1) = (last - m) + 1
      BY <1>1
    <2>2. Kept((last - m) + 1)
      BY <1>5, <2>1
    <2> HIDE DEF last
    <2>3. Kept(last - m)
      BY <2>1, <2>2, KeepsOneMore
    <2> HIDE DEF Kept
    <2> QED BY <1>1, <2>3
  <1>6. last \in P
    <2> HIDE DEF last, P, Kept
    <2>1. \A m \in 0 .. last : m \in P
      BY <1>1, <1>4, <1>5, Induction
    <2> QED BY <1>1, <2>1
  <1>7. last - last = 0
    BY <1>1
  <1> QED BY <1>6, <1>7

ParserOf(text) ==
  CHOOSE Parse : Parse = [at \in {"value", "members", "items"} \X Nat |->
    IF at[1] = "value" THEN ReadValue(text, at[2], Parse)
    ELSE ReadList(text, at[1], ReadEntry(text, at[1], at[2], Parse), Parse)]

LEMMA ReadWithParser ==
  ASSUME NEW text
  PROVE  Read(text) = WholeText(text, ParserOf(text)[<<"value", 1>>])
  BY Zenon DEF Read, ParserOf

\* The function of Read keeps its equation everywhere.
LEMMA ParserKeeps ==
  ASSUME NEW text \in Seq(Tokens)
  PROVE  KeepsFrom(ParserOf(text), text, 0)
  <1> DEFINE Step(f) == [at \in {"value", "members", "items"} \X Nat |->
               IF at[1] = "value" THEN ReadValue(text, at[2], f)
               ELSE ReadList(text, at[1], ReadEntry(text, at[1], at[2], f), f)]
  <1>1. PICK f : IsTable(f) /\ KeepsFrom(f, text, 0)
    BY ParserExists
  <1>2. \E g : g = Step(g)
    <2> DEFINE g == [at \in Parts \X Nat |-> f[at]]
    <2>1. \A part \in Parts, i \in Nat : g[<<part, i>>] = f[<<part, i>>]
      OBVIOUS
    <2>2. g = f
      BY <1>1 DEF IsTable
    <2>3. \A at \in Parts \X Nat : f[at] = Step(f)[at]
      <3>1. ASSUME NEW part \in Parts, NEW i \in Nat PROVE f[<<part, i>>] = Step(f)[<<part, i>>]
        <4>1. f[<<part, i>>] = StepAt(text, f, part, i)
          BY <1>1 DEF KeepsFrom
        <4> QED BY <4>1 DEF StepAt, Parts
      <3> HIDE DEF Step
      <3> QED BY <3>1
    <2>4. DOMAIN Step(f) = Parts \X Nat
      BY DEF Parts
    <2>5. Step(f) = [at \in Parts \X Nat |-> Step(f)[at]]
      BY DEF Parts
    <2>6. Step(f) = g
      <3> HIDE DEF Step
      <3> QED BY <2>3, <2>5
    <2> QED BY <2>2, <2>6
  <1>3. ParserOf(text) = Step(ParserOf(text))
    <2>1. ParserOf(text) = CHOOSE g : g = Step(g)
      BY Zenon DEF ParserOf
    <2> HIDE DEF Step
    <2> QED BY <1>2, <2>1
  <1>4. ASSUME NEW f1, f1 = Step(f1), NEW part \in Parts, NEW i \in Nat
        PROVE  f1[<<part, i>>] = StepAt(text, f1, part, i)
    <2>1. f1[<<part, i>>] = Step(f1)[<<part, i>>]
      <3> HIDE DEF Step
      <3> QED BY <1>4
    <2>2. Step(f1)[<<part, i>>] = StepAt(text, f1, part, i)
      BY DEF StepAt, Parts
    <2> QED BY <2>1, <2>2
  <1> HIDE DEF Step
  <1> QED BY <1>3, <1>4 DEF KeepsFrom

-----------------------------------------------------------------------------
(* Strings                                                                  *)

HighUnits == {unit \in Nat : unit = 0 \/ IsHigh(unit)}

Decoder == [text : Seq(Glyphs), high : HighUnits, ok : BOOLEAN]

LEMMA DecoderFields ==
  ASSUME NEW read \in Decoder
  PROVE  /\ read.text \in Seq(Glyphs) /\ read.high \in HighUnits /\ read.ok \in BOOLEAN
         /\ read = [text |-> read.text, high |-> read.high, ok |-> read.ok]
  BY SMT DEF Decoder

LEMMA DecoderRecord ==
  ASSUME NEW t \in Seq(Glyphs), NEW h \in HighUnits, NEW b \in BOOLEAN
  PROVE  [text |-> t, high |-> h, ok |-> b] \in Decoder
  BY SMT DEF Decoder

LEMMA PlainIsGlyph ==
  ASSUME NEW run \in Runs
  PROVE  Plain(run) \in Glyphs
  BY DEF Plain, Glyphs

LEMMA CodeIsGlyph ==
  ASSUME NEW n \in Nat
  PROVE  CodePoint(n) \in Glyphs
  BY RunsAssumption DEF CodePoint, Glyphs

LEMMA EscapesFacts == \A letter \in DOMAIN Escapes : Escapes[letter] \in Nat
  <1> SUFFICES ASSUME NEW letter \in DOMAIN Escapes PROVE Escapes[letter] \in Nat
    OBVIOUS
  <1>1. letter \in {34, 92, 47, 98, 102, 110, 114, 116}
    BY SMT DEF Escapes
  <1>2. CASE letter \in {98, 102, 110, 114, 116}
    BY <1>2, SMT DEF Escapes
  <1>3. CASE letter \in {34, 92, 47}
    BY <1>3, SMT DEF Escapes
  <1> QED BY <1>1, <1>2, <1>3, SMT

LEMMA SurrogateFacts ==
  ASSUME NEW high \in HighUnits, high # 0, NEW low \in Nat, IsLow(low)
  PROVE  Paired(high, low) \in Glyphs
  <1>1. high - 55296 \in Nat /\ low - 56320 \in Nat
    BY SMT DEF HighUnits, IsHigh, IsLow
  <1>2. \A a, b \in Nat : 65536 + a * 1024 + b \in Nat
    BY SMT
  <1>3. 65536 + (high - 55296) * 1024 + (low - 56320) \in Nat
    BY <1>1, <1>2, SMT
  <1>4. \A n \in Nat : CodePoint(n) \in Glyphs
    BY CodeIsGlyph
  <1> QED BY <1>3, <1>4, SMT DEF Paired

\* A record of the decoder with one field changed, or two.
LEMMA Taken ==
  ASSUME NEW read \in Decoder, NEW glyph \in Glyphs
  PROVE  /\ [read EXCEPT !.text = Append(@, glyph)] \in Decoder
         /\ [[read EXCEPT !.text = Append(@, glyph)] EXCEPT !.high = 0] \in Decoder
  <1> DEFINE t == Append(read.text, glyph)
  <1>1. t \in Seq(Glyphs) /\ read.high \in HighUnits /\ read.ok \in BOOLEAN
    <2>1. read.text \in Seq(Glyphs)
      BY DecoderFields
    <2> QED BY <2>1, DecoderFields, SMT
  <1>2. read = [text |-> read.text, high |-> read.high, ok |-> read.ok]
    BY DecoderFields, Zenon
  <1> HIDE DEF t
  <1>3. [read EXCEPT !.text = t] = [text |-> t, high |-> read.high, ok |-> read.ok]
    BY <1>2, SMT
  <1> DEFINE h == read.high
             b == read.ok
             other == [text |-> t, high |-> h, ok |-> b]
             zero == 0
  <1>a. [read EXCEPT !.text = t] = other
    BY <1>3
  <1>b. [other EXCEPT !.high = zero] = [text |-> t, high |-> zero, ok |-> b]
    <2> HIDE DEF zero, h, b
    <2> QED BY SMT
  <1>4. [[read EXCEPT !.text = t] EXCEPT !.high = 0] = [text |-> t, high |-> 0, ok |-> read.ok]
    <2> HIDE DEF other
    <2> QED BY <1>a, <1>b, Zenon
  <1> HIDE DEF h, b, other, zero
  <1>5. 0 \in HighUnits
    BY SMT DEF HighUnits
  <1>6. [read EXCEPT !.text = t] \in Decoder
    BY <1>1, <1>3, DecoderRecord, SMT
  <1>7. [[read EXCEPT !.text = t] EXCEPT !.high = 0] \in Decoder
    BY <1>1, <1>4, <1>5, DecoderRecord, SMT
  <1> QED BY <1>6, <1>7, Zenon DEF t

LEMMA Failed ==
  ASSUME NEW read \in Decoder
  PROVE  [read EXCEPT !.ok = FALSE] \in Decoder
  <1> DEFINE no == FALSE
  <1>1. no \in BOOLEAN
    OBVIOUS
  <1> HIDE DEF no
  <1>2. [read EXCEPT !.ok = no] \in Decoder
    BY <1>1, SMT DEF Decoder
  <1> QED BY <1>2, Zenon DEF no

LEMMA Waiting ==
  ASSUME NEW read \in Decoder, NEW unit \in Nat, IsHigh(unit)
  PROVE  [read EXCEPT !.high = unit] \in Decoder
  <1>1. unit \in HighUnits
    BY DEF HighUnits
  <1> HIDE DEF HighUnits
  <1> QED BY <1>1, SMT DEF Decoder

LEMMA DecodeStays ==
  ASSUME NEW read \in Decoder, NEW piece \in Pieces
  PROVE  DecodePiece(read, piece) \in Decoder
  <1>1. piece.run \in Runs /\ piece.code \in Nat
    BY SMT DEF Pieces
  <1>2. Plain(piece.run) \in Glyphs /\ CodePoint(piece.code) \in Glyphs
    BY <1>1, PlainIsGlyph, CodeIsGlyph
  <1>3. piece.code \in DOMAIN Escapes => CodePoint(Escapes[piece.code]) \in Glyphs
    BY CodeIsGlyph, EscapesFacts
  <1>4. read.high # 0 /\ IsLow(piece.code) => Paired(read.high, piece.code) \in Glyphs
    BY <1>1, DecoderFields, SurrogateFacts
  <1>5. \A glyph \in Glyphs : /\ [read EXCEPT !.text = Append(@, glyph)] \in Decoder
                              /\ [[read EXCEPT !.text = Append(@, glyph)] EXCEPT !.high = 0] \in Decoder
    BY Taken
  <1>6. [read EXCEPT !.ok = FALSE] \in Decoder
    BY Failed
  <1>7. IsHigh(piece.code) => [read EXCEPT !.high = piece.code] \in Decoder
    BY <1>1, Waiting
  <1> QED BY <1>2, <1>3, <1>4, <1>5, <1>6, <1>7, Zenon DEF DecodePiece

IsReading(reading, pieces) ==
  reading = [n \in 0 .. Len(pieces) |->
               IF n = 0 THEN [text |-> <<>>, high |-> 0, ok |-> TRUE]
               ELSE DecodePiece(reading[n - 1], pieces[n])]

LEMMA ReadingExists ==
  ASSUME NEW pieces \in Seq(Pieces)
  PROVE  \E f \in [0 .. Len(pieces) -> Decoder] : IsReading(f, pieces)
  <1> DEFINE n == Len(pieces)
             base == [text |-> <<>>, high |-> 0, ok |-> TRUE]
             step == [p \in Decoder \X (1 .. n) |-> DecodePiece(p[1], pieces[p[2]])]
  <1>1. n \in Nat /\ \A i \in 1 .. n : pieces[i] \in Pieces
    OBVIOUS
  <1>2. base \in Decoder
    <2>1. <<>> \in Seq(Glyphs) /\ 0 \in HighUnits /\ TRUE \in BOOLEAN
      BY SMT DEF HighUnits
    <2> QED BY <2>1, DecoderRecord, Zenon
  <1>3. step \in [Decoder \X (1 .. n) -> Decoder]
    <2>1. ASSUME NEW p \in Decoder \X (1 .. n) PROVE DecodePiece(p[1], pieces[p[2]]) \in Decoder
      <3>1. p[1] \in Decoder /\ pieces[p[2]] \in Pieces
        BY <1>1
      <3> QED BY <3>1, DecodeStays
    <2> QED BY <2>1
  <1>4. PICK f \in [0 .. n -> Decoder] : Follows(f, n, base, step)
    <2> HIDE DEF n, base, step
    <2> QED BY <1>1, <1>2, <1>3, Recursion
  <1>5. ASSUME NEW i \in 1 .. n PROVE f[i] = DecodePiece(f[i - 1], pieces[i])
    <2>1. f[i - 1] \in Decoder /\ <<f[i - 1], i>> \in Decoder \X (1 .. n)
      <3> HIDE DEF n
      <3> QED BY <1>1
    <2>2. f[i] = step[<<f[i - 1], i>>]
      <3> HIDE DEF n, step
      <3> QED BY <1>4 DEF Follows
    <2> HIDE DEF n
    <2> QED BY <2>1, <2>2
  <1>6. f[0] = base /\ f = [i \in 0 .. n |-> f[i]]
    <2> HIDE DEF n, step, base
    <2> QED BY <1>4 DEF Follows
  <1>7. IsReading(f, pieces)
    <2>1. n = Len(pieces)
      OBVIOUS
    <2> HIDE DEF step, n
    <2>2. ASSUME NEW i \in 0 .. n
          PROVE  f[i] = IF i = 0 THEN base ELSE DecodePiece(f[i - 1], pieces[i])
      <3>1. CASE i = 0
        BY <1>6, <3>1
      <3>2. CASE i # 0
        <4>1. i \in 1 .. n
          BY <1>1, <3>2
        <4> QED BY <1>5, <3>2, <4>1
      <3> QED BY <3>1, <3>2
    <2> HIDE DEF base
    <2>3. f = [i \in 0 .. n |-> IF i = 0 THEN base ELSE DecodePiece(f[i - 1], pieces[i])]
      BY <1>6, <2>2
    <2> QED BY <2>1, <2>3 DEF IsReading, base
  <1> QED BY <1>7

\* What is read after n pieces.
ReadingOf(pieces) == CHOOSE reading : IsReading(reading, pieces)

LEMMA ReadingFacts ==
  ASSUME NEW pieces \in Seq(Pieces)
  PROVE  /\ IsReading(ReadingOf(pieces), pieces)
         /\ \A n \in 0 .. Len(pieces) : ReadingOf(pieces)[n] \in Decoder
         /\ DecodeString(pieces) =
              IF ReadingOf(pieces)[Len(pieces)].ok /\ ReadingOf(pieces)[Len(pieces)].high = 0
              THEN String(ReadingOf(pieces)[Len(pieces)].text) ELSE Nothing
  <1>1. IsReading(ReadingOf(pieces), pieces)
    BY ReadingExists DEF ReadingOf
  <1> DEFINE f == ReadingOf(pieces)
             n == Len(pieces)
             P == {i \in 0 .. n : f[i] \in Decoder}
  <1>2. n \in Nat /\ \A i \in 1 .. n : pieces[i] \in Pieces
    OBVIOUS
  <1>3. \A i \in 0 .. n : f[i] = IF i = 0 THEN [text |-> <<>>, high |-> 0, ok |-> TRUE] ELSE DecodePiece(f[i - 1], pieces[i])
    <2> HIDE DEF f
    <2> QED BY <1>1, <1>2, Zenon DEF IsReading, f
  <1>4. 0 \in P
    <2>1. <<>> \in Seq(Glyphs)
      OBVIOUS
    <2>2. f[0] = [text |-> <<>>, high |-> 0, ok |-> TRUE]
      <3> HIDE DEF f, n
      <3> QED BY <1>2, <1>3
    <2>3. f[0] \in Decoder
      <3>1. 0 \in HighUnits
        BY SMT DEF HighUnits
      <3> HIDE DEF f
      <3>2. TRUE \in BOOLEAN
        OBVIOUS
      <3> QED BY <2>1, <2>2, <3>1, <3>2, DecoderRecord, Zenon
    <2> HIDE DEF f
    <2> QED BY <1>2, <2>3
  <1>5. ASSUME NEW i \in 1 .. n, i - 1 \in P PROVE i \in P
    <2>1. f[i] = DecodePiece(f[i - 1], pieces[i])
      <3> HIDE DEF f, n
      <3> QED BY <1>2, <1>3
    <2>2. f[i] \in Decoder
      <3> HIDE DEF f
      <3> QED BY <1>2, <1>5, <2>1, DecodeStays
    <2> QED BY <2>2
  <1>6. \A i \in 0 .. n : i \in P
    <2> HIDE DEF P, n, f
    <2> QED BY <1>2, <1>4, <1>5, Induction
  <1>7. DecodeString(pieces) = IF f[n].ok /\ f[n].high = 0 THEN String(f[n].text) ELSE Nothing
    BY Zenon DEF DecodeString, ReadingOf, IsReading
  <1> QED BY <1>1, <1>6, <1>7

LEMMA Decoded ==
  ASSUME NEW pieces \in Seq(Pieces), DecodeString(pieces) # Nothing
  PROVE  \E t \in Seq(Glyphs) : DecodeString(pieces) = String(t)
  <1>1. DecodeString(pieces) = String(ReadingOf(pieces)[Len(pieces)].text)
    BY ReadingFacts, Zenon
  <1>2. ReadingOf(pieces)[Len(pieces)] \in Decoder
    <2>1. Len(pieces) \in 0 .. Len(pieces)
      OBVIOUS
    <2> QED BY <2>1, ReadingFacts, Zenon
  <1>3. ReadingOf(pieces)[Len(pieces)].text \in Seq(Glyphs)
    BY <1>2 DEF Decoder
  <1> QED BY <1>1, <1>3

-----------------------------------------------------------------------------
(* What is read is a value of JSON.                                         *)

Members(V) == [key : Seq(Glyphs), value : V]

IsScalar(v) ==
  \/ v = Null \/ \E b \in BOOLEAN : v = Boolean(b) \/ \E n \in Int : n <= MaxInt /\ v = Number(n)
  \/ \E t \in Seq(Glyphs) : v = String(t)

\* The values of which those of V consist are in V, too.
IsJson(V) ==
  \A v \in V : \/ IsScalar(v)
               \/ \E s \in Seq(V) : v = Array(s)
               \/ \E s \in Seq(Members(V)) : v = Object(s)

ValuesOfParser(f) == {f[<<"value", i>>].value : i \in {j \in Nat : f[<<"value", j>>] # Nothing}}

LEMMA ScalarFacts ==
  ASSUME NEW token \in Tokens, Scalar(token) # Nothing
  PROVE  IsScalar(Scalar(token))
  <1>1. token.pieces \in Seq(Pieces) /\ token.negative \in BOOLEAN /\ token.magnitude \in Nat
    BY DEF Tokens
  <1>2. CASE token.kind = "string"
    <2>1. Scalar(token) = DecodeString(token.pieces)
      BY <1>2 DEF Scalar
    <2> QED BY <1>1, <2>1, Decoded DEF IsScalar
  <1>3. CASE token.kind = "number"
    <2>1. Scalar(token) = NumberValue(token)
      BY <1>3 DEF Scalar
    <2>2. Scalar(token) = Number(IF token.negative THEN -token.magnitude ELSE token.magnitude)
      BY <2>1, Zenon DEF NumberValue
    <2> DEFINE n == IF token.negative THEN -token.magnitude ELSE token.magnitude
    <2>3. ~(token.magnitude > MaxInt + (IF token.negative THEN 1 ELSE 0))
      BY <1>3, <2>1, Zenon DEF NumberValue
    <2>4. n \in Int /\ n <= MaxInt
      BY <1>1, <2>3, MaxIntAssumption
    <2> HIDE DEF n
    <2>5. Scalar(token) = Number(n)
      BY <2>2 DEF n
    <2> QED BY <2>4, <2>5, Zenon DEF IsScalar
  <1>4. CASE token.kind \in {"true", "false"}
    <2>1. Scalar(token) = Boolean(token.kind = "true")
      BY <1>4 DEF Scalar
    <2>2. (token.kind = "true") \in BOOLEAN
      OBVIOUS
    <2> QED BY <2>1, <2>2, Zenon DEF IsScalar
  <1>5. CASE token.kind = "null"
    BY <1>5 DEF Scalar, IsScalar
  <1>6. CASE token.kind \notin {"string", "number", "true", "false", "null"}
    BY <1>6 DEF Scalar
  <1> QED BY <1>2, <1>3, <1>4, <1>5, <1>6

LEMMA ListHolds ==
  ASSUME NEW text, NEW f, NEW i \in Nat, NEW part, NEW I, NEW entry, Advanced(entry, i),
         entry # Nothing => entry.value \in I,
         \A j \in Nat : j > i /\ f[<<part, j>>] # Nothing => f[<<part, j>>].value \in Seq(I),
         ReadList(text, part, entry, f) # Nothing
  PROVE  ReadList(text, part, entry, f).value \in Seq(I)
  <1> DEFINE after == AfterEntry(KindAt(text, entry.next), IF part = "members" THEN "}" ELSE "]")
             rest == f[<<part, entry.next + 1>>]
  <1>0. entry # Nothing
    BY Zenon DEF ReadList
  <1>1. ReadList(text, part, entry, f) = Followed(part, entry, after, f)
    BY <1>0, Zenon DEF ReadList
  <1>2. entry.next + 1 \in Nat /\ entry.next + 1 > i
    BY <1>0 DEF Advanced
  <1>a. entry.value \in I /\ <<entry.value>> \in Seq(I)
    BY <1>0
  <1>3. rest # Nothing => rest.value \in Seq(I)
    BY <1>2
  <1> HIDE DEF after
  <1>4. CASE after = "ended"
    <2>1. Followed(part, entry, after, f) = Found(<<entry.value>>, entry.next + 1)
      BY <1>4, Zenon DEF Followed
    <2>2. Found(<<entry.value>>, entry.next + 1).value = <<entry.value>>
      BY NothingFacts
    <2> QED BY <1>1, <1>a, <2>1, <2>2, Zenon
  <1>5. CASE after = "another"
    <2>1. Followed(part, entry, after, f) = Prefixed(entry.value, rest)
      BY <1>5 DEF Followed
    <2>2. rest # Nothing
      BY <1>1, <2>1 DEF Prefixed
    <2>3. Prefixed(entry.value, rest) = Found(<<entry.value>> \o rest.value, rest.next)
      BY <2>2, Zenon DEF Prefixed
    <2>4. <<entry.value>> \o rest.value \in Seq(I)
      <3> HIDE DEF rest
      <3> QED BY <1>a, <1>3, <2>2
    <2>5. Found(<<entry.value>> \o rest.value, rest.next).value = <<entry.value>> \o rest.value
      BY NothingFacts
    <2> HIDE DEF rest
    <2> QED BY <1>1, <2>1, <2>3, <2>4, <2>5, Zenon
  <1>6. CASE after \notin {"ended", "another"}
    BY <1>1, <1>6 DEF Followed
  <1> QED BY <1>4, <1>5, <1>6

LEMMA EntryHolds ==
  ASSUME NEW text \in Seq(Tokens), NEW f, NEW i \in Nat, NEW V,
         \A j \in Nat : f[<<"value", j>>] # Nothing => f[<<"value", j>>].value \in V
  PROVE  /\ ReadEntry(text, "items", i, f) # Nothing => ReadEntry(text, "items", i, f).value \in V
         /\ ReadEntry(text, "members", i, f) # Nothing => ReadEntry(text, "members", i, f).value \in Members(V)
  <1>1. ReadEntry(text, "items", i, f) = f[<<"value", i>>]
    BY DEF ReadEntry
  <1>2. ASSUME ReadEntry(text, "members", i, f) # Nothing
        PROVE  ReadEntry(text, "members", i, f).value \in Members(V)
    <2> DEFINE key == KeyAt(text, i)
               found == IF KindAt(text, i + 1) = ":" THEN f[<<"value", i + 2>>] ELSE Nothing
    <2>1. ReadEntry(text, "members", i, f) = Keyed(key, found)
      BY DEF ReadEntry
    <2>2. found # Nothing => found.value \in V
      OBVIOUS
    <2>3. key # Nothing => key.string \in Seq(Glyphs)
      <3>1. ASSUME key # Nothing PROVE key.string \in Seq(Glyphs)
        <4>1. i \in DOMAIN text /\ key = DecodeString(text[i].pieces)
          BY <3>1 DEF KeyAt, KindAt
        <4>2. text[i].pieces \in Seq(Pieces)
          <5>1. text[i] \in Tokens
            BY <4>1
          <5> QED BY <5>1 DEF Tokens
        <4>3. PICK t \in Seq(Glyphs) : key = String(t)
          BY <3>1, <4>1, <4>2, Decoded
        <4> QED BY <4>3 DEF String
      <3> QED BY <3>1
    <2> HIDE DEF key, found
    <2>4. key # Nothing /\ found # Nothing
      BY <1>2, <2>1 DEF Keyed
    <2>5. Keyed(key, found) = Found([key |-> key.string, value |-> found.value], found.next)
      BY <2>4, Zenon DEF Keyed
    <2>6. [key |-> key.string, value |-> found.value] \in Members(V)
      BY <2>2, <2>3, <2>4 DEF Members
    <2>7. Found([key |-> key.string, value |-> found.value], found.next).value = [key |-> key.string, value |-> found.value]
      BY NothingFacts
    <2> QED BY <2>1, <2>5, <2>6, <2>7, Zenon
  <1> QED BY <1>1, <1>2

\* The lists that f finds consist of what it finds.
LEMMA ListsHold ==
  ASSUME NEW text \in Seq(Tokens), NEW f, KeepsFrom(f, text, 0), NEW part \in {"items", "members"}, NEW I,
         \A i \in Nat : ReadEntry(text, part, i, f) # Nothing => ReadEntry(text, part, i, f).value \in I
  PROVE  \A i \in Nat : f[<<part, i>>] # Nothing => f[<<part, i>>].value \in Seq(I)
  <1> DEFINE last == Len(text) + 1
             Good(m) == \A i \in Nat : i + m >= last /\ f[<<part, i>>] # Nothing => f[<<part, i>>].value \in Seq(I)
             P == {m \in 0 .. last : Good(m)}
  <1>1. last \in Nat /\ "value" \in Parts /\ part \in Parts /\ part # "value"
    BY DEF Parts
  <1>2. \A p \in Parts : \A i \in Nat : Advanced(f[<<p, i>>], i)
    <2>1. \A p \in Parts : \A i \in Nat : i >= 0 => Advanced(f[<<p, i>>], i)
      <3>1. 0 \in Nat
        OBVIOUS
      <3> HIDE DEF last, P, Good
      <3> QED BY <3>1, Advances
    <2>2. ASSUME NEW p \in Parts, NEW i \in Nat PROVE Advanced(f[<<p, i>>], i)
      <3>1. i >= 0
        OBVIOUS
      <3> QED BY <2>1, <3>1, Zenon
    <2> HIDE DEF last, P, Good
    <2> QED BY <2>2
  <1>3. 0 \in P
    <2>1. ASSUME NEW i \in Nat, i + 0 >= last PROVE f[<<part, i>>] = Nothing
      <3>1. i > Len(text)
        BY <2>1
      <3>2. f[<<"value", i>>] = Nothing
        <4>1. StepAt(text, f, "value", i) = Nothing
          BY <1>1, <3>1, NothingBehind
        <4> QED BY <1>1, <4>1 DEF KeepsFrom
      <3>3. StepAt(text, f, part, i) = Nothing
        BY <1>1, <3>1, <3>2, NothingBehind
      <3> QED BY <1>1, <3>3 DEF KeepsFrom
    <2> QED BY <1>1, <2>1
  <1>4. ASSUME NEW m \in 1 .. last, m - 1 \in P PROVE m \in P
    <2>1. ASSUME NEW i \in Nat, i + m >= last, f[<<part, i>>] # Nothing PROVE f[<<part, i>>].value \in Seq(I)
      <3> DEFINE entry == ReadEntry(text, part, i, f)
      <3>1. f[<<part, i>>] = ReadList(text, part, entry, f)
        BY <1>1 DEF KeepsFrom, StepAt
      <3>2. \A j \in Nat : j > i /\ f[<<part, j>>] # Nothing => f[<<part, j>>].value \in Seq(I)
        <4>1. Good(m - 1)
          BY <1>4
        <4>2. \A j \in Nat : j > i => j + (m - 1) >= last
          BY <1>1, <2>1
        <4> HIDE DEF last
        <4> QED BY <4>1, <4>2
      <3>3. Advanced(entry, i)
        <4>1. Advanced(f[<<"value", i>>], i) /\ Advanced(f[<<"value", i + 2>>], i + 2)
          BY <1>1, <1>2
        <4> HIDE DEF last, P, Good
        <4> QED BY <1>1, <4>1, EntryAdvances
      <3>4. entry # Nothing => entry.value \in I
        OBVIOUS
      <3> HIDE DEF entry, last, Good, P
      <3> QED BY <2>1, <3>1, <3>2, <3>3, <3>4, ListHolds
    <2> QED BY <1>1, <2>1
  <1>5. \A m \in 0 .. last : m \in P
    <2> HIDE DEF last, P, Good
    <2> QED BY <1>1, <1>3, <1>4, Induction
  <1> QED BY <1>1, <1>5

LEMMA ReadsJson ==
  ASSUME NEW text \in Seq(Tokens)
  PROVE  Read(text) = Nothing \/ \E V : IsJson(V) /\ Read(text) \in V
  <1> DEFINE f == ParserOf(text)
             V == ValuesOfParser(f)
  <1>1. KeepsFrom(f, text, 0)
    BY ParserKeeps
  <1> HIDE DEF f
  <1>2. \A i \in Nat : f[<<"value", i>>] # Nothing => f[<<"value", i>>].value \in V
    BY DEF ValuesOfParser
  <1>3. ASSUME NEW part \in {"items", "members"}, NEW i \in Nat
        PROVE  f[<<part, i>>] # Nothing => f[<<part, i>>].value \in Seq(IF part = "items" THEN V ELSE Members(V))
    <2> HIDE DEF V
    <2>1. \A j \in Nat : ReadEntry(text, part, j, f) # Nothing =>
            ReadEntry(text, part, j, f).value \in (IF part = "items" THEN V ELSE Members(V))
      BY <1>2, EntryHolds
    <2> QED BY <1>1, <2>1, ListsHold
  <1>4. ASSUME NEW v \in V
        PROVE  IsScalar(v) \/ (\E s \in Seq(V) : v = Array(s)) \/ (\E s \in Seq(Members(V)) : v = Object(s))
    <2>1. PICK i \in Nat : f[<<"value", i>>] # Nothing /\ v = f[<<"value", i>>].value
      BY DEF ValuesOfParser
    <2> HIDE DEF V
    <2>2. f[<<"value", i>>] = ReadValue(text, i, f)
      BY <1>1 DEF KeepsFrom, StepAt, Parts
    <2> DEFINE x == f[<<"members", i + 1>>]
               y == f[<<"items", i + 1>>]
    <2>3. /\ x # Nothing => x.value \in Seq(Members(V))
          /\ y # Nothing => y.value \in Seq(V)
      BY <1>3
    <2> HIDE DEF x, y
    <2>4. \/ ReadValue(text, i, f) = Found(Object(<<>>), i + 2)
          \/ ReadValue(text, i, f) = Enclosed("members", x)
          \/ ReadValue(text, i, f) = Found(Array(<<>>), i + 2)
          \/ ReadValue(text, i, f) = Enclosed("items", y)
          \/ ReadValue(text, i, f) = ReadScalar(text, i)
      BY Zenon DEF ReadValue, x, y
    <2>5. <<>> \in Seq(V) /\ <<>> \in Seq(Members(V))
      OBVIOUS
    <2>6. CASE ReadValue(text, i, f) = Found(Object(<<>>), i + 2)
      <3>1. v = Object(<<>>)
        BY <2>1, <2>2, <2>6, NothingFacts
      <3> QED BY <2>5, <3>1
    <2>7. CASE ReadValue(text, i, f) = Found(Array(<<>>), i + 2)
      <3>1. v = Array(<<>>)
        BY <2>1, <2>2, <2>7, NothingFacts
      <3> QED BY <2>5, <3>1
    <2>8. CASE ReadValue(text, i, f) = Enclosed("members", x)
      <3>1. x # Nothing
        BY <2>1, <2>2, <2>8 DEF Enclosed
      <3>2. Enclosed("members", x) = Found(Object(x.value), x.next)
        BY <3>1 DEF Enclosed
      <3>3. v = Object(x.value)
        BY <2>1, <2>2, <2>8, <3>2, NothingFacts
      <3> QED BY <2>3, <3>1, <3>3
    <2>9. CASE ReadValue(text, i, f) = Enclosed("items", y)
      <3>1. y # Nothing
        BY <2>1, <2>2, <2>9 DEF Enclosed
      <3>2. Enclosed("items", y) = Found(Array(y.value), y.next)
        BY <3>1 DEF Enclosed
      <3>3. v = Array(y.value)
        BY <2>1, <2>2, <2>9, <3>2, NothingFacts
      <3> QED BY <2>3, <3>1, <3>3
    <2>10. CASE ReadValue(text, i, f) = ReadScalar(text, i)
      <3>1. i \in DOMAIN text /\ Scalar(text[i]) # Nothing /\ ReadScalar(text, i) = Found(Scalar(text[i]), i + 1)
        BY <2>1, <2>2, <2>10, Zenon DEF ReadScalar
      <3>2. v = Scalar(text[i]) /\ text[i] \in Tokens
        BY <2>1, <2>2, <2>10, <3>1, NothingFacts
      <3> QED BY <3>1, <3>2, ScalarFacts
    <2> QED BY <2>4, <2>6, <2>7, <2>8, <2>9, <2>10
  <1>5. IsJson(V)
    <2> HIDE DEF V
    <2> QED BY <1>4 DEF IsJson
  <1> DEFINE root == f[<<"value", 1>>]
  <1>6. Read(text) = WholeText(text, root)
    BY ReadWithParser DEF f
  <1>7. CASE root = Nothing
    BY <1>6, <1>7 DEF WholeText
  <1>8. CASE root # Nothing
    <2>1. root.value \in V
      BY <1>2, <1>8
    <2>2. Read(text) = Nothing \/ Read(text) = root.value
      BY <1>6, <1>8, Zenon DEF WholeText
    <2> HIDE DEF V, root
    <2> QED BY <1>5, <2>1, <2>2
  <1> QED BY <1>7, <1>8

-----------------------------------------------------------------------------
(* The members of an object.                                                *)

\* A value has one type, and what belongs to it.
LEMMA TypeFacts ==
  ASSUME NEW V, IsJson(V), NEW v \in V
  PROVE  /\ Is("string", v) => v.string \in Seq(Glyphs) /\ v = String(v.string)
         /\ Is("number", v) => v.number \in Int /\ v.number <= MaxInt /\ v = Number(v.number)
         /\ Is("boolean", v) => v.boolean \in BOOLEAN /\ v = Boolean(v.boolean)
         /\ Is("array", v) => v.array \in Seq(V) /\ v = Array(v.array)
         /\ Is("object", v) => v.object \in Seq(Members(V))
         /\ v # Nothing
  <1>1. CASE v = Null
    BY <1>1 DEF Is, Null, Nothing
  <1>2. CASE \E b \in BOOLEAN : v = Boolean(b)
    BY <1>2 DEF Is, Boolean, Nothing
  <1>3. CASE \E n \in Int : n <= MaxInt /\ v = Number(n)
    BY <1>3 DEF Is, Number, Nothing
  <1>4. CASE \E t \in Seq(Glyphs) : v = String(t)
    BY <1>4 DEF Is, String, Nothing
  <1>5. CASE \E s \in Seq(V) : v = Array(s)
    BY <1>5 DEF Is, Array, Nothing
  <1>6. CASE \E s \in Seq(Members(V)) : v = Object(s)
    BY <1>6 DEF Is, Object, Nothing
  <1> QED BY <1>1, <1>2, <1>3, <1>4, <1>5, <1>6, Zenon DEF IsJson, IsScalar

LEMMA NothingHasNoType ==
  /\ ~Is("string", Nothing) /\ ~Is("number", Nothing) /\ ~Is("boolean", Nothing)
  /\ ~Is("array", Nothing) /\ ~Is("object", Nothing)
  /\ ~Is("string", Null) /\ ~Is("number", Null) /\ Null # Nothing
  BY DEF Is, Nothing, Null

\* The lookup finds what the object says.
LEMMA FieldIsSaid ==
  ASSUME NEW V, IsJson(V), NEW root \in V, Is("object", root), NEW name
  PROVE  Field(root, name) = Said(root, name) /\ (Said(root, name) = Nothing \/ Said(root, name) \in V)
  <1> DEFINE members == root.object
             named == {i \in 1 .. Len(members) : members[i].key = <<Plain(name)>>}
             least == CHOOSE i \in named : \A j \in named : i <= j
  <1>1. members \in Seq(Members(V))
    BY TypeFacts
  <1>2. /\ Len(members) \in Nat /\ DOMAIN members = 1 .. Len(members)
        /\ \A i \in 1 .. Len(members) : members[i].value \in V
    <2>1. \A i \in 1 .. Len(members) : members[i] \in Members(V)
      BY <1>1
    <2>2. \A m \in Members(V) : m.value \in V
      BY DEF Members
    <2>3. Len(members) \in Nat /\ DOMAIN members = 1 .. Len(members)
      <3> HIDE DEF members
      <3> QED BY <1>1
    <2> QED BY <2>1, <2>2, <2>3
  <1>3. Field(root, name) =
          LET i == IF named # {} THEN least ELSE 0
          IN IF i = 0 THEN Nothing ELSE members[i].value
    BY Zenon DEF Field, FindField, SelectInSeq, Min
  <1>4. Said(root, name) = IF named = {} THEN Nothing ELSE members[least].value
    <2> DEFINE said == {i \in DOMAIN members : members[i].key = <<Plain(name)>>}
    <2>1. Said(root, name) = IF said = {} THEN Nothing ELSE members[CHOOSE i \in said : \A j \in said : i <= j].value
      BY Zenon DEF Said
    <2>2. said = named
      BY <1>2
    <2> HIDE DEF named, said
    <2> QED BY <2>1, <2>2, Zenon DEF named
  <1>5. CASE named = {}
    <2> HIDE DEF named, least
    <2> QED BY <1>3, <1>4, <1>5
  <1>6. CASE named # {}
    <2>1. named \in SUBSET Nat
      BY <1>2
    <2>2. \E i \in named : \A j \in named : i <= j
      <3> HIDE DEF named
      <3> QED BY <1>6, <2>1, LeastOf
    <2>3. least \in named
      <3> HIDE DEF named
      <3> QED BY <2>2
    <2>4. least \in 1 .. Len(members) /\ least # 0
      <3> HIDE DEF least, members
      <3> QED BY <2>3
    <2> HIDE DEF named, least, members
    <2> QED BY <1>2, <1>3, <1>4, <1>6, <2>4
  <1> QED BY <1>5, <1>6

LEMMA OneItem ==
  ASSUME NEW S, NEW s \in Seq(S), Len(s) = 1
  PROVE  s = <<s[1]>> /\ s[1] \in S
  <1>1. s[1] \in S /\ <<s[1]>> \in Seq(S) /\ Len(<<s[1]>>) = 1
    OBVIOUS
  <1>2. \A i \in 1 .. 1 : s[i] = <<s[1]>>[i]
    OBVIOUS
  <1> DEFINE one == <<s[1]>>
  <1>3. one[1] = s[1] /\ one \in Seq(S) /\ Len(one) = 1
    BY <1>1
  <1> HIDE DEF one
  <1>4. s = one
    <2>1. \A i \in 1 .. Len(s) : s[i] = one[i]
      BY <1>3
    <2> QED BY <1>3, <2>1, SeqEqual
  <1> QED BY <1>1, <1>4 DEF one

\* A value that spells a name is the string of that name.
LEMMA NameFacts ==
  ASSUME NEW V, IsJson(V), NEW v \in V, NameOf(v) # ""
  PROVE  Is("string", v) /\ v = String(<<Plain(NameOf(v))>>)
  <1>1. Is("string", v) /\ Len(v.string) = 1 /\ NameOf(v) = v.string[1].run
    BY Zenon DEF NameOf
  <1>2. v.string \in Seq(Glyphs) /\ v = String(v.string)
    BY <1>1, TypeFacts
  <1> DEFINE t == v.string
             glyph == t[1]
  <1>3. t = <<glyph>> /\ glyph \in Glyphs
    <2>1. t \in Seq(Glyphs) /\ Len(t) = 1
      BY <1>1, <1>2
    <2> HIDE DEF t
    <2> QED BY <2>1, OneItem
  <1>4. glyph = [run |-> glyph.run, code |-> glyph.code] /\ glyph.code = 0
    <2> HIDE DEF glyph
    <2> QED BY <1>1, <1>3 DEF Glyphs, glyph
  <1>5. glyph = Plain(NameOf(v))
    <2> HIDE DEF glyph
    <2> QED BY <1>1, <1>4 DEF Plain, glyph
  <1> HIDE DEF glyph
  <1>6. t = <<Plain(NameOf(v))>>
    BY <1>3, <1>5
  <1> QED BY <1>1, <1>2, <1>6

LEMMA ReportsNothing ==
  ASSUME NEW condition, NEW diagnostic
  PROVE  Reports(condition, diagnostic) = {} <=> ~condition
  BY DEF Reports

\* What reading a member without a diagnostic means.
LEMMA ReadsFacts ==
  ASSUME NEW root, NEW name
  PROVE  LET v == Field(root, name)
         IN /\ ReadsString(root, name) = {} <=> Is("string", v)
            /\ ReadsBoolean(root, name) = {} <=> Is("boolean", v)
            /\ ReadsTime(root, name) = {} <=> v = Nothing \/ v = Null \/ Is("string", v)
            /\ ReadsInteger(root, name, TRUE) = {} <=> Is("number", v) /\ v.number >= 0
            /\ ReadsInteger(root, name, FALSE) = {} <=>
                 v = Nothing \/ v = Null \/ (Is("number", v) /\ v.number >= 0)
            /\ \A names : ReadsEnum(root, name, names) = {} <=> Is("string", v) /\ NameOf(v) \in names
  <1> DEFINE v == Field(root, name)
  <1>1. ReadsString(root, name) = {} <=> Is("string", v)
    BY ReportsNothing, NothingHasNoType, Zenon DEF ReadsString, Reads
  <1>2. ReadsBoolean(root, name) = {} <=> Is("boolean", v)
    BY ReportsNothing, NothingHasNoType, Zenon DEF ReadsBoolean, Reads
  <1>3. ReadsTime(root, name) = {} <=> v = Nothing \/ v = Null \/ Is("string", v)
    BY ReportsNothing, NothingHasNoType, Zenon DEF ReadsTime, Reads
  <1>4. ReadsInteger(root, name, TRUE) = {} <=> Is("number", v) /\ v.number >= 0
    BY ReportsNothing, NothingHasNoType, Zenon DEF ReadsInteger, Reads
  <1>5. ReadsInteger(root, name, FALSE) = {} <=> v = Nothing \/ v = Null \/ (Is("number", v) /\ v.number >= 0)
    BY ReportsNothing, NothingHasNoType, Zenon DEF ReadsInteger, Reads
  <1>6. \A names : ReadsEnum(root, name, names) = {} <=> Is("string", v) /\ NameOf(v) \in names
    BY ReportsNothing, NothingHasNoType, Zenon DEF ReadsEnum, Reads
  <1> QED BY <1>1, <1>2, <1>3, <1>4, <1>5, <1>6, Zenon

LEMMA ReadsSourcesFacts ==
  ASSUME NEW root, NEW name
  PROVE  LET v == Field(root, name)
         IN ReadsSources(root, name) = {} <=>
              Is("array", v) /\ IsInjective(Sources(v.array)) /\ ItemDiagnostics(v.array, name) = {}
  <1> DEFINE v == Field(root, name)
             mine == Reads(root, name, TRUE, "array", LAMBDA w : IsInjective(Sources(w.array)), "invalid_value")
             items == IF Is("array", v) THEN ItemDiagnostics(v.array, name) ELSE {}
  <1>1. ReadsSources(root, name) = mine \union items
    BY Zenon DEF ReadsSources
  <1>2. mine = {} <=> Is("array", v) /\ IsInjective(Sources(v.array))
    BY ReportsNothing, NothingHasNoType, Zenon DEF Reads
  <1>3. Is("array", v) => items = ItemDiagnostics(v.array, name)
    OBVIOUS
  <1> HIDE DEF v, mine, items
  <1>4. ReadsSources(root, name) = {} <=> mine = {} /\ items = {}
    BY <1>1
  <1> QED BY <1>2, <1>3, <1>4, Zenon DEF v

LEMMA ItemFacts ==
  ASSUME NEW items, NEW name
  PROVE  ItemDiagnostics(items, name) = {} <=>
           \A i \in DOMAIN items : Is("string", items[i]) /\ NameOf(items[i]) \in TimeSource
  <1> DEFINE at(i) == IF ~Is("string", items[i]) THEN {ErrAtItem("invalid_type", name, i)}
                      ELSE Reports(NameOf(items[i]) \notin TimeSource, ErrAtItem("invalid_time_source", name, i))
  <1>1. ItemDiagnostics(items, name) = UNION {at(i) : i \in DOMAIN items}
    BY Zenon DEF ItemDiagnostics
  <1>2. \A i : at(i) = {} <=> Is("string", items[i]) /\ NameOf(items[i]) \in TimeSource
    BY ReportsNothing, Zenon
  <1> HIDE DEF at
  <1>3. UNION {at(i) : i \in DOMAIN items} = {} <=> \A i \in DOMAIN items : at(i) = {}
    OBVIOUS
  <1> QED BY <1>1, <1>2, <1>3

-----------------------------------------------------------------------------
(* The sources of a policy.                                                 *)

\* The names of the first n items.
FirstNames(items, n) == [i \in 1 .. n |-> NameOf(items[i])]

LEMMA OneNameMore ==
  ASSUME NEW items, NEW S, NEW n \in Nat, \A i \in 1 .. n + 1 : NameOf(items[i]) \in S
  PROVE  /\ FirstNames(items, n) \in Seq(S)
         /\ Append(FirstNames(items, n), NameOf(items[n + 1])) = FirstNames(items, n + 1)
  <1> DEFINE s == FirstNames(items, n)
             t == FirstNames(items, n + 1)
             last == NameOf(items[n + 1])
  <1>1. s \in [1 .. n -> S] /\ t \in [1 .. n + 1 -> S] /\ last \in S
    BY DEF FirstNames
  <1>2. s \in Seq(S) /\ Len(s) = n /\ t \in Seq(S) /\ Len(t) = n + 1
    <2> HIDE DEF s, t
    <2> QED BY <1>1
  <1>3. (\A i \in 1 .. n : s[i] = t[i]) /\ t[n + 1] = last
    BY DEF FirstNames
  <1>4. Append(s, last) = t
    <2> HIDE DEF s, t, last
    <2> DEFINE u == Append(s, last)
    <2>1. u \in Seq(S) /\ Len(u) = n + 1 /\ (\A i \in 1 .. n : u[i] = s[i]) /\ u[n + 1] = last
      BY <1>1, <1>2
    <2> HIDE DEF u
    <2>2. \A i \in 1 .. Len(u) : u[i] = t[i]
      BY <1>3, <2>1
    <2>3. u = t
      BY <1>2, <2>1, <2>2, SeqEqual
    <2> QED BY <2>3 DEF u
  <1> QED BY <1>2, <1>4

\* All items are sources: what they name are the sources, one for each item.
LEMMA SourcesOfNamed ==
  ASSUME NEW items, Len(items) \in Nat, \A i \in 1 .. Len(items) : NameOf(items[i]) \in TimeSource
  PROVE  Sources(items) = FirstNames(items, Len(items))
  <1> DEFINE n == Len(items)
             Step(f) == [m \in 0 .. n |->
                           IF m = 0 THEN <<>>
                           ELSE IF NameOf(items[m]) \in TimeSource THEN Append(f[m - 1], NameOf(items[m]))
                           ELSE f[m - 1]]
             g == [m \in 0 .. n |-> FirstNames(items, m)]
             named == CHOOSE f : f = Step(f)
  <1>1. FirstNames(items, 0) = <<>>
    BY DEF FirstNames
  <1>2. ASSUME NEW m \in 1 .. n PROVE Append(FirstNames(items, m - 1), NameOf(items[m])) = FirstNames(items, m)
    <2>1. m - 1 \in Nat /\ (m - 1) + 1 = m /\ \A i \in 1 .. (m - 1) + 1 : NameOf(items[i]) \in TimeSource
      OBVIOUS
    <2> HIDE DEF n
    <2>2. Append(FirstNames(items, m - 1), NameOf(items[(m - 1) + 1])) = FirstNames(items, (m - 1) + 1)
      BY <2>1, OneNameMore
    <2> QED BY <2>1, <2>2
  <1>3. g = Step(g)
    BY <1>1, <1>2
  <1>4. named = Step(named)
    <2> HIDE DEF Step, g
    <2> QED BY <1>3
  <1>5. Sources(items) = named[n]
    BY Zenon DEF Sources
  <1> HIDE DEF named
  <1> DEFINE P == {m \in 0 .. n : named[m] = FirstNames(items, m)}
  <1>6. \A m \in 0 .. n : named[m] = IF m = 0 THEN <<>>
                                     ELSE IF NameOf(items[m]) \in TimeSource
                                     THEN Append(named[m - 1], NameOf(items[m])) ELSE named[m - 1]
    <2>1. \A m \in 0 .. n : named[m] = Step(named)[m]
      <3> HIDE DEF Step
      <3> QED BY <1>4
    <2> HIDE DEF n
    <2> QED BY <2>1
  <1>7. 0 \in P
    BY <1>1, <1>6
  <1>8. ASSUME NEW m \in 1 .. n, m - 1 \in P PROVE m \in P
    <2>1. m \in 0 .. n /\ m # 0 /\ NameOf(items[m]) \in TimeSource
      OBVIOUS
    <2>2. named[m - 1] = FirstNames(items, m - 1)
      BY <1>8
    <2> HIDE DEF n
    <2>3. named[m] = Append(named[m - 1], NameOf(items[m]))
      BY <1>6, <2>1
    <2>4. named[m] = FirstNames(items, m)
      BY <1>2, <2>2, <2>3
    <2> QED BY <2>1, <2>4
  <1>9. n \in P
    <2>1. n \in Nat
      OBVIOUS
    <2> HIDE DEF P, Step, n
    <2>2. \A m \in 0 .. n : m \in P
      BY <1>7, <1>8, <2>1, Induction
    <2> QED BY <2>1, <2>2
  <1> QED BY <1>5, <1>9

\* Distinct sources are distinct items.
LEMMA DistinctItems ==
  ASSUME NEW V, IsJson(V), NEW items \in Seq(V), \A i \in DOMAIN items : NameOf(items[i]) \in TimeSource
  PROVE  /\ Sources(items) \in Seq(TimeSource) /\ DOMAIN Sources(items) = DOMAIN items
         /\ \A i \in DOMAIN items : Sources(items)[i] = NameOf(items[i])
         /\ IsInjective(Sources(items)) <=> IsInjective(items)
  <1> DEFINE s == Sources(items)
  <1>1. Len(items) \in Nat /\ DOMAIN items = 1 .. Len(items) /\ \A i \in DOMAIN items : items[i] \in V
    OBVIOUS
  <1>2. s = [i \in DOMAIN items |-> NameOf(items[i])]
    BY <1>1, SourcesOfNamed DEF FirstNames
  <1> HIDE DEF s
  <1>3. s \in [1 .. Len(items) -> TimeSource]
    BY <1>1, <1>2
  <1>4. s \in Seq(TimeSource)
    BY <1>1, <1>3
  <1>5. ASSUME NEW i \in DOMAIN items, NEW j \in DOMAIN items
        PROVE  s[i] = s[j] <=> items[i] = items[j]
    <2>1. NameOf(items[i]) # "" /\ NameOf(items[j]) # ""
      BY DEF TimeSource
    <2>2. items[i] = String(<<Plain(NameOf(items[i]))>>) /\ items[j] = String(<<Plain(NameOf(items[j]))>>)
      BY <1>1, <2>1, NameFacts
    <2> QED BY <1>2, <2>2
  <1>6. IsInjective(s) <=> IsInjective(items)
    BY <1>2, <1>5 DEF IsInjective
  <1> QED BY <1>2, <1>4, <1>6 DEF s

LEMMA InjectiveAppend ==
  ASSUME NEW S, NEW s \in Seq(S), IsInjective(s), NEW x \in S, x \notin Range(s)
  PROVE  IsInjective(Append(s, x)) /\ Range(Append(s, x)) = Range(s) \union {x}
  <1> DEFINE t == Append(s, x)
             n == Len(s)
  <1>1. /\ n \in Nat /\ DOMAIN s = 1 .. n /\ DOMAIN t = 1 .. n + 1
        /\ (\A i \in 1 .. n : t[i] = s[i]) /\ t[n + 1] = x
    OBVIOUS
  <1>2. \A i \in 1 .. n : s[i] # x
    BY <1>1 DEF Range
  <1> HIDE DEF t, n
  <1>3. IsInjective(t)
    BY <1>1, <1>2 DEF IsInjective
  <1>4. Range(t) = Range(s) \union {x}
    <2>1. \A y : y \in Range(t) <=> \E i \in 1 .. n + 1 : y = t[i]
      BY <1>1 DEF Range
    <2>2. \A y : y \in Range(s) <=> \E i \in 1 .. n : y = s[i]
      BY <1>1 DEF Range
    <2>3. \A i : i \in 1 .. n + 1 <=> i \in 1 .. n \/ i = n + 1
      BY <1>1
    <2>4. \A y : y \in Range(t) <=> y \in Range(s) \/ y = x
      BY <1>1, <2>1, <2>2, <2>3
    <2> QED BY <2>4
  <1> QED BY <1>3, <1>4 DEF t

\* The sources of a policy that was parsed: the same ones, each once.
LEMMA SortedFacts ==
  ASSUME NEW sources \in Seq(TimeSource)
  PROVE  /\ Sorted(sources) \in Seq(TimeSource) /\ IsInjective(Sorted(sources))
         /\ Range(Sorted(sources)) = Range(sources)
  <1> DEFINE n == 5
             V == Seq(TimeSource)
             base == <<>>
             Next1(s, i) == IF SourceOrder[i] \in Range(sources) THEN Append(s, SourceOrder[i]) ELSE s
             step == [p \in V \X (1 .. n) |-> Next1(p[1], p[2])]
             Step(f) == [m \in 0 .. n |-> IF m = 0 THEN base ELSE Next1(f[m - 1], m)]
             sorted == CHOOSE f : f = Step(f)
             Upto(m) == {SourceOrder[i] : i \in 1 .. m}
             P == {m \in 0 .. n : /\ sorted[m] \in V /\ IsInjective(sorted[m])
                                  /\ Range(sorted[m]) = Range(sources) \intersect Upto(m)}
  <1>1. Len(SourceOrder) = n /\ n \in Nat
    BY DEF SourceOrder
  <1>2. \A i \in 1 .. n : SourceOrder[i] \in TimeSource
    BY DEF SourceOrder, TimeSource
  <1>3. Sorted(sources) = sorted[n]
    <2>1. Sorted(sources) = LET f == CHOOSE g : g = [m \in 0 .. Len(SourceOrder) |-> IF m = 0 THEN base ELSE Next1(g[m - 1], m)]
                            IN f[Len(SourceOrder)]
      <3>1. Sorted(sources) =
              LET srt[m \in 0 .. Len(SourceOrder)] ==
                    IF m = 0 THEN <<>>
                    ELSE IF SourceOrder[m] \in Range(sources) THEN Append(srt[m - 1], SourceOrder[m])
                    ELSE srt[m - 1]
              IN srt[Len(SourceOrder)]
        BY Zenon DEF Sorted
      <3> QED BY <3>1, Zenon
    <2> HIDE DEF n, Next1
    <2> QED BY <1>1, <2>1
  <1>4. base \in V
    OBVIOUS
  <1>5. \A s \in V, i \in 1 .. n : Next1(s, i) \in V
    BY <1>2
  <1>6. sorted = Step(sorted)
    <2>1. step \in [V \X (1 .. n) -> V]
      <3>1. \A p \in V \X (1 .. n) : Next1(p[1], p[2]) \in V
        <4> HIDE DEF Next1, V, n
        <4> QED BY <1>5
      <3> HIDE DEF Next1, V, n
      <3> QED BY <3>1
    <2>2. PICK f \in [0 .. n -> V] : Follows(f, n, base, step)
      <3> HIDE DEF V, base, step, n
      <3> QED BY <1>1, <1>4, <2>1, Recursion
    <2>3. ASSUME NEW i \in 1 .. n PROVE f[i] = Next1(f[i - 1], i)
      <3>1. f[i - 1] \in V /\ <<f[i - 1], i>> \in V \X (1 .. n)
        <4> HIDE DEF V
        <4> QED OBVIOUS
      <3>2. f[i] = step[<<f[i - 1], i>>]
        <4> HIDE DEF V, base, step, n
        <4> QED BY <2>2 DEF Follows
      <3> HIDE DEF V, n, Next1
      <3> QED BY <3>1, <3>2
    <2>4. f[0] = base /\ f = [m \in 0 .. n |-> f[m]]
      <3> HIDE DEF V, base, step, n
      <3> QED BY <2>2 DEF Follows
    <2>5. f = Step(f)
      <3>1. ASSUME NEW m \in 0 .. n PROVE f[m] = IF m = 0 THEN base ELSE Next1(f[m - 1], m)
        <4>1. m = 0 \/ m \in 1 .. n
          OBVIOUS
        <4> HIDE DEF Next1, base, n, V, step
        <4> QED BY <2>3, <2>4, <4>1
      <3> HIDE DEF Next1, base, n, V, step
      <3> QED BY <2>4, <3>1
    <2> HIDE DEF Step
    <2> QED BY <2>5
  <1> HIDE DEF sorted
  <1>7. \A m \in 0 .. n : sorted[m] = IF m = 0 THEN base ELSE Next1(sorted[m - 1], m)
    <2>1. \A m \in 0 .. n : sorted[m] = Step(sorted)[m]
      <3> HIDE DEF Step
      <3> QED BY <1>6
    <2> HIDE DEF Next1, base, n
    <2> QED BY <2>1
  <1>8. 0 \in P
    <2>1. sorted[0] = <<>>
      BY <1>7
    <2>2. IsInjective(<<>>) /\ Range(<<>>) = {} /\ Upto(0) = {}
      BY DEF IsInjective, Range
    <2> HIDE DEF Upto, V, n
    <2>3. sorted[0] \in V /\ IsInjective(sorted[0]) /\ Range(sorted[0]) = Range(sources) \intersect Upto(0)
      BY <1>4, <2>1, <2>2
    <2> QED BY <1>1, <2>3
  <1>9. ASSUME NEW m \in 1 .. n, m - 1 \in P PROVE m \in P
    <2> DEFINE s == sorted[m - 1]
               x == SourceOrder[m]
    <2>1. s \in V /\ IsInjective(s) /\ Range(s) = Range(sources) \intersect Upto(m - 1)
      BY <1>9
    <2>2. sorted[m] = IF x \in Range(sources) THEN Append(s, x) ELSE s
      <3>1. m \in 0 .. n /\ m # 0
        OBVIOUS
      <3>2. sorted[m] = Next1(s, m)
        <4> HIDE DEF Next1, n
        <4> QED BY <1>7, <3>1
      <3> QED BY <3>2, Zenon
    <2>3. x \in TimeSource /\ Upto(m) = Upto(m - 1) \union {x}
      <3>1. \A i : i \in 1 .. m <=> i \in 1 .. m - 1 \/ i = m
        OBVIOUS
      <3> QED BY <1>2, <3>1
    <2>4. x \notin Upto(m - 1)
      BY DEF SourceOrder
    <2> HIDE DEF s, x, Upto, V, n
    <2>5. CASE x \in Range(sources)
      <3>1. IsInjective(Append(s, x)) /\ Range(Append(s, x)) = Range(s) \union {x}
        BY <2>1, <2>3, <2>4, InjectiveAppend DEF V
      <3>2. Append(s, x) \in V
        BY <2>1, <2>3 DEF V
      <3>3. Range(Append(s, x)) = Range(sources) \intersect Upto(m)
        BY <2>1, <2>3, <2>5, <3>1
      <3>4. sorted[m] = Append(s, x)
        BY <2>2, <2>5, Zenon
      <3>5. sorted[m] \in V /\ IsInjective(sorted[m]) /\ Range(sorted[m]) = Range(sources) \intersect Upto(m)
        BY <3>1, <3>2, <3>3, <3>4, Zenon
      <3> QED BY <3>5 DEF n
    <2>6. CASE x \notin Range(sources)
      <3>1. Range(s) = Range(sources) \intersect Upto(m)
        BY <2>1, <2>3, <2>6
      <3>2. sorted[m] = s
        BY <2>2, <2>6, Zenon
      <3>3. sorted[m] \in V /\ IsInjective(sorted[m]) /\ Range(sorted[m]) = Range(sources) \intersect Upto(m)
        BY <2>1, <3>1, <3>2, Zenon
      <3> QED BY <3>3 DEF n
    <2> QED BY <2>5, <2>6
  <1>10. n \in P
    <2>1. \A m \in 0 .. n : m \in P
      <3> HIDE DEF P, n
      <3> QED BY <1>1, <1>8, <1>9, Induction
    <2> HIDE DEF P
    <2> QED BY <2>1
  <1>11. Range(sources) \subseteq Upto(n)
    <2>1. Range(sources) \subseteq TimeSource
      BY DEF Range
    <2>2. TimeSource \subseteq Upto(n)
      <3>1. \A x \in TimeSource : \E i \in 1 .. 5 : x = SourceOrder[i]
        <4>1. /\ 1 \in 1 .. 5 /\ 2 \in 1 .. 5 /\ 3 \in 1 .. 5 /\ 4 \in 1 .. 5 /\ 5 \in 1 .. 5
              /\ SourceOrder[1] = "rtc_secure" /\ SourceOrder[2] = "rtc_untrusted"
              /\ SourceOrder[3] = "imported_secure_time" /\ SourceOrder[4] = "operator_set_time_placeholder"
              /\ SourceOrder[5] = "unknown"
          BY DEF SourceOrder
        <4> QED BY <4>1 DEF TimeSource
      <3> QED BY <3>1
    <2> QED BY <2>1, <2>2
  <1> HIDE DEF Upto
  <1>12. Range(sources) \intersect Upto(n) = Range(sources)
    BY <1>11
  <1>13. sorted[n] \in V /\ IsInjective(sorted[n]) /\ Range(sorted[n]) = Range(sources) \intersect Upto(n)
    BY <1>10
  <1> HIDE DEF n
  <1> QED BY <1>3, <1>12, <1>13

-----------------------------------------------------------------------------
(* Policies.                                                                *)

PolicyNumbers == {"max_allowed_skew_seconds", "freshness_window_seconds"}
PolicyFlags   == {"monotonic_required", "fail_closed_on_untrusted_time"}

\* The members of a policy have their types and their values.
ReadablePolicy(root) ==
  /\ Is("string", Said(root, "clock_id"))
  /\ \A name \in PolicyNumbers : Is("number", Said(root, name)) /\ Said(root, name).number >= 0
  /\ \A name \in PolicyFlags : Is("boolean", Said(root, name))
  /\ Is("array", Said(root, "allowed_time_sources"))
  /\ LET items == Said(root, "allowed_time_sources").array
     IN IsInjective(items) /\ \A i \in DOMAIN items : NameOf(items[i]) \in TimeSource

\* The items of a member that is an array.
LEMMA ItemsFacts ==
  ASSUME NEW V, IsJson(V), NEW v, v = Nothing \/ v \in V, Is("array", v)
  PROVE  v \in V /\ v.array \in Seq(V)
  BY TypeFacts, NothingHasNoType

LEMMA PolicyReads ==
  ASSUME NEW V, IsJson(V), NEW root \in V, Is("object", root)
  PROVE  SecureClockPolicyReads(root) = {} <=> ReadablePolicy(root)
  <1> DEFINE sources == Said(root, "allowed_time_sources")
  <1>1. \A name : Field(root, name) = Said(root, name) /\ (Said(root, name) = Nothing \/ Said(root, name) \in V)
    BY FieldIsSaid
  <1>2. SecureClockPolicyReads(root) = {} <=>
          /\ ReadsString(root, "clock_id") = {}
          /\ ReadsInteger(root, "max_allowed_skew_seconds", TRUE) = {}
          /\ ReadsInteger(root, "freshness_window_seconds", TRUE) = {}
          /\ ReadsBoolean(root, "monotonic_required") = {}
          /\ ReadsSources(root, "allowed_time_sources") = {}
          /\ ReadsBoolean(root, "fail_closed_on_untrusted_time") = {}
    BY DEF SecureClockPolicyReads
  <1>3. ReadsString(root, "clock_id") = {} <=> Is("string", Said(root, "clock_id"))
    BY <1>1, ReadsFacts, Zenon
  <1>4. \A name : ReadsInteger(root, name, TRUE) = {} <=> Is("number", Said(root, name)) /\ Said(root, name).number >= 0
    BY <1>1, ReadsFacts, Zenon
  <1>5. \A name : ReadsBoolean(root, name) = {} <=> Is("boolean", Said(root, name))
    BY <1>1, ReadsFacts, Zenon
  <1>6. ReadsSources(root, "allowed_time_sources") = {} <=>
          /\ Is("array", sources) /\ IsInjective(Sources(sources.array))
          /\ ItemDiagnostics(sources.array, "allowed_time_sources") = {}
    <2> DEFINE v == Field(root, "allowed_time_sources")
    <2>1. ReadsSources(root, "allowed_time_sources") = {} <=>
            /\ Is("array", v) /\ IsInjective(Sources(v.array))
            /\ ItemDiagnostics(v.array, "allowed_time_sources") = {}
      BY ReadsSourcesFacts, Zenon
    <2>2. v = sources
      BY <1>1
    <2> HIDE DEF v, sources
    <2> QED BY <2>1, <2>2
  <1>7. Is("array", sources) =>
          (/\ IsInjective(Sources(sources.array))
           /\ ItemDiagnostics(sources.array, "allowed_time_sources") = {})
          <=> (IsInjective(sources.array) /\ \A i \in DOMAIN sources.array : NameOf(sources.array[i]) \in TimeSource)
    <2> SUFFICES ASSUME Is("array", sources)
                 PROVE  (/\ IsInjective(Sources(sources.array))
                         /\ ItemDiagnostics(sources.array, "allowed_time_sources") = {})
                        <=> (/\ IsInjective(sources.array)
                             /\ \A i \in DOMAIN sources.array : NameOf(sources.array[i]) \in TimeSource)
      OBVIOUS
    <2> DEFINE items == sources.array
    <2>1. items \in Seq(V)
      <3> HIDE DEF sources
      <3>1. sources = Nothing \/ sources \in V
        BY <1>1 DEF sources
      <3> QED BY <3>1, ItemsFacts
    <2>2. \A i \in DOMAIN items : items[i] \in V
      BY <2>1
    <2> HIDE DEF sources, items
    <2>3. \A i \in DOMAIN items : NameOf(items[i]) \in TimeSource => Is("string", items[i])
      <3>1. "" \notin TimeSource
        BY DEF TimeSource
      <3> QED BY <2>2, <3>1, NameFacts
    <2>4. ItemDiagnostics(items, "allowed_time_sources") = {} <=> \A i \in DOMAIN items : NameOf(items[i]) \in TimeSource
      BY <2>3, ItemFacts
    <2>5. (\A i \in DOMAIN items : NameOf(items[i]) \in TimeSource) => (IsInjective(Sources(items)) <=> IsInjective(items))
      BY <2>1, DistinctItems
    <2> QED BY <2>4, <2>5, Zenon DEF items
  <1> HIDE DEF sources
  <1>8. ReadsSources(root, "allowed_time_sources") = {} <=>
          /\ Is("array", sources) /\ IsInjective(sources.array)
          /\ \A i \in DOMAIN sources.array : NameOf(sources.array[i]) \in TimeSource
    BY <1>6, <1>7, Zenon
  <1>9. ReadablePolicy(root) <=>
          /\ Is("string", Said(root, "clock_id"))
          /\ Is("number", Said(root, "max_allowed_skew_seconds")) /\ Said(root, "max_allowed_skew_seconds").number >= 0
          /\ Is("number", Said(root, "freshness_window_seconds")) /\ Said(root, "freshness_window_seconds").number >= 0
          /\ Is("boolean", Said(root, "monotonic_required"))
          /\ Is("boolean", Said(root, "fail_closed_on_untrusted_time"))
          /\ Is("array", sources) /\ IsInjective(sources.array)
          /\ \A i \in DOMAIN sources.array : NameOf(sources.array[i]) \in TimeSource
    BY Zenon DEF ReadablePolicy, PolicyNumbers, PolicyFlags, sources
  <1> QED BY <1>2, <1>3, <1>4, <1>5, <1>8, <1>9, Zenon

\* The object of a policy whose members are readable.
LEMMA PolicyMade ==
  ASSUME NEW V, IsJson(V), NEW root \in V, Is("object", root), ReadablePolicy(root)
  PROVE  /\ ParsePolicyObject(root) \in PolicyObject
         /\ PolicyDiagnostics(GatePolicy(ParsePolicyObject(root))) = {} <=> LegalPolicy(root)
  <1> DEFINE p == ParsePolicyObject(root)
             items == Said(root, "allowed_time_sources").array
             id == Said(root, "clock_id").string
             skew == Said(root, "max_allowed_skew_seconds").number
             window == Said(root, "freshness_window_seconds").number
             mono == Said(root, "monotonic_required").boolean
             closed == Said(root, "fail_closed_on_untrusted_time").boolean
             list == Sorted(Sources(items))
  <1>1. \A name : Field(root, name) = Said(root, name) /\ (Said(root, name) = Nothing \/ Said(root, name) \in V)
    BY FieldIsSaid
  <1>2. p = [clock_id |-> id, max_allowed_skew_seconds |-> skew, freshness_window_seconds |-> window,
             monotonic_required |-> mono, allowed_time_sources |-> list, fail_closed_on_untrusted_time |-> closed]
    BY <1>1, Zenon DEF ParsePolicyObject
  <1>3. id \in Seq(Glyphs)
    BY <1>1, TypeFacts, NothingHasNoType DEF ReadablePolicy
  <1>4. ASSUME NEW name \in PolicyNumbers PROVE Said(root, name).number \in 0 .. MaxInt
    <2>1. Is("number", Said(root, name)) /\ Said(root, name).number >= 0
      BY DEF ReadablePolicy
    <2>2. Said(root, name).number \in Int /\ Said(root, name).number <= MaxInt
      BY <1>1, <2>1, TypeFacts, NothingHasNoType
    <2> QED BY <2>1, <2>2, MaxIntAssumption
  <1>5. skew \in 0 .. MaxInt /\ window \in 0 .. MaxInt
    BY <1>4 DEF PolicyNumbers
  <1>6. ASSUME NEW name \in PolicyFlags PROVE Said(root, name).boolean \in BOOLEAN
    BY <1>1, TypeFacts, NothingHasNoType DEF ReadablePolicy
  <1>7. mono \in BOOLEAN /\ closed \in BOOLEAN
    <2>1. "monotonic_required" \in PolicyFlags /\ "fail_closed_on_untrusted_time" \in PolicyFlags
      BY DEF PolicyFlags
    <2> QED BY <1>6, <2>1, Zenon
  <1>8. items \in Seq(V) /\ IsInjective(items) /\ \A i \in DOMAIN items : NameOf(items[i]) \in TimeSource
    BY <1>1, ItemsFacts DEF ReadablePolicy
  <1> HIDE DEF items
  <1>9. /\ Sources(items) \in Seq(TimeSource) /\ DOMAIN Sources(items) = DOMAIN items
        /\ \A i \in DOMAIN items : Sources(items)[i] = NameOf(items[i])
    BY <1>8, DistinctItems
  <1>10. list \in Seq(TimeSource) /\ IsInjective(list) /\ Range(list) = Range(Sources(items))
    BY <1>9, SortedFacts
  <1>11. list = <<>> <=> items = <<>>
    <2>1. \A S : \A s \in Seq(S) : s = <<>> <=> DOMAIN s = {}
      <3>1. ASSUME NEW S, NEW s \in Seq(S) PROVE s = <<>> <=> DOMAIN s = {}
        <4>1. s = <<>> => DOMAIN s = {}
          OBVIOUS
        <4>2. ASSUME DOMAIN s = {} PROVE s = <<>>
          <5>1. Len(s) = 0
            BY <4>2
          <5> QED BY <5>1, EmptySeq
        <4> QED BY <4>1, <4>2
      <3> QED BY <3>1
    <2>2. \A s : Range(s) = {} <=> DOMAIN s = {}
      BY DEF Range
    <2> HIDE DEF list
    <2> QED BY <1>8, <1>9, <1>10, <2>1, <2>2
  <1> HIDE DEF p, id, skew, window, mono, closed, list
  <1>12. p \in PolicyObject
    BY <1>2, <1>3, <1>5, <1>7, <1>10 DEF PolicyObject
  <1> DEFINE given == IF id = <<>> THEN "empty" ELSE "given"
  <1>13. GatePolicy(p) = [p EXCEPT !.clock_id = given]
    BY <1>2, Zenon DEF GatePolicy
  <1> HIDE DEF given
  <1>14. GatePolicy(p).clock_id = given /\ GatePolicy(p).allowed_time_sources = list
    BY <1>2, <1>13
  <1>15. given = "empty" <=> id = <<>>
    BY DEF given
  <1>16. PolicyDiagnostics(GatePolicy(p)) = {} <=> id # <<>> /\ list # <<>>
    <2> DEFINE unnamed == Reports(given = "empty", Err("invalid_value", "clock_id"))
               empty == Reports(list = <<>>, Err("missing_required_time_field", "allowed_time_sources"))
               twice == Reports(~IsInjective(list), Err("invalid_value", "allowed_time_sources"))
    <2>1. PolicyDiagnostics(GatePolicy(p)) = unnamed \union empty \union twice
      BY <1>14, Zenon DEF PolicyDiagnostics
    <2>2. (unnamed = {} <=> given # "empty") /\ (empty = {} <=> list # <<>>) /\ twice = {}
      BY <1>10, ReportsNothing, Zenon
    <2> HIDE DEF unnamed, empty, twice
    <2> QED BY <1>15, <2>1, <2>2
  <1>17. LegalPolicy(root) <=> id # <<>> /\ items # <<>>
    BY Zenon DEF LegalPolicy, ReadablePolicy, PolicyNumbers, PolicyFlags, id, items
  <1> QED BY <1>11, <1>12, <1>16, <1>17, Zenon DEF p

LEMMA LegalIsReadable ==
  ASSUME NEW root, LegalPolicy(root)
  PROVE  Is("object", root) /\ ReadablePolicy(root)
  BY Zenon DEF LegalPolicy, ReadablePolicy, PolicyNumbers, PolicyFlags

\* A text that is parsed: what the result says of it.
IsJudged(outcome, Legal, Objects) ==
  /\ outcome.value # None <=> Legal
  /\ outcome.diagnostics = {} <=> outcome.value # None
  /\ outcome.value # None => outcome.value \in Objects

LEMMA ResultFacts ==
  ASSUME NEW v, NEW found
  PROVE  /\ ParseResult(v, found).diagnostics = found
         /\ found # {} => ParseResult(v, found).value = None
         /\ found = {} => ParseResult(v, found).value = v
  BY DEF ParseResult

\* Translating diagnostics neither adds nor removes any.
LEMMA SameCount ==
  ASSUME NEW found
  PROVE  {ErrAt(d.code, d.path) : d \in found} = {} <=> found = {}
  OBVIOUS

LEMMA RootIsJson ==
  ASSUME NEW text \in Seq(Tokens), Is("object", Read(text))
  PROVE  \E V : IsJson(V) /\ Read(text) \in V
  BY ReadsJson, NothingHasNoType

LEMMA PolicyJudged ==
  ASSUME NEW text \in Seq(Tokens)
  PROVE  IsJudged(ParsedPolicy(text), LegalPolicy(Read(text)), PolicyObject)
  <1> DEFINE root == Read(text)
             p == ParsePolicyObject(root)
             found == PolicyDiagnostics(GatePolicy(p))
             told == {ErrAt(d.code, d.path) : d \in found}
             bad == {ErrAt("json_malformed", "")}
             wrong == {ErrAt("invalid_type", "/")}
             reads == SecureClockPolicyReads(root)
  <1>1. ParsedPolicy(text) =
          IF root = Nothing THEN ParseResult(None, bad)
          ELSE IF ~Is("object", root) THEN ParseResult(None, wrong)
          ELSE IF reads # {} THEN ParseResult(None, reads)
          ELSE ParseResult(p, told)
    BY Zenon DEF ParsedPolicy, ParsedObject, ParsedRoot
  <1>2. bad # {} /\ wrong # {}
    OBVIOUS
  <1> HIDE DEF bad, wrong, reads, told, p
  <1> SUFFICES IsJudged(ParsedPolicy(text), LegalPolicy(root), PolicyObject)
    OBVIOUS
  <1>3. ASSUME NEW why, why # {}, ParsedPolicy(text) = ParseResult(None, why), ~LegalPolicy(root)
        PROVE  IsJudged(ParsedPolicy(text), LegalPolicy(root), PolicyObject)
    <2>1. ParsedPolicy(text).value = None /\ ParsedPolicy(text).diagnostics = why
      BY <1>3, ResultFacts
    <2> HIDE DEF root
    <2> QED BY <1>3, <2>1, Zenon DEF IsJudged
  <1>4. CASE ~Is("object", root)
    <2>1. ~LegalPolicy(root)
      BY <1>4, LegalIsReadable
    <2>2. ParsedPolicy(text) = ParseResult(None, bad) \/ ParsedPolicy(text) = ParseResult(None, wrong)
      <3> HIDE DEF root
      <3> QED BY <1>1, <1>4
    <2> HIDE DEF root
    <2> QED BY <1>2, <1>3, <2>1, <2>2
  <1>5. CASE Is("object", root)
    <2>1. PICK V : IsJson(V) /\ root \in V
      BY <1>5, RootIsJson
    <2>2. root # Nothing
      BY <1>5, NothingHasNoType
    <2> HIDE DEF root
    <2>3. reads = {} <=> ReadablePolicy(root)
      BY <1>5, <2>1, PolicyReads DEF reads
    <2>4. CASE reads # {}
      <3>1. ~LegalPolicy(root)
        BY <2>3, <2>4, LegalIsReadable
      <3>2. ParsedPolicy(text) = ParseResult(None, reads)
        BY <1>1, <1>5, <2>2, <2>4
      <3> QED BY <1>3, <2>4, <3>1, <3>2
    <2>5. CASE reads = {}
      <3>1. ParsedPolicy(text) = ParseResult(p, told)
        BY <1>1, <1>5, <2>2, <2>5
      <3>2. p \in PolicyObject /\ (told = {} <=> LegalPolicy(root))
        <4>1. p \in PolicyObject /\ (found = {} <=> LegalPolicy(root))
          BY <1>5, <2>1, <2>3, <2>5, PolicyMade, Zenon DEF p
        <4>2. told = {} <=> found = {}
          <5> HIDE DEF found
          <5> QED BY SameCount DEF told
        <4> QED BY <4>1, <4>2, Zenon
      <3>3. p # None
        BY <3>2, TextsAssumption
      <3>4. /\ ParsedPolicy(text).diagnostics = told
            /\ told # {} => ParsedPolicy(text).value = None
            /\ told = {} => ParsedPolicy(text).value = p
        <4>1. /\ ParseResult(p, told).diagnostics = told
              /\ told # {} => ParseResult(p, told).value = None
              /\ told = {} => ParseResult(p, told).value = p
          BY ResultFacts, Zenon
        <4> QED BY <3>1, <4>1, Zenon
      <3> QED BY <3>2, <3>3, <3>4, Zenon DEF IsJudged
    <2> QED BY <2>4, <2>5
  <1> QED BY <1>4, <1>5

-----------------------------------------------------------------------------
(* Statuses.                                                                *)

StatusTimes == {"current_time_utc", "last_update_utc"}

IsGiven(root, name) == Said(root, name) \notin {Nothing, Null}

\* The members of a status have their types and their values.
ReadableStatus(root) ==
  /\ \A name \in DOMAIN StatusEnums : NameOf(Said(root, name)) \in StatusEnums[name]
  /\ \A name \in StatusTimes : IsGiven(root, name) => Is("string", Said(root, name))
  /\ IsGiven(root, "skew_seconds") =>
       Is("number", Said(root, "skew_seconds")) /\ Said(root, "skew_seconds").number >= 0

EnumNames ==
  {"secure_time_status", "time_source", "source_role", "source_trust_state", "drift_state", "freshness",
   "monotonicity_status", "tamper_time_state"}

LEMMA EnumFacts ==
  /\ DOMAIN StatusEnums = EnumNames
  /\ \A name \in EnumNames : "" \notin StatusEnums[name]
  BY DEF StatusEnums, EnumNames, SecureTimeStatusCode, TimeSource

LEMMA StatusReads ==
  ASSUME NEW V, IsJson(V), NEW root \in V, Is("object", root)
  PROVE  SecureTimeStatusReads(root) = {} <=> ReadableStatus(root)
  <1>1. \A name : Field(root, name) = Said(root, name)
    BY FieldIsSaid
  <1> DEFINE enums == UNION {ReadsEnum(root, name, StatusEnums[name]) : name \in DOMAIN StatusEnums}
             clock == ReadsTime(root, "current_time_utc")
             update == ReadsTime(root, "last_update_utc")
             skew == ReadsInteger(root, "skew_seconds", FALSE)
  <1>2. SecureTimeStatusReads(root) = {} <=> enums = {} /\ clock = {} /\ update = {} /\ skew = {}
    <2>1. SecureTimeStatusReads(root) = enums \union clock \union update \union skew
      BY Zenon DEF SecureTimeStatusReads
    <2> HIDE DEF enums, clock, update, skew
    <2> QED BY <2>1
  <1>3. enums = {} <=> \A name \in DOMAIN StatusEnums : NameOf(Said(root, name)) \in StatusEnums[name]
    <2>1. enums = {} <=> \A name \in DOMAIN StatusEnums : ReadsEnum(root, name, StatusEnums[name]) = {}
      OBVIOUS
    <2>2. \A name \in DOMAIN StatusEnums : ReadsEnum(root, name, StatusEnums[name]) = {}
                                             <=> NameOf(Said(root, name)) \in StatusEnums[name]
      <3>1. ASSUME NEW name \in DOMAIN StatusEnums
            PROVE  ReadsEnum(root, name, StatusEnums[name]) = {} <=> NameOf(Said(root, name)) \in StatusEnums[name]
        <4>1. ReadsEnum(root, name, StatusEnums[name]) = {} <=>
                Is("string", Field(root, name)) /\ NameOf(Field(root, name)) \in StatusEnums[name]
          BY ReadsFacts, Zenon
        <4>2. NameOf(Field(root, name)) # "" => Is("string", Field(root, name))
          BY Zenon DEF NameOf
        <4>3. "" \notin StatusEnums[name]
          BY EnumFacts
        <4> QED BY <1>1, <4>1, <4>2, <4>3
      <3> QED BY <3>1
    <2> QED BY <2>1, <2>2
  <1>4. \A name : ReadsTime(root, name) = {} <=> (IsGiven(root, name) => Is("string", Said(root, name)))
    <2>1. ASSUME NEW name PROVE ReadsTime(root, name) = {} <=> (IsGiven(root, name) => Is("string", Said(root, name)))
      <3>1. ReadsTime(root, name) = {} <=>
              Field(root, name) = Nothing \/ Field(root, name) = Null \/ Is("string", Field(root, name))
        BY ReadsFacts, Zenon
      <3> QED BY <1>1, <3>1 DEF IsGiven
    <2> QED BY <2>1
  <1>5. skew = {} <=> (IsGiven(root, "skew_seconds") =>
                         Is("number", Said(root, "skew_seconds")) /\ Said(root, "skew_seconds").number >= 0)
    <2> DEFINE v == Field(root, "skew_seconds")
    <2>1. skew = {} <=> v = Nothing \/ v = Null \/ (Is("number", v) /\ v.number >= 0)
      BY ReadsFacts, Zenon
    <2>2. v = Said(root, "skew_seconds")
      BY <1>1
    <2> HIDE DEF v, skew
    <2> QED BY <2>1, <2>2 DEF IsGiven
  <1> HIDE DEF enums, skew
  <1> QED BY <1>2, <1>3, <1>4, <1>5, Zenon DEF ReadableStatus, StatusTimes

\* The text of a time that a status may give.
LEMMA OptionalFacts ==
  ASSUME NEW V, IsJson(V), NEW root \in V, Is("object", root), NEW name,
         IsGiven(root, name) => Is("string", Said(root, name))
  PROVE  LET t == OptionalText(root, name)
         IN /\ t \in Seq(Glyphs) \union {None}
            /\ t # None <=> IsGiven(root, name)
            /\ IsGiven(root, name) => t = Said(root, name).string
  <1> DEFINE v == Said(root, name)
             t == OptionalText(root, name)
  <1>1. Field(root, name) = v /\ (v = Nothing \/ v \in V)
    BY FieldIsSaid
  <1>2. t = IF Is("string", v) THEN v.string ELSE None
    BY <1>1, Zenon DEF OptionalText
  <1>3. IsGiven(root, name) <=> v \notin {Nothing, Null}
    BY Zenon DEF IsGiven
  <1> HIDE DEF v, t
  <1>4. CASE v \in {Nothing, Null}
    BY <1>2, <1>3, <1>4, NothingHasNoType DEF t, v
  <1>5. CASE v \notin {Nothing, Null}
    <2>1. Is("string", v)
      BY <1>3, <1>5 DEF v
    <2>3. v.string \in Seq(Glyphs)
      BY <1>1, <1>5, <2>1, TypeFacts
    <2>4. v.string # None
      BY <2>3, TextsAssumption
    <2>5. t = v.string /\ IsGiven(root, name)
      BY <1>2, <1>3, <1>5, <2>1
    <2> QED BY <2>3, <2>4, <2>5 DEF t, v
  <1> QED BY <1>4, <1>5

LEMMA TimeOfFacts ==
  /\ TimeOf(None) = None
  /\ \A t \in Seq(Glyphs) : TimeOf(t) \in Timestamp /\ TimeOf(t) # None
  <1>1. ASSUME NEW t \in Seq(Glyphs) PROVE TimeOf(t) \in Timestamp
    <2>1. t # None
      BY TextsAssumption
    <2>2. [year |-> 0, month |-> 0, day |-> 0, hour |-> 0, minute |-> 0, second |-> 0] \in Timestamp
      BY DEF Timestamp
    <2> QED BY <2>1, <2>2, TimesAssumption, Zenon DEF TimeOf
  <1>2. None \notin Timestamp
    BY RequestsAssumption
  <1> QED BY <1>1, <1>2, Zenon DEF TimeOf

\* The object of a status and the view that the gate has of it, by their members.
LEMMA StatusMembers ==
  ASSUME NEW root, \A name \in EnumNames : Field(root, name) = Said(root, name)
  PROVE  LET s == ParseStatusObject(root)
             g == GateStatus(s)
             skew == IF Is("number", Field(root, "skew_seconds")) THEN Field(root, "skew_seconds").number ELSE None
         IN /\ s = [name \in EnumNames \union {"current_time_utc", "last_update_utc", "skew_seconds"} |-> s[name]]
            /\ \A name \in EnumNames : s[name] = NameOf(Said(root, name))
            /\ \A name \in StatusTimes : s[name] = OptionalText(root, name)
            /\ s["skew_seconds"] = skew
            /\ g = [name \in (EnumNames \ {"source_role"}) \union {"current_time_utc", "last_update_utc", "skew_seconds"} |-> g[name]]
            /\ \A name \in EnumNames \ {"source_role"} : g[name] = NameOf(Said(root, name))
            /\ \A name \in StatusTimes : g[name] = TimeOf(OptionalText(root, name))
            /\ g["skew_seconds"] = skew
  <1> DEFINE s == ParseStatusObject(root)
             g == GateStatus(s)
             skew == IF Is("number", Field(root, "skew_seconds")) THEN Field(root, "skew_seconds").number ELSE None
             All == EnumNames \union {"current_time_utc", "last_update_utc", "skew_seconds"}
             Seen == (EnumNames \ {"source_role"}) \union {"current_time_utc", "last_update_utc", "skew_seconds"}
  <1>1. s = [name \in All |-> IF name \in EnumNames THEN NameOf(Field(root, name))
                              ELSE IF name # "skew_seconds" THEN OptionalText(root, name) ELSE skew]
    <2>1. DOMAIN StatusEnums = EnumNames
      BY EnumFacts
    <2> QED BY <2>1, Zenon DEF ParseStatusObject, StatusNames
  <1> HIDE DEF skew
  <1>2. DOMAIN s = All /\ s = [name \in All |-> s[name]]
    <2> HIDE DEF All
    <2> QED BY <1>1
  <1>3. /\ "skew_seconds" \notin EnumNames /\ "current_time_utc" \notin EnumNames /\ "last_update_utc" \notin EnumNames
        /\ "current_time_utc" # "skew_seconds" /\ "last_update_utc" # "skew_seconds"
        /\ "current_time_utc" # "source_role" /\ "last_update_utc" # "source_role"
        /\ "current_time_utc" \in All /\ "last_update_utc" \in All /\ "skew_seconds" \in All
    BY DEF EnumNames
  <1>4. \A name \in All : s[name] = IF name \in EnumNames THEN NameOf(Field(root, name))
                                    ELSE IF name # "skew_seconds" THEN OptionalText(root, name) ELSE skew
    <2> HIDE DEF All, s
    <2> QED BY <1>1
  <1>5. \A name \in EnumNames : s[name] = NameOf(Said(root, name)) /\ name \in All
    <2>1. EnumNames \subseteq All
      OBVIOUS
    <2> HIDE DEF All, s
    <2> QED BY <1>4, <2>1
  <1>6. \A name \in StatusTimes : s[name] = OptionalText(root, name) /\ name \in All
    <2> HIDE DEF All, s
    <2> QED BY <1>3, <1>4 DEF StatusTimes
  <1>7. s["skew_seconds"] = skew
    <2> HIDE DEF All, s
    <2> QED BY <1>3, <1>4
  <1>8. Seen = All \ {"source_role"}
    BY <1>3
  <1>9. g = [name \in Seen |-> IF name \in StatusTimes THEN TimeOf(s[name]) ELSE s[name]]
    <2>1. g = [name \in DOMAIN s \ {"source_role"} |->
                 IF name \in {"current_time_utc", "last_update_utc"} THEN TimeOf(s[name]) ELSE s[name]]
      BY Zenon DEF GateStatus
    <2> HIDE DEF Seen, All, s, g
    <2> QED BY <1>2, <1>8, <2>1 DEF StatusTimes
  <1>10. \A name \in Seen : g[name] = IF name \in StatusTimes THEN TimeOf(s[name]) ELSE s[name]
    <2> HIDE DEF Seen, s, g
    <2> QED BY <1>9
  <1>11. g = [name \in Seen |-> g[name]]
    <2> HIDE DEF Seen, s, g
    <2> QED BY <1>9
  <1> HIDE DEF g, s
  <1>12. \A name \in EnumNames \ {"source_role"} : g[name] = NameOf(Said(root, name))
    <2>1. \A name \in EnumNames \ {"source_role"} : name \in Seen /\ name \notin StatusTimes
      BY <1>3 DEF StatusTimes
    <2> HIDE DEF Seen
    <2> QED BY <1>5, <1>10, <2>1
  <1>13. \A name \in StatusTimes : g[name] = TimeOf(OptionalText(root, name))
    <2>1. \A name \in StatusTimes : name \in Seen
      BY DEF StatusTimes
    <2> HIDE DEF Seen
    <2> QED BY <1>6, <1>10, <2>1
  <1>14. g["skew_seconds"] = skew
    <2>1. "skew_seconds" \in Seen /\ "skew_seconds" \notin StatusTimes
      BY DEF StatusTimes
    <2> HIDE DEF Seen
    <2> QED BY <1>7, <1>10, <2>1
  <1> QED BY <1>2, <1>5, <1>6, <1>7, <1>11, <1>12, <1>13, <1>14, Zenon DEF g, s, skew

-----------------------------------------------------------------------------
(* The object of a status whose members are readable.                       *)

\* What the object gives for a member that need not be there.
LEMMA SkewFacts ==
  ASSUME NEW V, IsJson(V), NEW root \in V, Is("object", root), ReadableStatus(root)
  PROVE  LET v == Field(root, "skew_seconds")
             skew == IF Is("number", v) THEN v.number ELSE None
         IN skew \in (0 .. MaxInt) \union {None} /\ (skew # None <=> IsGiven(root, "skew_seconds"))
  <1> DEFINE v == Field(root, "skew_seconds")
             skew == IF Is("number", v) THEN v.number ELSE None
  <1>1. v = Said(root, "skew_seconds") /\ (v = Nothing \/ v \in V)
    BY FieldIsSaid
  <1>2. IsGiven(root, "skew_seconds") => Is("number", v) /\ v.number >= 0
    BY <1>1 DEF ReadableStatus
  <1>3. IsGiven(root, "skew_seconds") <=> v \notin {Nothing, Null}
    BY <1>1 DEF IsGiven
  <1> HIDE DEF v
  <1>4. CASE v \in {Nothing, Null}
    <2>1. skew = None
      BY <1>4, NothingHasNoType
    <2> HIDE DEF skew
    <2> QED BY <1>3, <1>4, <2>1 DEF skew, v
  <1>5. CASE v \notin {Nothing, Null}
    <2>1. Is("number", v) /\ v.number \in Int /\ v.number >= 0 /\ v.number <= MaxInt
      BY <1>1, <1>2, <1>3, <1>5, TypeFacts
    <2>2. skew = v.number
      BY <2>1
    <2> HIDE DEF skew
    <2>3. skew \in 0 .. MaxInt /\ skew # None
      BY <2>1, <2>2, MaxIntAssumption, RequestsAssumption
    <2> QED BY <1>3, <1>5, <2>3 DEF skew, v
  <1> QED BY <1>4, <1>5

LEMMA StatusTyped ==
  ASSUME NEW V, IsJson(V), NEW root \in V, Is("object", root), ReadableStatus(root)
  PROVE  ParseStatusObject(root) \in StatusObject /\ GateStatus(ParseStatusObject(root)) \in SecureTimeStatus
  <1> DEFINE s == ParseStatusObject(root)
             g == GateStatus(s)
  <1>1. \A name : Field(root, name) = Said(root, name)
    BY FieldIsSaid
  <1>2. \A name \in StatusTimes : OptionalText(root, name) \in Seq(Glyphs) \union {None}
    BY OptionalFacts DEF ReadableStatus
  <1>3. \A name \in StatusTimes : TimeOf(OptionalText(root, name)) \in Timestamp \union {None}
    BY <1>2, TimeOfFacts
  <1>4. \A name \in EnumNames : NameOf(Said(root, name)) \in StatusEnums[name]
    BY EnumFacts DEF ReadableStatus
  <1>5. /\ s = [name \in EnumNames \union {"current_time_utc", "last_update_utc", "skew_seconds"} |-> s[name]]
        /\ \A name \in EnumNames : s[name] \in StatusEnums[name]
        /\ \A name \in StatusTimes : s[name] \in Seq(Glyphs) \union {None}
        /\ s["skew_seconds"] \in (0 .. MaxInt) \union {None}
    BY <1>1, <1>2, <1>4, SkewFacts, StatusMembers, Zenon
  <1>6. /\ g = [name \in (EnumNames \ {"source_role"}) \union {"current_time_utc", "last_update_utc", "skew_seconds"} |-> g[name]]
        /\ \A name \in EnumNames \ {"source_role"} : g[name] \in StatusEnums[name]
        /\ \A name \in StatusTimes : g[name] \in Timestamp \union {None}
        /\ g["skew_seconds"] \in (0 .. MaxInt) \union {None}
    BY <1>1, <1>3, <1>4, SkewFacts, StatusMembers
  <1> HIDE DEF s, g
  <1>7. s \in StatusObject
    BY <1>5 DEF StatusObject, EnumNames, StatusTimes, StatusEnums
  <1>8. g \in SecureTimeStatus
    <2>1. g["skew_seconds"] \in Nat \union {None}
      BY <1>6, MaxIntAssumption
    <2> QED BY <1>6, <2>1 DEF SecureTimeStatus, EnumNames, StatusTimes, StatusEnums
  <1> QED BY <1>7, <1>8 DEF s, g

LEMMA StatusValid ==
  ASSUME NEW V, IsJson(V), NEW root \in V, Is("object", root), ReadableStatus(root)
  PROVE  StatusDiagnostics(GateStatus(ParseStatusObject(root))) = {} <=> LegalStatus(root)
  <1> DEFINE s == ParseStatusObject(root)
             g == GateStatus(s)
             required == NameOf(Said(root, "secure_time_status")) # "unavailable"
             clock == TimeOf(Said(root, "current_time_utc").string)
             update == TimeOf(Said(root, "last_update_utc").string)
             hasNow == IsGiven(root, "current_time_utc")
             hasUpdate == IsGiven(root, "last_update_utc")
             hasSkew == IsGiven(root, "skew_seconds")
  <1>1. \A name : Field(root, name) = Said(root, name)
    BY FieldIsSaid
  <1>2. ASSUME NEW name \in StatusTimes
        PROVE  LET t == OptionalText(root, name)
               IN /\ IsGiven(root, name) => TimeOf(t) = TimeOf(Said(root, name).string) /\ TimeOf(t) # None
                  /\ ~IsGiven(root, name) => TimeOf(t) = None
    <2> DEFINE t == OptionalText(root, name)
    <2>1. /\ t \in Seq(Glyphs) \union {None}
          /\ t # None <=> IsGiven(root, name)
          /\ IsGiven(root, name) => t = Said(root, name).string
      BY OptionalFacts DEF ReadableStatus
    <2> HIDE DEF t
    <2> QED BY <2>1, TimeOfFacts DEF t
  <1>3. /\ g.secure_time_status = NameOf(Said(root, "secure_time_status"))
        /\ g.current_time_utc = TimeOf(OptionalText(root, "current_time_utc"))
        /\ g.last_update_utc = TimeOf(OptionalText(root, "last_update_utc"))
        /\ g.skew_seconds # None <=> hasSkew
    <2>1. /\ "secure_time_status" \in EnumNames \ {"source_role"}
          /\ "current_time_utc" \in StatusTimes /\ "last_update_utc" \in StatusTimes
      BY DEF EnumNames, StatusTimes
    <2>2. /\ g["secure_time_status"] = NameOf(Said(root, "secure_time_status"))
          /\ g["current_time_utc"] = TimeOf(OptionalText(root, "current_time_utc"))
          /\ g["last_update_utc"] = TimeOf(OptionalText(root, "last_update_utc"))
      BY <1>1, <2>1, StatusMembers, Zenon
    <2>3. g["skew_seconds"] # None <=> hasSkew
      BY <1>1, SkewFacts, StatusMembers, Zenon
    <2> QED BY <2>2, <2>3, Zenon
  <1>4. /\ hasNow => g.current_time_utc = clock /\ clock # None
        /\ ~hasNow => g.current_time_utc = None
        /\ hasUpdate => g.last_update_utc = update /\ update # None
        /\ ~hasUpdate => g.last_update_utc = None
    BY <1>2, <1>3, Zenon DEF StatusTimes
  <1> HIDE DEF g, clock, update, hasNow, hasUpdate, hasSkew
  <1>5. StatusDiagnostics(g) = {} <=>
          /\ ~(required /\ ~hasNow) /\ ~(hasNow /\ ~IsUtc(clock))
          /\ ~(required /\ ~hasUpdate) /\ ~(hasUpdate /\ ~IsUtc(update))
          /\ ~(required /\ ~hasSkew)
          /\ ~(hasNow /\ hasUpdate /\ IsUtc(clock) /\ IsUtc(update) /\ Before(clock, update))
    <2>1. Required(g.secure_time_status) <=> required
      BY <1>3 DEF Required
    <2>2. /\ g.current_time_utc = None <=> ~hasNow
          /\ g.last_update_utc = None <=> ~hasUpdate
      BY <1>4
    <2>3. /\ Readable(g.current_time_utc) <=> hasNow /\ IsUtc(clock)
          /\ Readable(g.last_update_utc) <=> hasUpdate /\ IsUtc(update)
      BY <1>4, Zenon DEF Readable
    <2>4. RunsBackwards(g) <=> hasNow /\ hasUpdate /\ IsUtc(clock) /\ IsUtc(update) /\ Before(clock, update)
      BY <1>4, <2>3, Zenon DEF RunsBackwards
    <2> DEFINE a == TimeDiagnostics(g, g.current_time_utc, "current_time_utc")
               b == TimeDiagnostics(g, g.last_update_utc, "last_update_utc")
               c == Reports(Required(g.secure_time_status) /\ g.skew_seconds = None,
                            Err("missing_required_time_field", "skew_seconds"))
               d == Reports(RunsBackwards(g), Err("non_monotonic_time", "last_update_utc"))
    <2>5. StatusDiagnostics(g) = a \union b \union c \union d
      BY Zenon DEF StatusDiagnostics
    <2>6. \A time, path : TimeDiagnostics(g, time, path) = {} <=>
            ~(Required(g.secure_time_status) /\ time = None) /\ ~(time # None /\ ~Readable(time))
      <3>1. ASSUME NEW time, NEW path
            PROVE  TimeDiagnostics(g, time, path) = {} <=>
                     ~(Required(g.secure_time_status) /\ time = None) /\ ~(time # None /\ ~Readable(time))
        <4> DEFINE x == Reports(Required(g.secure_time_status) /\ time = None, Err("missing_required_time_field", path))
                   y == Reports(time # None /\ ~Readable(time), Err("invalid_time_format", path))
        <4>1. TimeDiagnostics(g, time, path) = x \union y
          BY Zenon DEF TimeDiagnostics
        <4>2. /\ x = {} <=> ~(Required(g.secure_time_status) /\ time = None)
              /\ y = {} <=> ~(time # None /\ ~Readable(time))
          BY ReportsNothing, Zenon
        <4> HIDE DEF x, y
        <4>3. x \union y = {} <=> x = {} /\ y = {}
          OBVIOUS
        <4> QED BY <4>1, <4>2, <4>3, Zenon
      <3> QED BY <3>1
    <2>7. a = {} <=> ~(required /\ ~hasNow) /\ ~(hasNow /\ ~IsUtc(clock))
      BY <2>1, <2>2, <2>3, <2>6, Zenon
    <2>8. b = {} <=> ~(required /\ ~hasUpdate) /\ ~(hasUpdate /\ ~IsUtc(update))
      BY <2>1, <2>2, <2>3, <2>6, Zenon
    <2>9. c = {} <=> ~(required /\ ~hasSkew)
      BY <1>3, <2>1, ReportsNothing, Zenon
    <2>10. d = {} <=> ~(hasNow /\ hasUpdate /\ IsUtc(clock) /\ IsUtc(update) /\ Before(clock, update))
      BY <2>4, ReportsNothing, Zenon
    <2> HIDE DEF a, b, c, d
    <2>11. a \union b \union c \union d = {} <=> a = {} /\ b = {} /\ c = {} /\ d = {}
      OBVIOUS
    <2> QED BY <2>5, <2>7, <2>8, <2>9, <2>10, <2>11, Zenon
  <1>6. LegalStatus(root) <=>
          /\ hasNow => IsUtc(clock)
          /\ hasUpdate => IsUtc(update)
          /\ required => hasNow /\ hasUpdate /\ hasSkew
          /\ hasNow /\ hasUpdate => ~Before(clock, update)
    BY Zenon DEF LegalStatus, ReadableStatus, StatusTimes, IsGiven, hasNow, hasUpdate, hasSkew, clock, update
  <1> HIDE DEF required
  <1> QED BY <1>5, <1>6, Zenon DEF g, s

LEMMA LegalStatusIsReadable ==
  ASSUME NEW root, LegalStatus(root)
  PROVE  Is("object", root) /\ ReadableStatus(root)
  BY Zenon DEF LegalStatus, ReadableStatus, StatusTimes, IsGiven

LEMMA StatusJudged ==
  ASSUME NEW text \in Seq(Tokens)
  PROVE  /\ IsJudged(ParsedStatus(text), LegalStatus(Read(text)), StatusObject)
         /\ ParsedStatus(text).value # None => GateStatus(ParsedStatus(text).value) \in SecureTimeStatus
  <1> DEFINE root == Read(text)
             s == ParseStatusObject(root)
             found == StatusDiagnostics(GateStatus(s))
             told == {ErrAt(d.code, d.path) : d \in found}
             bad == {ErrAt("json_malformed", "")}
             wrong == {ErrAt("invalid_type", "/")}
             reads == SecureTimeStatusReads(root)
             Goal == /\ IsJudged(ParsedStatus(text), LegalStatus(root), StatusObject)
                     /\ ParsedStatus(text).value # None => GateStatus(ParsedStatus(text).value) \in SecureTimeStatus
  <1>1. ParsedStatus(text) =
          IF root = Nothing THEN ParseResult(None, bad)
          ELSE IF ~Is("object", root) THEN ParseResult(None, wrong)
          ELSE IF reads # {} THEN ParseResult(None, reads)
          ELSE ParseResult(s, told)
    BY Zenon DEF ParsedStatus, ParsedObject, ParsedRoot
  <1>2. bad # {} /\ wrong # {}
    OBVIOUS
  <1> HIDE DEF bad, wrong, reads, told, s
  <1> SUFFICES Goal
    OBVIOUS
  <1>3. ASSUME NEW why, why # {}, ParsedStatus(text) = ParseResult(None, why), ~LegalStatus(root)
        PROVE  Goal
    <2>1. ParsedStatus(text).value = None /\ ParsedStatus(text).diagnostics = why
      BY <1>3, ResultFacts
    <2> HIDE DEF root
    <2> QED BY <1>3, <2>1, Zenon DEF IsJudged
  <1>4. CASE ~Is("object", root)
    <2>1. ~LegalStatus(root)
      BY <1>4, LegalStatusIsReadable
    <2>2. ParsedStatus(text) = ParseResult(None, bad) \/ ParsedStatus(text) = ParseResult(None, wrong)
      <3> HIDE DEF root
      <3> QED BY <1>1, <1>4
    <2> HIDE DEF root, Goal
    <2> QED BY <1>2, <1>3, <2>1, <2>2
  <1>5. CASE Is("object", root)
    <2>1. PICK V : IsJson(V) /\ root \in V
      BY <1>5, RootIsJson
    <2>2. root # Nothing
      BY <1>5, NothingHasNoType
    <2> HIDE DEF root
    <2>3. reads = {} <=> ReadableStatus(root)
      BY <1>5, <2>1, StatusReads DEF reads
    <2>4. CASE reads # {}
      <3>1. ~LegalStatus(root)
        BY <2>3, <2>4, LegalStatusIsReadable
      <3>2. ParsedStatus(text) = ParseResult(None, reads)
        BY <1>1, <1>5, <2>2, <2>4
      <3> HIDE DEF Goal
      <3> QED BY <1>3, <2>4, <3>1, <3>2
    <2>5. CASE reads = {}
      <3>1. ParsedStatus(text) = ParseResult(s, told)
        BY <1>1, <1>5, <2>2, <2>5
      <3>2. s \in StatusObject /\ GateStatus(s) \in SecureTimeStatus /\ (told = {} <=> LegalStatus(root))
        <4>1. s \in StatusObject /\ GateStatus(s) \in SecureTimeStatus
          BY <1>5, <2>1, <2>3, <2>5, StatusTyped, Zenon DEF s
        <4>2. found = {} <=> LegalStatus(root)
          BY <1>5, <2>1, <2>3, <2>5, StatusValid, Zenon DEF s
        <4>3. told = {} <=> found = {}
          <5> HIDE DEF found
          <5> QED BY SameCount DEF told
        <4> QED BY <4>1, <4>2, <4>3, Zenon
      <3>3. s # None
        BY <3>2, TextsAssumption
      <3>4. /\ ParsedStatus(text).diagnostics = told
            /\ told # {} => ParsedStatus(text).value = None
            /\ told = {} => ParsedStatus(text).value = s
        <4>1. /\ ParseResult(s, told).diagnostics = told
              /\ told # {} => ParseResult(s, told).value = None
              /\ told = {} => ParseResult(s, told).value = s
          BY ResultFacts, Zenon
        <4> QED BY <3>1, <4>1, Zenon
      <3> QED BY <3>2, <3>3, <3>4, Zenon DEF IsJudged
    <2> QED BY <2>4, <2>5
  <1> QED BY <1>4, <1>5

-----------------------------------------------------------------------------
(* The caller.                                                              *)

TextInv ==
  /\ stage \in {"parse_policy", "parse_status", "call", "refused", "gate"}
  /\ parsed = [policy |-> parsed.policy, status |-> parsed.status]
  /\ stage # "gate" => texts \in Texts /\ pc = "validate_policy"
  /\ stage \in {"parse_status", "call"} => parsed.policy = ParsedPolicy(texts.policy)
  /\ stage = "call" => parsed.status = ParsedStatus(texts.status)

LEMMA GivenTexts ==
  ASSUME texts \in Texts
  PROVE  texts.policy \in Seq(Tokens) /\ texts.status \in Seq(Tokens)
  BY TextsAssumption

LEMMA GatePolicyTyped ==
  ASSUME NEW p \in PolicyObject
  PROVE  GatePolicy(p) \in SecureClockPolicy
  <1> DEFINE given == IF p.clock_id = <<>> THEN "empty" ELSE "given"
  <1>1. GatePolicy(p) = [p EXCEPT !.clock_id = given]
    BY Zenon DEF GatePolicy
  <1>2. given \in {"empty", "given"}
    OBVIOUS
  <1> HIDE DEF given
  <1>3. [p EXCEPT !.clock_id = given] \in SecureClockPolicy
    BY <1>2, MaxIntAssumption DEF PolicyObject, SecureClockPolicy
  <1> QED BY <1>1, <1>3

LEMMA TextInitially ==
  ASSUME TextInit
  PROVE  IInv /\ TextInv
  <1>1. parsed = [policy |-> None, status |-> None]
    BY DEF TextInit
  <1>2. CASE Built
    BY <1>1, <1>2, Initially DEF Built, TextInv
  <1>3. CASE Told
    <2>1. DefaultPolicy \in SecureClockPolicy /\ DefaultStatus \in SecureTimeStatus
      <3>1. <<>> \in Seq(TimeSource)
        OBVIOUS
      <3> QED BY <3>1 DEF DefaultPolicy, DefaultStatus, SecureClockPolicy, SecureTimeStatus, TimeSource, SecureTimeStatusCode
    <2>2. IInv
      BY <1>3, <2>1 DEF Told, IInv, TypeOK, GateInv, GateSteps, GateIsTheDocs, BlockIsAnError, PrimaryCauseStandsAlone
    <2> QED BY <1>1, <1>3, <2>2 DEF Told, TextInv
  <1> QED BY <1>2, <1>3 DEF TextInit

LEMMA TextStep ==
  ASSUME IInv, TextInv, [TextNext]_<<vars, textVars>>
  PROVE  IInv' /\ TextInv'
  <1>1. CASE ParsePolicy
    <2>1. IInv'
      BY <1>1, Inductive DEF ParsePolicy
    <2>2. parsed' = [policy |-> ParsedPolicy(texts.policy), status |-> parsed.status]
      <3> DEFINE outcome == ParsedPolicy(texts.policy)
      <3>1. parsed' = [parsed EXCEPT !.policy = outcome] /\ parsed = [policy |-> parsed.policy, status |-> parsed.status]
        BY <1>1 DEF ParsePolicy, TextInv
      <3> HIDE DEF outcome
      <3>2. parsed' = [policy |-> outcome, status |-> parsed.status]
        BY <3>1
      <3> QED BY <3>2 DEF outcome
    <2>3. texts \in Texts /\ texts' = texts /\ pc = "validate_policy" /\ pc' = pc /\ stage' = "parse_status"
      BY <1>1 DEF ParsePolicy, TextInv, vars
    <2> DEFINE outcome == ParsedPolicy(texts.policy)
               new == parsed'
    <2>4. new = [policy |-> outcome, status |-> parsed.status]
      BY <2>2
    <2> HIDE DEF new, outcome
    <2>5. new = [policy |-> new.policy, status |-> new.status] /\ new.policy = outcome
      BY <2>4
    <2>6. ParsedPolicy(texts.policy)' = outcome
      BY <2>3 DEF outcome
    <2> QED BY <2>1, <2>3, <2>5, <2>6 DEF TextInv, new
  <1>2. CASE ParseStatus
    <2>1. IInv'
      BY <1>2, Inductive DEF ParseStatus
    <2> DEFINE outcome == ParsedStatus(texts.status)
               new == parsed'
    <2>2. new = [parsed EXCEPT !.status = outcome] /\ parsed = [policy |-> parsed.policy, status |-> parsed.status]
      BY <1>2 DEF ParseStatus, TextInv
    <2>3. /\ texts \in Texts /\ texts' = texts /\ pc = "validate_policy" /\ pc' = pc /\ stage' = "call"
          /\ parsed.policy = ParsedPolicy(texts.policy)
      BY <1>2 DEF ParseStatus, TextInv, vars
    <2>4. ParsedStatus(texts.status)' = outcome /\ ParsedPolicy(texts.policy)' = ParsedPolicy(texts.policy)
      BY <2>3
    <2> HIDE DEF new, outcome
    <2>5. new = [policy |-> parsed.policy, status |-> outcome]
      BY <2>2
    <2>6. new = [policy |-> new.policy, status |-> new.status] /\ new.status = outcome /\ new.policy = parsed.policy
      BY <2>5
    <2> QED BY <2>1, <2>3, <2>4, <2>6 DEF TextInv, new
  <1>3. CASE Refuse
    <2>1. IInv'
      BY <1>3, Inductive DEF Refuse
    <2> QED BY <1>3, <2>1 DEF Refuse, TextInv, vars
  <1>4. CASE CallGate
    <2>1. /\ texts \in Texts /\ pc = "validate_policy" /\ pc' = pc /\ stage' = "gate"
          /\ parsed.policy = ParsedPolicy(texts.policy) /\ parsed.status = ParsedStatus(texts.status)
          /\ parsed.policy.value # None /\ parsed.status.value # None
          /\ policy' = GatePolicy(parsed.policy.value) /\ status' = GateStatus(parsed.status.value)
          /\ UNCHANGED <<texts, parsed, hard_block, trust_issue, diagnostics, result>>
      BY <1>4 DEF CallGate, TextInv, Accepted
    <2>2. policy' \in SecureClockPolicy
      <3>1. IsJudged(parsed.policy, LegalPolicy(Read(texts.policy)), PolicyObject)
        BY <2>1, GivenTexts, PolicyJudged
      <3>2. parsed.policy.value \in PolicyObject
        BY <2>1, <3>1, Zenon DEF IsJudged
      <3> QED BY <2>1, <3>2, GatePolicyTyped
    <2>3. status' \in SecureTimeStatus
      BY <2>1, GivenTexts, StatusJudged
    <2>4. IInv'
      BY <2>1, <2>2, <2>3 DEF IInv, TypeOK, GateInv, GateSteps, GateIsTheDocs, BlockIsAnError, PrimaryCauseStandsAlone
    <2> QED BY <2>1, <2>4 DEF TextInv
  <1>5. CASE Gate
    <2>1. IInv'
      BY <1>5, Inductive DEF Gate
    <2> QED BY <1>5, <2>1 DEF Gate, TextInv, textVars
  <1>6. CASE UNCHANGED <<vars, textVars>>
    <2>1. IInv'
      BY <1>6, Inductive
    <2> QED BY <1>6, <2>1 DEF TextInv, vars, textVars
  <1> QED BY <1>1, <1>2, <1>3, <1>4, <1>5, <1>6 DEF TextNext

LEMMA TextInvariance == TextSpec => [](IInv /\ TextInv)
  <1>1. TextInit => IInv /\ TextInv
    BY TextInitially
  <1>2. IInv /\ TextInv /\ [TextNext]_<<vars, textVars>> => (IInv /\ TextInv)'
    BY TextStep
  <1> QED BY <1>1, <1>2, PTL DEF TextSpec

LEMMA AcceptedIffLegal ==
  ASSUME TextInv
  PROVE  TextIsAcceptedIffLegal
  <1> SUFFICES ASSUME stage = "call" PROVE TextIsAcceptedIffLegal
    BY DEF TextIsAcceptedIffLegal
  <1> DEFINE p == parsed.policy
             s == parsed.status
  <1>1. /\ texts.policy \in Seq(Tokens) /\ texts.status \in Seq(Tokens)
        /\ p = ParsedPolicy(texts.policy) /\ s = ParsedStatus(texts.status)
        /\ parsed = [policy |-> p, status |-> s]
    BY GivenTexts DEF TextInv
  <1>2. IsJudged(p, LegalPolicy(Read(texts.policy)), PolicyObject)
    BY <1>1, PolicyJudged
  <1>3. IsJudged(s, LegalStatus(Read(texts.status)), StatusObject)
    BY <1>1, StatusJudged
  <1>4. /\ parsed.policy.value # None <=> LegalPolicy(Read(texts.policy))
        /\ parsed.policy.diagnostics = {} <=> parsed.policy.value # None
    BY <1>2, Zenon DEF IsJudged
  <1>5. /\ parsed.status.value # None <=> LegalStatus(Read(texts.status))
        /\ parsed.status.diagnostics = {} <=> parsed.status.value # None
    BY <1>3, Zenon DEF IsJudged
  <1>6. \A which \in {"policy", "status"} : parsed[which].diagnostics = {} <=> parsed[which].value # None
    BY <1>4, <1>5
  <1> QED BY <1>4, <1>5, <1>6, Zenon DEF TextIsAcceptedIffLegal

\* The parsers of secure_time accept exactly the texts that the documentation of
\* the two objects describes, and a text that is refused always says why.
THEOREM TextLegality == TextSpec => []TextIsAcceptedIffLegal
  BY TextInvariance, AcceptedIffLegal, PTL

\* An object that was parsed is one that the gate may be given: a caller with
\* texts keeps the types of the gate.
THEOREM TextTypeCorrectness == TextSpec => []TypeOK
  <1>1. IInv => TypeOK
    BY DEF IInv
  <1> QED BY <1>1, TextInvariance, PTL

\* A caller that parses its policy and its status gets the documented answer, as
\* one that builds them does: the check of time blocks, and explains, just the same.
THEOREM TextGateCorrectness == TextSpec => [](GateIsTheDocs /\ BlockIsAnError /\ PrimaryCauseStandsAlone)
  <1>1. IInv => GateIsTheDocs /\ BlockIsAnError /\ PrimaryCauseStandsAlone
    BY DEF IInv, GateInv
  <1> QED BY <1>1, TextInvariance, PTL

-----------------------------------------------------------------------------
(* What is written is read back: strings.                                   *)

FirstOf(t, n) == [i \in 1 .. n |-> t[i]]

LEMMA FirstOfFacts ==
  ASSUME NEW S, NEW t \in Seq(S)
  PROVE  /\ FirstOf(t, 0) = <<>> /\ FirstOf(t, Len(t)) = t
         /\ \A n \in 1 .. Len(t) : /\ FirstOf(t, n - 1) \in Seq(S) /\ t[n] \in S
                                   /\ Append(FirstOf(t, n - 1), t[n]) = FirstOf(t, n)
  <1>1. FirstOf(t, 0) = <<>> /\ FirstOf(t, Len(t)) = t
    BY DEF FirstOf
  <1>2. ASSUME NEW n \in 1 .. Len(t)
        PROVE  /\ FirstOf(t, n - 1) \in Seq(S) /\ t[n] \in S
               /\ Append(FirstOf(t, n - 1), t[n]) = FirstOf(t, n)
    <2> DEFINE a == FirstOf(t, n - 1)
               b == FirstOf(t, n)
    <2>1. a \in [1 .. n - 1 -> S] /\ b \in [1 .. n -> S] /\ t[n] \in S /\ n \in Nat /\ n - 1 \in Nat
      BY DEF FirstOf
    <2>2. a \in Seq(S) /\ Len(a) = n - 1 /\ b \in Seq(S) /\ Len(b) = n
      <3> HIDE DEF a, b
      <3> QED BY <2>1
    <2>3. (\A i \in 1 .. n - 1 : a[i] = b[i]) /\ b[n] = t[n]
      BY DEF FirstOf
    <2> HIDE DEF a, b
    <2> DEFINE u == Append(a, t[n])
    <2>4. u \in Seq(S) /\ Len(u) = n /\ (\A i \in 1 .. n - 1 : u[i] = a[i]) /\ u[n] = t[n]
      BY <2>1, <2>2
    <2> HIDE DEF u
    <2>5. \A i \in 1 .. Len(u) : u[i] = b[i]
      BY <2>1, <2>3, <2>4
    <2>6. u = b
      BY <2>2, <2>4, <2>5, SeqEqual
    <2> QED BY <2>1, <2>2, <2>6 DEF u, a, b
  <1> QED BY <1>1, <1>2

LEMMA PieceFacts ==
  ASSUME NEW form, NEW run, NEW code
  PROVE  Piece(form, run, code).form = form /\ Piece(form, run, code).run = run /\ Piece(form, run, code).code = code
  BY DEF Piece

LEMMA PieceTyped ==
  ASSUME NEW form \in {"plain", "raw", "escape", "unit", "bad_unit"}, NEW run \in Runs, NEW code \in Nat
  PROVE  Piece(form, run, code) \in Pieces
  BY DEF Piece, Pieces

LEMMA LettersFacts ==
  ASSUME NEW code, NEW letter \in Letters(code)
  PROVE  letter \in Nat /\ letter \in DOMAIN Escapes /\ Escapes[letter] = code
  <1>1. letter \in DOMAIN Escapes /\ Escapes[letter] = code
    BY Zenon DEF Letters
  <1>2. letter \in {34, 92, 47, 98, 102, 110, 114, 116}
    BY <1>1, SMT DEF Escapes
  <1> QED BY <1>1, <1>2, SMT

LEMMA LowCodes ==
  ASSUME NEW code \in Nat, code < 32
  PROVE  ~IsHigh(code) /\ ~IsLow(code)
  BY SMT DEF IsHigh, IsLow

\* A glyph that was escaped decodes to itself.
LEMMA EscapeDecodes ==
  ASSUME NEW glyph \in Glyphs
  PROVE  /\ Escape(glyph) \in Pieces
         /\ \A read : read.ok /\ read.high = 0 =>
              DecodePiece(read, Escape(glyph)) = [read EXCEPT !.text = Append(@, glyph)]
  <1>1. /\ glyph = [run |-> glyph.run, code |-> glyph.code] /\ glyph.run \in Runs /\ glyph.code \in Nat
        /\ glyph.run = "" \/ glyph.code = 0
    BY DEF Glyphs
  <1> DEFINE piece == Escape(glyph)
             Good(p) == \A read : read.ok /\ read.high = 0 =>
                          DecodePiece(read, p) = [read EXCEPT !.text = Append(@, glyph)]
  <1>2. CASE glyph.run # ""
    <2>1. Plain(glyph.run) = glyph
      BY <1>1, <1>2 DEF Plain
    <2> DEFINE p == Piece("plain", glyph.run, 0)
    <2>2. p.form = "plain" /\ p.run = glyph.run
      BY PieceFacts
    <2>3. piece = p
      BY <1>2, Zenon DEF Escape
    <2> HIDE DEF p
    <2>4. Good(p)
      BY <2>1, <2>2, Zenon DEF DecodePiece
    <2>5. p \in Pieces
      <3>1. 0 \in Nat
        OBVIOUS
      <3> QED BY <1>1, <3>1, PieceTyped DEF p
    <2> HIDE DEF Good
    <2>6. Good(piece) /\ piece \in Pieces
      BY <2>3, <2>4, <2>5
    <2> QED BY <2>6, Zenon DEF Good
  <1>3. CASE glyph.run = ""
    <2> DEFINE code == glyph.code
    <2>1. CodePoint(code) = glyph
      BY <1>1, <1>3 DEF CodePoint
    <2>2. CASE Letters(code) # {}
      <3> DEFINE letter == CHOOSE letter \in Letters(code) : TRUE
                 p == Piece("escape", "", letter)
      <3>1. letter \in Letters(code)
        BY <2>2
      <3> HIDE DEF letter
      <3>2. letter \in Nat /\ letter \in DOMAIN Escapes /\ Escapes[letter] = code
        BY <3>1, LettersFacts
      <3>3. p.form = "escape" /\ p.code = letter
        BY DEF Piece
      <3>4. piece = p
        BY <1>3, <2>2, Zenon DEF Escape, letter
      <3>5. p \in Pieces
        BY <3>2, RunsAssumption, PieceTyped
      <3> HIDE DEF p
      <3>6. Good(p)
        BY <2>1, <3>2, <3>3, Zenon DEF DecodePiece
      <3> HIDE DEF Good
      <3>7. Good(piece) /\ piece \in Pieces
        BY <3>4, <3>5, <3>6
      <3> QED BY <3>7, Zenon DEF Good
    <2>3. CASE Letters(code) = {} /\ code < 32
      <3> DEFINE p == Piece("unit", "", code)
      <3>1. p.form = "unit" /\ p.code = code
        BY DEF Piece
      <3>2. piece = p
        BY <1>3, <2>3, Zenon DEF Escape
      <3>3. p \in Pieces
        BY <1>1, RunsAssumption, PieceTyped
      <3>4. ~IsHigh(code) /\ ~IsLow(code)
        BY <1>1, <2>3, LowCodes
      <3> HIDE DEF p
      <3>5. Good(p)
        BY <2>1, <3>1, <3>4, Zenon DEF DecodePiece
      <3> HIDE DEF Good
      <3>6. Good(piece) /\ piece \in Pieces
        BY <3>2, <3>3, <3>5
      <3> QED BY <3>6, Zenon DEF Good
    <2>4. CASE Letters(code) = {} /\ ~(code < 32)
      <3> DEFINE p == Piece("raw", "", code)
      <3>1. p.form = "raw" /\ p.code = code
        BY DEF Piece
      <3>2. piece = p
        BY <1>3, <2>4, Zenon DEF Escape
      <3>3. p \in Pieces
        BY <1>1, RunsAssumption, PieceTyped
      <3>4. code >= 32
        <4>1. code \in Nat
          BY <1>1
        <4> HIDE DEF code
        <4> QED BY <2>4, <4>1
      <3> HIDE DEF p
      <3>5. Good(p)
        BY <2>1, <3>1, <3>4, Zenon DEF DecodePiece
      <3> HIDE DEF Good
      <3>6. Good(piece) /\ piece \in Pieces
        BY <3>2, <3>3, <3>5
      <3> QED BY <3>6, Zenon DEF Good
    <2> QED BY <2>2, <2>3, <2>4
  <1> QED BY <1>2, <1>3

LEMMA StringReadsBack ==
  ASSUME NEW t \in Seq(Glyphs)
  PROVE  LET pieces == [i \in DOMAIN t |-> Escape(t[i])]
         IN pieces \in Seq(Pieces) /\ DecodeString(pieces) = String(t)
  <1> DEFINE pieces == [i \in DOMAIN t |-> Escape(t[i])]
             n == Len(t)
             r == ReadingOf(pieces)
             P == {m \in 0 .. n : r[m] = [text |-> FirstOf(t, m), high |-> 0, ok |-> TRUE]}
  <1>1. n \in Nat /\ DOMAIN t = 1 .. n /\ \A i \in 1 .. n : t[i] \in Glyphs
    OBVIOUS
  <1>2. pieces \in [1 .. n -> Pieces]
    BY <1>1, EscapeDecodes
  <1>3. pieces \in Seq(Pieces) /\ Len(pieces) = n
    <2> HIDE DEF pieces
    <2> QED BY <1>1, <1>2
  <1>4. \A i \in 1 .. n : pieces[i] = Escape(t[i])
    BY <1>1
  <1> HIDE DEF pieces, n
  <1>5. IsReading(r, pieces)
    BY <1>3, ReadingFacts
  <1> HIDE DEF r
  <1>6. \A m \in 0 .. n : r[m] = IF m = 0 THEN [text |-> <<>>, high |-> 0, ok |-> TRUE] ELSE DecodePiece(r[m - 1], pieces[m])
    BY <1>1, <1>3, <1>5, Zenon DEF IsReading
  <1>7. 0 \in P
    <2>1. FirstOf(t, 0) = <<>>
      BY FirstOfFacts
    <2>2. 0 \in 0 .. n
      BY <1>1
    <2>3. r[0] = [text |-> FirstOf(t, 0), high |-> 0, ok |-> TRUE]
      BY <1>6, <2>1, <2>2
    <2> QED BY <2>2, <2>3
  <1>8. ASSUME NEW m \in 1 .. n, m - 1 \in P PROVE m \in P
    <2> DEFINE before == r[m - 1]
               x == FirstOf(t, m - 1)
    <2>1. before = [text |-> x, high |-> 0, ok |-> TRUE]
      BY <1>8
    <2>2. Append(x, t[m]) = FirstOf(t, m)
      BY FirstOfFacts DEF n
    <2>3. r[m] = DecodePiece(before, Escape(t[m]))
      <3>1. m \in 0 .. n /\ m # 0
        BY <1>1
      <3> QED BY <1>4, <1>6, <3>1
    <2> HIDE DEF before, x
    <2>4. before.ok /\ before.high = 0 /\ before.text = x
      BY <2>1
    <2>5. DecodePiece(before, Escape(t[m])) = [before EXCEPT !.text = Append(@, t[m])]
      BY <1>1, <2>4, EscapeDecodes
    <2> DEFINE y == Append(x, t[m])
               yes == TRUE
    <2>6. [before EXCEPT !.text = Append(@, t[m])] = [before EXCEPT !.text = y]
      BY <2>4
    <2>7. before = [text |-> x, high |-> 0, ok |-> yes]
      BY <2>1
    <2> HIDE DEF y, yes
    <2>8. [before EXCEPT !.text = y] = [text |-> y, high |-> 0, ok |-> yes]
      BY <2>7
    <2>9. r[m] = [text |-> FirstOf(t, m), high |-> 0, ok |-> TRUE]
      BY <2>2, <2>3, <2>5, <2>6, <2>8 DEF y, yes
    <2> QED BY <1>1, <2>9
  <1>9. n \in P
    <2>1. \A m \in 0 .. n : m \in P
      <3> HIDE DEF P
      <3> QED BY <1>1, <1>7, <1>8, Induction
    <2> HIDE DEF P
    <2> QED BY <1>1, <2>1
  <1>10. r[n] = [text |-> t, high |-> 0, ok |-> TRUE]
    BY <1>9, FirstOfFacts DEF n
  <1>11. DecodeString(pieces) = IF r[n].ok /\ r[n].high = 0 THEN String(r[n].text) ELSE Nothing
    BY <1>3, ReadingFacts DEF r
  <1>12. r[n].ok /\ r[n].high = 0 /\ r[n].text = t
    BY <1>10
  <1>13. DecodeString(pieces) = String(t)
    BY <1>11, <1>12
  <1> QED BY <1>3, <1>13 DEF pieces

-----------------------------------------------------------------------------
(* What is written is read back: lists.                                     *)

\* The text has these tokens at position i.
HasAt(text, i, tokens) ==
  \A k \in 1 .. Len(tokens) : i + k - 1 \in DOMAIN text /\ text[i + k - 1] = tokens[k]

LEMMA HasAtConcat ==
  ASSUME NEW text, NEW i \in Nat, NEW S, NEW a \in Seq(S), NEW b \in Seq(S), HasAt(text, i, a \o b)
  PROVE  HasAt(text, i, a) /\ HasAt(text, i + Len(a), b)
  <1> DEFINE c == a \o b
             m == Len(a)
             n == Len(b)
  <1>1. /\ m \in Nat /\ n \in Nat /\ Len(c) = m + n
        /\ (\A k \in 1 .. m : c[k] = a[k]) /\ \A k \in 1 .. n : c[m + k] = b[k]
    OBVIOUS
  <1> HIDE DEF c, m, n
  <1>2. \A k \in 1 .. m + n : i + k - 1 \in DOMAIN text /\ text[i + k - 1] = c[k]
    BY <1>1 DEF HasAt, c
  <1>3. ASSUME NEW k \in 1 .. m PROVE i + k - 1 \in DOMAIN text /\ text[i + k - 1] = a[k]
    <2>1. k \in 1 .. m + n
      BY <1>1
    <2> QED BY <1>1, <1>2, <2>1
  <1>4. ASSUME NEW k \in 1 .. n PROVE (i + m) + k - 1 \in DOMAIN text /\ text[(i + m) + k - 1] = b[k]
    <2>1. m + k \in 1 .. m + n /\ i + (m + k) - 1 = (i + m) + k - 1
      BY <1>1
    <2> QED BY <1>1, <1>2, <2>1
  <1> QED BY <1>3, <1>4 DEF HasAt, m, n

LEMMA HasOne ==
  ASSUME NEW text, NEW i \in Nat, NEW token, HasAt(text, i, <<token>>)
  PROVE  i \in DOMAIN text /\ text[i] = token
  <1>1. 1 \in 1 .. Len(<<token>>) /\ i + 1 - 1 = i /\ <<token>>[1] = token
    OBVIOUS
  <1> QED BY <1>1 DEF HasAt

LEMMA TokenFacts ==
  /\ \A kind \in Kinds : Token(kind) \in Tokens /\ Token(kind).kind = kind
  /\ \A pieces \in Seq(Pieces) : /\ StringToken(pieces) \in Tokens /\ StringToken(pieces).kind = "string"
                                 /\ StringToken(pieces).pieces = pieces
  /\ \A n \in Nat : LET token == NumberToken(FALSE, n, FALSE)
                    IN token \in Tokens /\ token.kind = "number" /\ token.magnitude = n /\ ~token.negative /\ ~token.fraction
  <1> DEFINE no == FALSE
  <1>1. no \in BOOLEAN /\ <<>> \in Seq(Pieces)
    OBVIOUS
  <1> HIDE DEF no
  <1>2. ASSUME NEW kind \in Kinds
        PROVE  Token(kind) \in Tokens /\ Token(kind).kind = kind
    <2>1. Token(kind) = [kind |-> kind, pieces |-> <<>>, negative |-> no, magnitude |-> 0, fraction |-> no]
      BY Zenon DEF Token, no
    <2> QED BY <1>1, <2>1 DEF Tokens
  <1>3. ASSUME NEW pieces \in Seq(Pieces)
        PROVE  /\ StringToken(pieces) \in Tokens /\ StringToken(pieces).kind = "string"
               /\ StringToken(pieces).pieces = pieces
    <2>1. Token("string") = [kind |-> "string", pieces |-> <<>>, negative |-> no, magnitude |-> 0, fraction |-> no]
      BY Zenon DEF Token, no
    <2>2. StringToken(pieces) = [Token("string") EXCEPT !.pieces = pieces]
      BY Zenon DEF StringToken
    <2>3. StringToken(pieces) = [kind |-> "string", pieces |-> pieces, negative |-> no, magnitude |-> 0, fraction |-> no]
      BY <2>1, <2>2
    <2>4. "string" \in Kinds
      BY DEF Kinds
    <2> QED BY <1>1, <2>3, <2>4 DEF Tokens
  <1>4. ASSUME NEW n \in Nat
        PROVE  LET token == NumberToken(FALSE, n, FALSE)
               IN token \in Tokens /\ token.kind = "number" /\ token.magnitude = n /\ ~token.negative /\ ~token.fraction
    <2> DEFINE token == NumberToken(FALSE, n, FALSE)
               zero == 0
               one == [kind |-> "number", pieces |-> <<>>, negative |-> no, magnitude |-> zero, fraction |-> no]
    <2>1. token = [one EXCEPT !.negative = no, !.magnitude = n, !.fraction = no]
      BY Zenon DEF NumberToken, Token, no
    <2>2. [one EXCEPT !.negative = no] = one
      <3> HIDE DEF zero
      <3> QED OBVIOUS
    <2>3. [one EXCEPT !.magnitude = n] = [kind |-> "number", pieces |-> <<>>, negative |-> no, magnitude |-> n, fraction |-> no]
      <3> HIDE DEF zero
      <3> QED OBVIOUS
    <2> DEFINE two == [kind |-> "number", pieces |-> <<>>, negative |-> no, magnitude |-> n, fraction |-> no]
    <2>4. [two EXCEPT !.fraction = no] = two
      OBVIOUS
    <2>5. token = two
      <3>1. token = [[[one EXCEPT !.negative = no] EXCEPT !.magnitude = n] EXCEPT !.fraction = no]
        <4> HIDE DEF one, token
        <4> QED BY <2>1, Zenon
      <3>2. [[one EXCEPT !.negative = no] EXCEPT !.magnitude = n] = two
        <4>1. [one EXCEPT !.magnitude = n] = two
          BY <2>3
        <4> HIDE DEF one, two
        <4> QED BY <2>2, <4>1, Zenon
      <3> HIDE DEF one, two, token
      <3> QED BY <2>4, <3>1, <3>2, Zenon
    <2>6. "number" \in Kinds
      BY DEF Kinds
    <2>7. two \in Tokens
      BY <1>1, <2>6 DEF Tokens
    <2>8. two.kind = "number" /\ two.magnitude = n /\ two.negative = no /\ two.fraction = no
      OBVIOUS
    <2> HIDE DEF token, two
    <2>9. token \in Tokens /\ token.kind = "number" /\ token.magnitude = n /\ ~token.negative /\ ~token.fraction
      BY <2>5, <2>7, <2>8 DEF no
    <2> QED BY <2>9 DEF token
  <1> QED BY <1>2, <1>3, <1>4

-----------------------------------------------------------------------------
(* Lists *)

Comma == <<Token(",")>>

IsJoined(joined, parts) ==
  joined = [n \in 0 .. Len(parts) |->
              IF n = 0 THEN <<>> ELSE IF n = 1 THEN parts[1] ELSE joined[n - 1] \o Comma \o parts[n]]

JoinedOf(parts) == CHOOSE joined : IsJoined(joined, parts)

LEMMA CommaFacts == Comma \in Seq(Tokens) /\ Len(Comma) = 1 /\ Comma[1] = Token(",")
  <1> DEFINE token == Token(",")
  <1>1. token \in Tokens
    BY TokenFacts DEF Kinds
  <1> HIDE DEF token
  <1>2. <<token>> \in Seq(Tokens) /\ Len(<<token>>) = 1 /\ <<token>>[1] = token
    BY <1>1
  <1> QED BY <1>2 DEF Comma, token

\* The parts up to the nth, joined.
LEMMA JoinedFacts ==
  ASSUME NEW parts \in Seq(Seq(Tokens))
  PROVE  /\ Separated(parts) = JoinedOf(parts)[Len(parts)]
         /\ JoinedOf(parts)[0] = <<>>
         /\ \A n \in 0 .. Len(parts) : JoinedOf(parts)[n] \in Seq(Tokens)
         /\ Len(parts) >= 1 => JoinedOf(parts)[1] = parts[1]
         /\ \A n \in 2 .. Len(parts) : JoinedOf(parts)[n] = JoinedOf(parts)[n - 1] \o Comma \o parts[n]
  <1> DEFINE N == Len(parts)
             V == Seq(Tokens)
             base == <<>>
             Grow(s, n) == IF n = 1 THEN parts[1] ELSE s \o Comma \o parts[n]
             step == [p \in V \X (1 .. N) |-> Grow(p[1], p[2])]
             Step(f) == [n \in 0 .. N |-> IF n = 0 THEN base ELSE IF n = 1 THEN parts[1] ELSE f[n - 1] \o Comma \o parts[n]]
             joined == CHOOSE f : f = Step(f)
  <1>1. N \in Nat /\ base \in V /\ \A n \in 1 .. N : parts[n] \in V
    OBVIOUS
  <1>2. \A s \in V, n \in 1 .. N : Grow(s, n) \in V
    <2>1. ASSUME NEW s \in V, NEW n \in 1 .. N PROVE Grow(s, n) \in V
      <3>1. parts[n] \in V /\ (n = 1 => parts[1] \in V)
        BY <1>1
      <3>2. s \o Comma \in V
        BY CommaFacts, ConcatProperties
      <3>3. (s \o Comma) \o parts[n] \in V
        BY <3>1, <3>2, ConcatProperties
      <3> HIDE DEF V
      <3> QED BY <3>1, <3>3
    <2> QED BY <2>1
  <1>3. \E f : f = Step(f)
    <2>1. step \in [V \X (1 .. N) -> V]
      <3> HIDE DEF Grow, V, N
      <3> QED BY <1>2
    <2>2. PICK f \in [0 .. N -> V] : Follows(f, N, base, step)
      <3> HIDE DEF V, base, step, N
      <3> QED BY <1>1, <2>1, Recursion
    <2>3. ASSUME NEW i \in 1 .. N PROVE f[i] = Grow(f[i - 1], i)
      <3>1. f[i - 1] \in V /\ <<f[i - 1], i>> \in V \X (1 .. N)
        <4> HIDE DEF V, N
        <4> QED BY <1>1
      <3>2. f[i] = step[<<f[i - 1], i>>]
        <4> HIDE DEF V, base, step, N
        <4> QED BY <2>2 DEF Follows
      <3> HIDE DEF V, N, Grow
      <3> QED BY <3>1, <3>2
    <2>4. f[0] = base /\ f = [m \in 0 .. N |-> f[m]]
      <3> HIDE DEF V, base, step, N
      <3> QED BY <2>2 DEF Follows
    <2>5. f = Step(f)
      <3>1. ASSUME NEW m \in 0 .. N
            PROVE  f[m] = IF m = 0 THEN base ELSE IF m = 1 THEN parts[1] ELSE f[m - 1] \o Comma \o parts[m]
        <4>1. m = 0 \/ m \in 1 .. N
          BY <1>1
        <4>2. m # 0 => f[m] = Grow(f[m - 1], m)
          BY <2>3, <4>1
        <4> HIDE DEF base, N, V, step
        <4> QED BY <2>4, <4>1, <4>2
      <3> HIDE DEF base, N, V, step
      <3> QED BY <2>4, <3>1
    <2> HIDE DEF Step
    <2> QED BY <2>5
  <1>4. joined = Step(joined)
    <2> HIDE DEF Step
    <2> QED BY <1>3
  <1>5. joined = JoinedOf(parts)
    BY Zenon DEF JoinedOf, IsJoined
  <1>6. Separated(parts) = joined[N]
    BY Zenon DEF Separated, Comma
  <1> HIDE DEF joined
  <1>7. \A n \in 0 .. N : joined[n] = IF n = 0 THEN base ELSE IF n = 1 THEN parts[1] ELSE joined[n - 1] \o Comma \o parts[n]
    <2>1. \A n \in 0 .. N : joined[n] = Step(joined)[n]
      <3> HIDE DEF Step
      <3> QED BY <1>4
    <2> HIDE DEF base, N
    <2> QED BY <2>1
  <1> DEFINE P == {n \in 0 .. N : joined[n] \in V}
  <1>8. 0 \in P
    <2>1. joined[0] = base
      <3> HIDE DEF N, base
      <3> QED BY <1>1, <1>7
    <2> HIDE DEF N, V, base
    <2> QED BY <1>1, <2>1
  <1>9. ASSUME NEW n \in 1 .. N, n - 1 \in P PROVE n \in P
    <2>1. joined[n] = Grow(joined[n - 1], n)
      <3>1. n \in 0 .. N /\ n # 0
        BY <1>1
      <3> HIDE DEF N, base
      <3> QED BY <1>7, <3>1
    <2> HIDE DEF N, V, Grow
    <2> QED BY <1>1, <1>2, <1>9, <2>1
  <1>10. \A n \in 0 .. N : n \in P
    <2> HIDE DEF P, N
    <2> QED BY <1>1, <1>8, <1>9, Induction
  <1>11. N >= 1 => joined[1] = parts[1]
    <2> HIDE DEF N, base
    <2> QED BY <1>1, <1>7
  <1>12. \A n \in 2 .. N : joined[n] = joined[n - 1] \o Comma \o parts[n]
    <2> HIDE DEF N, base
    <2>1. ASSUME NEW n \in 2 .. N PROVE joined[n] = joined[n - 1] \o Comma \o parts[n]
      <3>1. n \in 0 .. N /\ n # 0 /\ n # 1
        BY <1>1
      <3> QED BY <1>7, <3>1, Zenon
    <2> QED BY <2>1
  <1>13. joined[0] = <<>>
    <2> HIDE DEF N
    <2> QED BY <1>1, <1>7
  <1> QED BY <1>5, <1>6, <1>10, <1>11, <1>12, <1>13

-----------------------------------------------------------------------------
(* What is written is read back: entries, and lists of them.                *)

\* Wherever these tokens stand, the value v is read, or the entry e of a list.
ReadsAs(tokens, v) ==
  \A text \in Seq(Tokens), i \in Nat :
    HasAt(text, i, tokens) => ParserOf(text)[<<"value", i>>] = Found(v, i + Len(tokens))

EntryReadsAs(part, tokens, e) ==
  \A text \in Seq(Tokens), i \in Nat :
    HasAt(text, i, tokens) => ReadEntry(text, part, i, ParserOf(text)) = Found(e, i + Len(tokens))

\* Where the nth part of a list begins.
Start(parts, n) == IF n = 1 THEN 0 ELSE Len(JoinedOf(parts)[n - 1]) + 1

LEMMA LengthFacts ==
  ASSUME NEW parts \in Seq(Seq(Tokens)), NEW n \in 1 .. Len(parts)
  PROVE  LET J == JoinedOf(parts)
         IN /\ Len(J[n]) \in Nat /\ Start(parts, n) \in Nat /\ Len(parts[n]) \in Nat
            /\ Len(J[n]) = Start(parts, n) + Len(parts[n])
            /\ \A text : \A i \in Nat : HasAt(text, i, J[n]) =>
                 /\ HasAt(text, i + Start(parts, n), parts[n])
                 /\ n # 1 => HasAt(text, i, J[n - 1]) /\ HasAt(text, i + Len(J[n - 1]), Comma)
  <1> DEFINE J == JoinedOf(parts)
             V == Seq(Tokens)
             here == J[n]
             part == parts[n]
  <1>1. part \in V /\ Len(part) \in Nat /\ here \in V /\ Len(here) \in Nat
    <2>1. part \in V
      OBVIOUS
    <2>2. here \in V
      <3>1. n \in 0 .. Len(parts)
        OBVIOUS
      <3> QED BY <3>1, JoinedFacts
    <2> HIDE DEF here, part
    <2> QED BY <2>1, <2>2
  <1> SUFFICES /\ Len(here) \in Nat /\ Start(parts, n) \in Nat /\ Len(part) \in Nat
               /\ Len(here) = Start(parts, n) + Len(part)
               /\ \A text : \A i \in Nat : HasAt(text, i, here) =>
                    /\ HasAt(text, i + Start(parts, n), part)
                    /\ n # 1 => HasAt(text, i, J[n - 1]) /\ HasAt(text, i + Len(J[n - 1]), Comma)
    OBVIOUS
  <1>2. CASE n = 1
    <2>1. here = part /\ Start(parts, n) = 0
      <3>1. Len(parts) >= 1
        BY <1>2
      <3> QED BY <1>2, <3>1, JoinedFacts DEF Start
    <2> HIDE DEF here, part, J
    <2>2. \A text : \A i \in Nat : i + Start(parts, n) = i
      BY <2>1
    <2> QED BY <1>1, <1>2, <2>1, <2>2
  <1>3. CASE n # 1
    <2> DEFINE before == J[n - 1]
               joint == before \o Comma
               m == Len(before)
    <2>1. here = joint \o part
      <3>1. n \in 2 .. Len(parts)
        BY <1>3
      <3> QED BY <3>1, JoinedFacts
    <2>2. before \in V
      <3>1. n - 1 \in 0 .. Len(parts)
        OBVIOUS
      <3> QED BY <3>1, JoinedFacts
    <2>3. Start(parts, n) = m + 1
      BY <1>3 DEF Start
    <2> HIDE DEF here, before, part, J
    <2>4. m \in Nat
      BY <2>2
    <2>5. joint \in V /\ Len(joint) = m + 1
      <3> DEFINE c == Comma
      <3>1. c \in V /\ Len(c) = 1 /\ joint = before \o c
        BY CommaFacts
      <3> HIDE DEF c, joint
      <3>2. before \o c \in V /\ Len(before \o c) = Len(before) + Len(c)
        BY <2>2, <3>1, ConcatProperties
      <3> QED BY <3>1, <3>2
    <2> HIDE DEF joint, m
    <2>6. Len(here) = Len(joint) + Len(part)
      BY <1>1, <2>1, <2>5, ConcatProperties
    <2>7. ASSUME NEW text, NEW i \in Nat, HasAt(text, i, here)
          PROVE  /\ HasAt(text, i + Start(parts, n), part)
                 /\ HasAt(text, i, before) /\ HasAt(text, i + m, Comma)
      <3>1. HasAt(text, i, joint) /\ HasAt(text, i + Len(joint), part)
        <4>1. HasAt(text, i, joint \o part)
          BY <2>1, <2>7
        <4> HIDE DEF V
        <4> QED BY <1>1, <2>5, <4>1, HasAtConcat DEF V
      <3>2. HasAt(text, i, before) /\ HasAt(text, i + m, Comma)
        BY <2>2, <3>1, CommaFacts, HasAtConcat DEF joint, m
      <3> QED BY <2>3, <2>5, <3>1, <3>2
    <2> QED BY <1>1, <2>3, <2>4, <2>5, <2>6, <2>7 DEF before, m
  <1> QED BY <1>2, <1>3

\* Where a joined list stands, so do its parts, with a comma between them.
LEMMA PartsAt ==
  ASSUME NEW parts \in Seq(Seq(Tokens)), NEW text, NEW i \in Nat,
         Len(parts) >= 1, HasAt(text, i, Separated(parts))
  PROVE  \A n \in 1 .. Len(parts) : /\ HasAt(text, i + Start(parts, n), parts[n])
                                    /\ n # Len(parts) => HasAt(text, i + Len(JoinedOf(parts)[n]), Comma)
  <1> DEFINE J == JoinedOf(parts)
             N == Len(parts)
             P == {m \in 0 .. N - 1 : HasAt(text, i, J[N - m])}
  <1>1. N \in Nat /\ N >= 1
    OBVIOUS
  <1>2. J[N] = Separated(parts)
    BY JoinedFacts
  <1>3. \A n \in 1 .. N : HasAt(text, i, J[n]) =>
                 /\ HasAt(text, i + Start(parts, n), parts[n])
                 /\ n # 1 => HasAt(text, i, J[n - 1]) /\ HasAt(text, i + Len(J[n - 1]), Comma)
    <2>1. ASSUME NEW n \in 1 .. N, HasAt(text, i, J[n])
          PROVE  /\ HasAt(text, i + Start(parts, n), parts[n])
                 /\ n # 1 => HasAt(text, i, J[n - 1]) /\ HasAt(text, i + Len(J[n - 1]), Comma)
      BY <2>1, LengthFacts
    <2> QED BY <2>1, Zenon
  <1> HIDE DEF J, N
  <1>4. \A m \in 0 .. N - 1 : m \in P
    <2>1. 0 \in P
      <3>1. N - 0 = N /\ 0 \in 0 .. N - 1
        BY <1>1
      <3> QED BY <1>2, <3>1
    <2>2. ASSUME NEW m \in 1 .. N - 1, m - 1 \in P PROVE m \in P
      <3>1. HasAt(text, i, J[N - (m - 1)])
        BY <2>2
      <3> DEFINE n == N - (m - 1)
      <3>2. n \in 1 .. N /\ n # 1 /\ n - 1 = N - m
        BY <1>1
      <3> HIDE DEF n
      <3>3. HasAt(text, i, J[n - 1])
        BY <1>3, <3>1, <3>2 DEF n
      <3> QED BY <3>2, <3>3
    <2>3. N - 1 \in Nat
      BY <1>1
    <2> HIDE DEF P
    <2> QED BY <2>1, <2>2, <2>3, Induction
  <1>5. ASSUME NEW n \in 1 .. N PROVE HasAt(text, i, J[n])
    <2>1. N - n \in 0 .. N - 1 /\ N - (N - n) = n
      BY <1>1
    <2> QED BY <1>4, <2>1
  <1>6. ASSUME NEW n \in 1 .. N, n # N PROVE HasAt(text, i + Len(J[n]), Comma)
    <2>1. n + 1 \in 1 .. N /\ n + 1 # 1 /\ (n + 1) - 1 = n
      BY <1>1, <1>6
    <2> QED BY <1>3, <1>5, <2>1
  <1>7. \A n \in 1 .. N : HasAt(text, i + Start(parts, n), parts[n])
    BY <1>3, <1>5
  <1> QED BY <1>6, <1>7 DEF J, N

\* The entries from the nth on.
RestOf(entries, n) == [k \in 1 .. Len(entries) - n + 1 |-> entries[k + n - 1]]

LEMMA RestFacts ==
  ASSUME NEW S, NEW entries \in Seq(S), Len(entries) >= 1
  PROVE  /\ RestOf(entries, 1) = entries
         /\ RestOf(entries, Len(entries)) = <<entries[Len(entries)]>>
         /\ \A n \in 1 .. Len(entries) - 1 : <<entries[n]>> \o RestOf(entries, n + 1) = RestOf(entries, n)
  <1> DEFINE N == Len(entries)
  <1>1. N \in Nat /\ entries \in [1 .. N -> S] /\ N >= 1
    OBVIOUS
  <1>2. ASSUME NEW n \in 1 .. N
        PROVE  RestOf(entries, n) \in Seq(S) /\ Len(RestOf(entries, n)) = N - n + 1
    <2> DEFINE r == RestOf(entries, n)
    <2>1. r \in [1 .. N - n + 1 -> S] /\ N - n + 1 \in Nat
      <3>1. \A k \in 1 .. N - n + 1 : k + n - 1 \in 1 .. N
        <4> HIDE DEF N
        <4> QED BY <1>1
      <3>2. r = [k \in 1 .. N - n + 1 |-> entries[k + n - 1]]
        BY DEF RestOf
      <3> HIDE DEF N, r
      <3> QED BY <1>1, <3>1, <3>2
    <2> HIDE DEF r, N
    <2>2. r \in Seq(S) /\ Len(r) = N - n + 1
      BY <2>1
    <2> QED BY <2>2 DEF r
  <1>3. \A n \in 1 .. N : \A k \in 1 .. N - n + 1 : RestOf(entries, n)[k] = entries[k + n - 1]
    BY DEF RestOf
  <1>4. RestOf(entries, 1) = entries
    <2> DEFINE r == RestOf(entries, 1)
    <2>1. r \in Seq(S) /\ Len(r) = N
      BY <1>1, <1>2
    <2>2. \A k \in 1 .. Len(r) : r[k] = entries[k]
      <3>1. ASSUME NEW k \in 1 .. N PROVE r[k] = entries[k]
        <4>1. 1 \in 1 .. N /\ k \in 1 .. N - 1 + 1 /\ k + 1 - 1 = k
          BY <1>1
        <4> QED BY <1>3, <4>1
      <3> QED BY <2>1, <3>1
    <2> HIDE DEF r
    <2> QED BY <2>1, <2>2, SeqEqual DEF r
  <1>5. RestOf(entries, N) = <<entries[N]>>
    <2> DEFINE r == RestOf(entries, N)
               e == entries[N]
               one == <<e>>
    <2>1. r \in Seq(S) /\ Len(r) = 1 /\ r[1] = e
      <3>1. N \in 1 .. N /\ 1 \in 1 .. N - N + 1 /\ 1 + N - 1 = N /\ N - N + 1 = 1
        BY <1>1
      <3> HIDE DEF N
      <3> QED BY <1>2, <1>3, <3>1
    <2>2. e \in S
      BY <1>1
    <2> HIDE DEF r, e
    <2>3. one \in Seq(S) /\ Len(one) = 1 /\ one[1] = e
      BY <2>2
    <2> HIDE DEF one
    <2>4. \A k \in 1 .. Len(r) : r[k] = one[k]
      BY <2>1, <2>3
    <2>5. r = one
      BY <2>1, <2>3, <2>4, SeqEqual
    <2> QED BY <2>5 DEF r, one, e
  <1>6. ASSUME NEW n \in 1 .. N - 1
        PROVE  <<entries[n]>> \o RestOf(entries, n + 1) = RestOf(entries, n)
    <2> DEFINE e == entries[n]
               one == <<e>>
               rest == RestOf(entries, n + 1)
               all == one \o rest
               r == RestOf(entries, n)
    <2>1. n \in 1 .. N /\ n + 1 \in 1 .. N /\ e \in S
      BY <1>1
    <2>2. r \in Seq(S) /\ Len(r) = N - n + 1 /\ rest \in Seq(S) /\ Len(rest) = N - n
      <3>1. N - (n + 1) + 1 = N - n
        BY <1>1
      <3> HIDE DEF N
      <3> QED BY <1>2, <2>1, <3>1
    <2>3. \A k \in 1 .. N - n + 1 : r[k] = entries[k + n - 1]
      BY <1>3, <2>1
    <2>4. \A k \in 1 .. N - n : rest[k] = entries[k + n]
      <3>1. ASSUME NEW k \in 1 .. N - n PROVE rest[k] = entries[k + n]
        <4>1. k \in 1 .. N - (n + 1) + 1 /\ k + (n + 1) - 1 = k + n
          BY <1>1
        <4> HIDE DEF N
        <4> QED BY <1>3, <2>1, <4>1
      <3> QED BY <3>1
    <2>5. e = entries[n]
      OBVIOUS
    <2> HIDE DEF rest, r, e, N
    <2>6. all \in Seq(S) /\ Len(all) = 1 + (N - n) /\ all[1] = e /\ \A k \in 1 .. N - n : all[k + 1] = rest[k]
      <3>1. one \in Seq(S) /\ Len(one) = 1 /\ one[1] = e
        BY <2>1
      <3> HIDE DEF one
      <3>2. /\ all \in Seq(S) /\ Len(all) = Len(one) + Len(rest)
            /\ \A k \in 1 .. Len(one) + Len(rest) : all[k] = IF k <= Len(one) THEN one[k] ELSE rest[k - Len(one)]
        <4>1. /\ one \o rest \in Seq(S) /\ Len(one \o rest) = Len(one) + Len(rest)
              /\ \A k \in 1 .. Len(one) + Len(rest) :
                   (one \o rest)[k] = IF k <= Len(one) THEN one[k] ELSE rest[k - Len(one)]
          <5>1. one \in Seq(S) /\ rest \in Seq(S)
            BY <2>2, <3>1
          <5> HIDE DEF all
          <5> QED BY <5>1
        <4> QED BY <4>1 DEF all
      <3> HIDE DEF all
      <3> QED BY <1>1, <2>1, <2>2, <3>1, <3>2
    <2> HIDE DEF all
    <2>7. ASSUME NEW k \in 1 .. N - n + 1 PROVE all[k] = r[k]
      <3>1. CASE k = 1
        <4>1. k + n - 1 = n
          BY <2>1, <3>1
        <4> QED BY <2>3, <2>5, <2>6, <3>1, <4>1
      <3>2. CASE k # 1
        <4>1. k - 1 \in 1 .. N - n /\ (k - 1) + 1 = k /\ (k - 1) + n = k + n - 1
          BY <1>1, <2>1, <3>2
        <4> QED BY <2>3, <2>4, <2>6, <4>1
      <3> QED BY <3>1, <3>2
    <2>8. Len(all) = Len(r) /\ \A k \in 1 .. Len(all) : all[k] = r[k]
      BY <1>1, <2>1, <2>2, <2>6, <2>7
    <2>9. all = r
      BY <2>2, <2>6, <2>8, SeqEqual
    <2> QED BY <2>9 DEF all, one, e, rest, r
  <1> QED BY <1>4, <1>5, <1>6

Lists == {"members", "items"}

Close(part) == IF part = "members" THEN "}" ELSE "]"
Open(part)  == IF part = "members" THEN "{" ELSE "["

TableAt(f, part, i) == f[<<part, i>>]

IsComma(text, i) == KindAt(text, i) = ","

LEMMA KindHere ==
  ASSUME NEW text, NEW i \in Nat, NEW kind \in Kinds, HasAt(text, i, <<Token(kind)>>)
  PROVE  KindAt(text, i) = kind
  <1>1. i \in DOMAIN text /\ text[i] = Token(kind)
    BY HasOne
  <1>2. Token(kind).kind = kind
    BY TokenFacts
  <1> QED BY <1>1, <1>2, Zenon DEF KindAt

\* A list ends with its bracket and goes on behind a comma.
LEMMA ListEnds ==
  ASSUME NEW text, NEW f, NEW part \in Lists, NEW i \in Nat, NEW e, NEW next \in Nat,
         ReadEntry(text, part, i, f) = Found(e, next), KindAt(text, next) = Close(part)
  PROVE  StepAt(text, f, part, i) = Found(<<e>>, next + 1)
  <1> DEFINE entry == Found(e, next)
             after == AfterEntry(KindAt(text, next), Close(part))
  <1>1. entry # Nothing /\ entry.value = e /\ entry.next = next
    BY NothingFacts
  <1>2. StepAt(text, f, part, i) = ReadList(text, part, entry, f)
    <2>1. part # "value"
      BY DEF Lists
    <2> QED BY <2>1, Zenon DEF StepAt
  <1> HIDE DEF entry
  <1>3. ReadList(text, part, entry, f) = Followed(part, entry, after, f)
    BY <1>1, Zenon DEF ReadList, Close
  <1>4. after = "ended"
    BY DEF AfterEntry
  <1> HIDE DEF after
  <1>5. Followed(part, entry, after, f) = Found(<<e>>, next + 1)
    BY <1>1, <1>4, Zenon DEF Followed
  <1> QED BY <1>2, <1>3, <1>5

LEMMA ListGoesOn ==
  ASSUME NEW text, NEW f, NEW part \in Lists, NEW i \in Nat, NEW e, NEW next \in Nat,
         ReadEntry(text, part, i, f) = Found(e, next), IsComma(text, next)
  PROVE  StepAt(text, f, part, i) = Prefixed(e, TableAt(f, part, next + 1))
  <1> DEFINE entry == Found(e, next)
             after == AfterEntry(KindAt(text, next), Close(part))
  <1>1. entry # Nothing /\ entry.value = e /\ entry.next = next
    BY NothingFacts
  <1>2. StepAt(text, f, part, i) = ReadList(text, part, entry, f)
    <2>1. part # "value"
      BY DEF Lists
    <2> QED BY <2>1, Zenon DEF StepAt
  <1> HIDE DEF entry
  <1>3. ReadList(text, part, entry, f) = Followed(part, entry, after, f)
    BY <1>1, Zenon DEF ReadList, Close
  <1>4. after = "another"
    BY DEF AfterEntry, Close, IsComma
  <1> HIDE DEF after
  <1>5. Followed(part, entry, after, f) = Prefixed(e, TableAt(f, part, next + 1))
    BY <1>1, <1>4 DEF Followed, TableAt
  <1> QED BY <1>2, <1>3, <1>5

LEMMA ListReads ==
  ASSUME NEW part \in Lists, NEW parts \in Seq(Seq(Tokens)), NEW S, NEW entries \in Seq(S),
         Len(entries) = Len(parts), Len(parts) >= 1,
         \A n \in 1 .. Len(parts) : EntryReadsAs(part, parts[n], entries[n]),
         NEW text \in Seq(Tokens), NEW i \in Nat, HasAt(text, i, Separated(parts)),
         HasAt(text, i + Len(Separated(parts)), <<Token(Close(part))>>)
  PROVE  /\ ParserOf(text)[<<part, i>>] = Found(entries, i + Len(Separated(parts)) + 1)
         /\ ReadEntry(text, part, i, ParserOf(text)) # Nothing
  <1> DEFINE f == ParserOf(text)
             J == JoinedOf(parts)
             N == Len(parts)
             end == i + Len(Separated(parts)) + 1
             At(n) == i + Start(parts, n)
             Behind(n) == i + Len(J[n])
             Good(n) == f[<<part, At(n)>>] = Found(RestOf(entries, n), end)
             P == {m \in 0 .. N - 1 : Good(N - m)}
  <1>1. N \in Nat /\ N >= 1 /\ Len(entries) = N
    OBVIOUS
  <1>a. J[N] = Separated(parts)
    BY JoinedFacts
  <1>2. /\ RestOf(entries, 1) = entries /\ RestOf(entries, N) = <<entries[N]>>
        /\ \A n \in 1 .. N - 1 : <<entries[n]>> \o RestOf(entries, n + 1) = RestOf(entries, n)
    BY <1>1, RestFacts
  <1>3. \A n \in 1 .. N : /\ HasAt(text, At(n), parts[n])
                          /\ n # N => HasAt(text, Behind(n), Comma)
    BY PartsAt
  <1>4. ASSUME NEW n \in 1 .. N
        PROVE  /\ Len(J[n]) \in Nat /\ Behind(n) \in Nat /\ At(n) \in Nat /\ At(n) + Len(parts[n]) = Behind(n)
    <2> DEFINE a == Len(J[n])
               b == Start(parts, n)
               c == Len(parts[n])
    <2>1. a \in Nat /\ b \in Nat /\ c \in Nat /\ a = b + c
      BY LengthFacts
    <2> HIDE DEF a, b, c
    <2>2. i + a \in Nat /\ i + b \in Nat /\ (i + b) + c = i + a
      BY <2>1
    <2> QED BY <2>1, <2>2 DEF a, b, c
  <1>5. ASSUME NEW n \in 1 .. N
        PROVE  ReadEntry(text, part, At(n), f) = Found(entries[n], Behind(n))
    <2> HIDE DEF At, J, f, Behind
    <2>1. EntryReadsAs(part, parts[n], entries[n]) /\ At(n) \in Nat /\ HasAt(text, At(n), parts[n])
      BY <1>3, <1>4
    <2>2. ReadEntry(text, part, At(n), f) = Found(entries[n], At(n) + Len(parts[n]))
      BY <2>1 DEF EntryReadsAs, f
    <2> QED BY <1>4, <2>2
  <1>6. ASSUME NEW n \in 1 .. N
        PROVE  f[<<part, At(n)>>] = StepAt(text, f, part, At(n))
    <2>1. part \in Parts
      BY DEF Lists, Parts
    <2>2. KeepsFrom(f, text, 0)
      BY ParserKeeps
    <2> HIDE DEF At, f, N, J
    <2>3. At(n) \in Nat /\ At(n) >= 0
      BY <1>4
    <2> QED BY <2>1, <2>2, <2>3 DEF KeepsFrom
  <1>7. KindAt(text, Behind(N)) = Close(part)
    <2>1. Close(part) \in Kinds
      BY DEF Close, Kinds
    <2>2. HasAt(text, Behind(N), <<Token(Close(part))>>)
      BY <1>a
    <2>3. Behind(N) \in Nat
      <3>1. N \in 1 .. N
        BY <1>1
      <3> HIDE DEF N, Behind
      <3> QED BY <1>4, <3>1
    <2> HIDE DEF J, N, Behind
    <2> QED BY <2>1, <2>2, <2>3, KindHere
  <1>b. Behind(N) + 1 = end
    BY <1>a
  <1>8. ASSUME NEW n \in 1 .. N, n # N
        PROVE  IsComma(text, Behind(n))
    <2>1. "," \in Kinds
      BY DEF Kinds
    <2> HIDE DEF J, N, At, Behind
    <2>2. Behind(n) \in Nat
      BY <1>4
    <2>3. HasAt(text, Behind(n), <<Token(",")>>)
      BY <1>3, <1>8 DEF Comma
    <2> QED BY <2>1, <2>2, <2>3, KindHere DEF IsComma
  <1>9. ASSUME NEW n \in 1 .. N - 1
        PROVE  At(n + 1) = Behind(n) + 1
    <2> HIDE DEF N
    <2>1. n + 1 # 1 /\ (n + 1) - 1 = n /\ n \in 1 .. N
      BY <1>1
    <2>2. Start(parts, n + 1) = Len(J[n]) + 1
      BY <2>1 DEF Start
    <2>3. Len(J[n]) \in Nat
      BY <1>4, <2>1
    <2> HIDE DEF J
    <2> QED BY <2>2, <2>3
  <1> HIDE DEF At, J, N, f, end, Behind
  <1>c. ASSUME NEW x \in Nat, NEW y \in Nat, NEW e, ReadEntry(text, part, x, f) = Found(e, y), KindAt(text, y) = Close(part)
        PROVE  StepAt(text, f, part, x) = Found(<<e>>, y + 1)
    BY <1>c, ListEnds
  <1>d. ASSUME NEW x \in Nat, NEW y \in Nat, NEW e, ReadEntry(text, part, x, f) = Found(e, y), IsComma(text, y)
        PROVE  StepAt(text, f, part, x) = Prefixed(e, f[<<part, y + 1>>])
    <2>1. StepAt(text, f, part, x) = Prefixed(e, TableAt(f, part, y + 1))
      BY <1>d, ListGoesOn
    <2> QED BY <2>1 DEF TableAt
  <1>10. 0 \in P
    <2>1. N \in 1 .. N /\ N - 0 = N /\ 0 \in 0 .. N - 1
      BY <1>1
    <2>2. StepAt(text, f, part, At(N)) = Found(<<entries[N]>>, Behind(N) + 1)
      <3>1. At(N) \in Nat /\ Behind(N) \in Nat
        BY <1>4, <2>1
      <3>2. ReadEntry(text, part, At(N), f) = Found(entries[N], Behind(N))
        BY <1>5, <2>1
      <3> QED BY <1>7, <1>c, <3>1, <3>2, Zenon
    <2>3. Good(N)
      BY <1>b, <1>2, <1>6, <2>1, <2>2
    <2> QED BY <2>1, <2>3
  <1>11. ASSUME NEW m \in 1 .. N - 1, m - 1 \in P PROVE m \in P
    <2> DEFINE n == N - m
    <2>1. n \in 1 .. N - 1 /\ n \in 1 .. N /\ n # N /\ n + 1 = N - (m - 1)
      BY <1>1
    <2> DEFINE rest == RestOf(entries, n + 1)
               found == f[<<part, At(n + 1)>>]
    <2>2. found = Found(rest, end)
      <3>1. Good(N - (m - 1))
        BY <1>11
      <3> QED BY <2>1, <3>1
    <2> HIDE DEF n
    <2>3. StepAt(text, f, part, At(n)) = Prefixed(entries[n], found)
      <3>1. At(n) \in Nat /\ Behind(n) \in Nat
        BY <1>4, <2>1
      <3>2. ReadEntry(text, part, At(n), f) = Found(entries[n], Behind(n)) /\ IsComma(text, Behind(n))
        BY <1>5, <1>8, <2>1
      <3>3. StepAt(text, f, part, At(n)) = Prefixed(entries[n], f[<<part, Behind(n) + 1>>])
        <4> HIDE DEF Good, P
        <4> QED BY <1>d, <3>1, <3>2, Zenon
      <3>4. At(n + 1) = Behind(n) + 1
        BY <1>9, <2>1
      <3> QED BY <3>3, <3>4
    <2>4. Prefixed(entries[n], found) = Found(<<entries[n]>> \o rest, end)
      <3> HIDE DEF rest, found
      <3>1. found # Nothing /\ found.value = rest /\ found.next = end
        BY <2>2, NothingFacts
      <3> QED BY <3>1, Zenon DEF Prefixed
    <2>5. Good(n)
      BY <1>2, <1>6, <2>1, <2>3, <2>4
    <2>6. Good(N - m) /\ m \in 0 .. N - 1
      BY <1>1, <2>5 DEF n
    <2> QED BY <2>6
  <1>12. N - 1 \in P
    <2>1. N - 1 \in Nat
      BY <1>1
    <2> HIDE DEF P
    <2>2. \A m \in 0 .. N - 1 : m \in P
      BY <1>10, <1>11, <2>1, Induction
    <2> QED BY <2>1, <2>2
  <1>13. Good(1) /\ At(1) = i
    <2>1. N - (N - 1) = 1
      BY <1>1
    <2>2. Good(N - (N - 1))
      BY <1>12
    <2>3. At(1) = i
      BY DEF At, Start
    <2> QED BY <2>1, <2>2, <2>3
  <1>14. f[<<part, i>>] = Found(entries, end)
    BY <1>2, <1>13
  <1>15. ReadEntry(text, part, i, f) # Nothing
    <2>1. 1 \in 1 .. N
      BY <1>1
    <2>2. ReadEntry(text, part, At(1), f) = Found(entries[1], Behind(1))
      BY <1>5, <2>1
    <2> QED BY <1>13, <2>2, NothingFacts
  <1> QED BY <1>14, <1>15 DEF f, end

LEMMA StepHere ==
  ASSUME NEW text \in Seq(Tokens), NEW i \in Nat
  PROVE  ParserOf(text)[<<"value", i>>] = ReadValue(text, i, ParserOf(text))
  <1> DEFINE f == ParserOf(text)
  <1>1. KeepsFrom(f, text, 0)
    BY ParserKeeps
  <1> HIDE DEF f
  <1>2. "value" \in Parts /\ i >= 0
    BY DEF Parts
  <1>3. f[<<"value", i>>] = StepAt(text, f, "value", i)
    BY <1>1, <1>2 DEF KeepsFrom
  <1> QED BY <1>3, Zenon DEF StepAt, f

LEMMA OneToken ==
  ASSUME NEW token \in Tokens
  PROVE  <<token>> \in Seq(Tokens) /\ Len(<<token>>) = 1
  OBVIOUS

IsOpening(kind) == kind \in {"{", "["}

\* A token that is a value of its own.
LEMMA ScalarReads ==
  ASSUME NEW token \in Tokens, ~IsOpening(token.kind), NEW v, v # Nothing, Scalar(token) = v
  PROVE  ReadsAs(<<token>>, v)
  <1> SUFFICES ASSUME NEW text \in Seq(Tokens), NEW i \in Nat, HasAt(text, i, <<token>>)
               PROVE  ParserOf(text)[<<"value", i>>] = Found(v, i + Len(<<token>>))
    BY DEF ReadsAs
  <1>1. i \in DOMAIN text /\ text[i] = token
    BY HasOne
  <1>2. KindAt(text, i) = token.kind
    BY <1>1, Zenon DEF KindAt
  <1>3. ReadScalar(text, i) = Found(v, i + 1)
    BY <1>1, Zenon DEF ReadScalar
  <1> DEFINE f == ParserOf(text)
  <1> HIDE DEF f
  <1>4. ReadValue(text, i, f) = ReadScalar(text, i)
    BY <1>2 DEF ReadValue, IsOpening
  <1>5. f[<<"value", i>>] = ReadValue(text, i, f)
    BY StepHere DEF f
  <1>6. Len(<<token>>) = 1
    BY OneToken
  <1> QED BY <1>3, <1>4, <1>5, <1>6 DEF f

LEMMA QuotedReads ==
  ASSUME NEW t \in Seq(Glyphs)
  PROVE  /\ Quoted(t) \in Seq(Tokens) /\ Len(Quoted(t)) = 1 /\ ReadsAs(Quoted(t), String(t))
         /\ Quoted(t)[1].kind = "string" /\ DecodeString(Quoted(t)[1].pieces) = String(t)
  <1> DEFINE pieces == [i \in DOMAIN t |-> Escape(t[i])]
             token == StringToken(pieces)
  <1>1. pieces \in Seq(Pieces) /\ DecodeString(pieces) = String(t)
    BY StringReadsBack
  <1>2. Quoted(t) = <<token>>
    BY Zenon DEF Quoted
  <1> HIDE DEF pieces
  <1>3. token \in Tokens /\ token.kind = "string" /\ token.pieces = pieces
    BY <1>1, TokenFacts
  <1> HIDE DEF token
  <1>4. Scalar(token) = String(t)
    BY <1>1, <1>3, Zenon DEF Scalar
  <1>5. String(t) # Nothing
    BY NothingFacts
  <1>6. ReadsAs(<<token>>, String(t))
    <2>1. ~IsOpening(token.kind)
      BY <1>3 DEF IsOpening
    <2> DEFINE v == String(t)
    <2>2. Scalar(token) = v /\ v # Nothing
      BY <1>4, <1>5
    <2> HIDE DEF v
    <2>3. token \in Tokens
      BY <1>3
    <2>4. ReadsAs(<<token>>, v)
      BY <2>1, <2>2, <2>3, ScalarReads
    <2> QED BY <2>4 DEF v
  <1>7. <<token>>[1] = token
    OBVIOUS
  <1>8. <<token>> \in Seq(Tokens) /\ Len(<<token>>) = 1
    BY <1>3, OneToken
  <1> QED BY <1>1, <1>2, <1>3, <1>6, <1>7, <1>8

LEMMA NamedReads ==
  ASSUME NEW name \in Runs
  PROVE  /\ Named(name) \in Seq(Tokens) /\ Len(Named(name)) = 1 /\ ReadsAs(Named(name), String(<<Plain(name)>>))
         /\ Named(name)[1].kind = "string" /\ DecodeString(Named(name)[1].pieces) = String(<<Plain(name)>>)
  <1> DEFINE t == <<Plain(name)>>
  <1>1. t \in Seq(Glyphs)
    BY PlainIsGlyph
  <1> HIDE DEF t
  <1>2. Named(name) = Quoted(t)
    BY DEF Named, t
  <1> QED BY <1>1, <1>2, QuotedReads DEF t

LEMMA WrittenReads ==
  ASSUME NEW n \in 0 .. MaxInt
  PROVE  Written(n) \in Seq(Tokens) /\ ReadsAs(Written(n), Number(n))
  <1> DEFINE token == NumberToken(FALSE, n, FALSE)
  <1>1. n \in Nat /\ n <= MaxInt /\ MaxInt \in Nat
    BY MaxIntAssumption
  <1>2. token \in Tokens /\ token.kind = "number" /\ token.magnitude = n /\ ~token.negative /\ ~token.fraction
    BY <1>1, TokenFacts
  <1>3. Written(n) = <<token>>
    BY Zenon DEF Written
  <1> HIDE DEF token
  <1>4. NumberValue(token) = Number(n)
    BY <1>1, <1>2 DEF NumberValue
  <1>5. Scalar(token) = Number(n)
    BY <1>2, <1>4 DEF Scalar
  <1>6. Number(n) # Nothing
    BY NothingFacts
  <1>7. ~IsOpening(token.kind)
    BY <1>2 DEF IsOpening
  <1> QED BY <1>2, <1>3, <1>5, <1>6, <1>7, OneToken, ScalarReads

LEMMA LiteralReads ==
  ASSUME NEW b \in BOOLEAN
  PROVE  Literal(b) \in Seq(Tokens) /\ ReadsAs(Literal(b), Boolean(b))
  <1> DEFINE kind == IF b THEN "true" ELSE "false"
             token == Token(kind)
  <1>1. kind \in Kinds
    BY DEF Kinds
  <1>2. Literal(b) = <<token>>
    BY Zenon DEF Literal
  <1>3. kind \in {"true", "false"} /\ ((kind = "true") = b)
    OBVIOUS
  <1> HIDE DEF kind
  <1>4. token \in Tokens /\ token.kind = kind
    BY <1>1, TokenFacts
  <1> HIDE DEF token
  <1>5. Scalar(token) = Boolean(token.kind = "true")
    BY <1>3, <1>4 DEF Scalar
  <1>6. Boolean(token.kind = "true") = Boolean(b)
    BY <1>3, <1>4
  <1>7. Boolean(b) # Nothing
    BY NothingFacts
  <1>8. ~IsOpening(token.kind)
    BY <1>3, <1>4 DEF IsOpening
  <1> QED BY <1>2, <1>4, <1>5, <1>6, <1>7, <1>8, OneToken, ScalarReads

LEMMA ItemReads ==
  ASSUME NEW tokens, NEW v, ReadsAs(tokens, v)
  PROVE  EntryReadsAs("items", tokens, v)
  BY Zenon DEF ReadsAs, EntryReadsAs, ReadEntry

LEMMA MemberReads ==
  ASSUME NEW name \in Runs, NEW tokens \in Seq(Tokens), NEW v, ReadsAs(tokens, v)
  PROVE  /\ Member(name, tokens) \in Seq(Tokens)
         /\ EntryReadsAs("members", Member(name, tokens), [key |-> <<Plain(name)>>, value |-> v])
  <1> DEFINE key == Named(name)
             colon == <<Token(":")>>
             head == key \o colon
             all == head \o tokens
  <1>1. key \in Seq(Tokens) /\ Len(key) = 1 /\ key[1].kind = "string" /\ DecodeString(key[1].pieces) = String(<<Plain(name)>>)
    BY NamedReads
  <1>2. ":" \in Kinds
    BY DEF Kinds
  <1>3. colon \in Seq(Tokens) /\ Len(colon) = 1
    BY <1>2, TokenFacts, OneToken
  <1>4. Member(name, tokens) = all
    BY DEF Member
  <1> HIDE DEF key, colon
  <1>5. head \in Seq(Tokens) /\ Len(head) = 2
    <2>1. head \in Seq(Tokens) /\ Len(head) = Len(key) + Len(colon)
      <3> HIDE DEF head
      <3>1. key \o colon \in Seq(Tokens) /\ Len(key \o colon) = Len(key) + Len(colon)
        BY <1>1, <1>3, ConcatProperties
      <3> QED BY <3>1 DEF head
    <2> QED BY <1>1, <1>3, <2>1
  <1>6. all \in Seq(Tokens) /\ Len(all) = 2 + Len(tokens)
    <2> HIDE DEF head, all
    <2>1. head \o tokens \in Seq(Tokens) /\ Len(head \o tokens) = Len(head) + Len(tokens)
      BY <1>5, ConcatProperties
    <2> QED BY <1>5, <2>1 DEF all
  <1>7. ASSUME NEW text \in Seq(Tokens), NEW i \in Nat, HasAt(text, i, all)
        PROVE  ReadEntry(text, "members", i, ParserOf(text)) = Found([key |-> <<Plain(name)>>, value |-> v], i + Len(all))
    <2> DEFINE f == ParserOf(text)
    <2>1. HasAt(text, i, head) /\ HasAt(text, i + 2, tokens)
      <3> HIDE DEF head
      <3>1. HasAt(text, i, head \o tokens)
        BY <1>7
      <3>2. HasAt(text, i, head) /\ HasAt(text, i + Len(head), tokens)
        BY <1>5, <3>1, HasAtConcat
      <3> QED BY <1>5, <3>2
    <2>2. HasAt(text, i, key) /\ HasAt(text, i + 1, colon)
      <3>1. HasAt(text, i, key) /\ HasAt(text, i + Len(key), colon)
        BY <1>1, <1>3, <2>1, HasAtConcat
      <3> QED BY <1>1, <3>1
    <2>3. i \in DOMAIN text /\ text[i] = key[1]
      <3>1. 1 \in 1 .. Len(key) /\ i + 1 - 1 = i
        BY <1>1
      <3> QED BY <2>2, <3>1 DEF HasAt
    <2>4. KeyAt(text, i) = String(<<Plain(name)>>)
      BY <1>1, <2>3, Zenon DEF KeyAt, KindAt
    <2>5. KindAt(text, i + 1) = ":"
      <3>1. HasAt(text, i + 1, <<Token(":")>>) /\ i + 1 \in Nat
        BY <2>2 DEF colon
      <3> QED BY <1>2, <3>1, KindHere
    <2>6. f[<<"value", i + 2>>] = Found(v, i + 2 + Len(tokens))
      <3>1. i + 2 \in Nat
        OBVIOUS
      <3> QED BY <2>1, <3>1 DEF ReadsAs
    <2> HIDE DEF f
    <2>7. ReadEntry(text, "members", i, f) = Keyed(String(<<Plain(name)>>), f[<<"value", i + 2>>])
      BY <2>4, <2>5 DEF ReadEntry
    <2> DEFINE t == <<Plain(name)>>
               next == i + 2 + Len(tokens)
    <2>8. String(t) # Nothing /\ Found(v, next) # Nothing /\ Found(v, next).value = v /\ Found(v, next).next = next
      BY NothingFacts
    <2>9. String(t).string = t
      BY DEF String
    <2>10. next = i + Len(all)
      <3> HIDE DEF all
      <3>1. Len(tokens) \in Nat
        OBVIOUS
      <3> QED BY <1>6, <3>1
    <2> HIDE DEF t, next, all
    <2>11. Keyed(String(t), Found(v, next)) = Found([key |-> t, value |-> v], next)
      BY <2>8, <2>9, Zenon DEF Keyed
    <2>12. f[<<"value", i + 2>>] = Found(v, next)
      BY <2>6 DEF next
    <2>13. ReadEntry(text, "members", i, f) = Found([key |-> t, value |-> v], i + Len(all))
      BY <2>7, <2>10, <2>11, <2>12 DEF t
    <2> QED BY <2>13 DEF t, f
  <1> QED BY <1>4, <1>6, <1>7 DEF EntryReadsAs

\* No entry begins with the end of its list.
LEMMA EntryIsNoEnd ==
  ASSUME NEW part \in Lists, NEW text \in Seq(Tokens), NEW i \in Nat,
         ReadEntry(text, part, i, ParserOf(text)) # Nothing
  PROVE  KindAt(text, i) # Close(part)
  <1> SUFFICES ASSUME KindAt(text, i) = Close(part)
               PROVE  FALSE
    OBVIOUS
  <1> DEFINE f == ParserOf(text)
  <1> HIDE DEF f
  <1>1. CASE part = "members"
    <2>1. KeyAt(text, i) = Nothing
      BY <1>1 DEF KeyAt, Close
    <2>2. ReadEntry(text, part, i, f) = Nothing
      BY <1>1, <2>1 DEF ReadEntry, Keyed
    <2> QED BY <2>2 DEF f
  <1>2. CASE part # "members"
    <2>1. part = "items" /\ KindAt(text, i) = "]"
      BY <1>2 DEF Lists, Close
    <2>2. i \in DOMAIN text /\ text[i].kind = "]"
      BY <2>1 DEF KindAt
    <2>3. Scalar(text[i]) = Nothing
      BY <2>2 DEF Scalar
    <2>4. ReadValue(text, i, f) = Nothing
      BY <2>1, <2>3 DEF ReadValue, ReadScalar
    <2>5. f[<<"value", i>>] = Nothing
      BY <2>4, StepHere DEF f
    <2>6. ReadEntry(text, part, i, f) = Nothing
      BY <2>1, <2>5, Zenon DEF ReadEntry
    <2> QED BY <2>6 DEF f
  <1> QED BY <1>1, <1>2

\* A list between its brackets, and what it is.
Bracketed(part, parts) == <<Token(Open(part))>> \o Separated(parts) \o <<Token(Close(part))>>
Whole(part, entries)   == IF part = "members" THEN Object(entries) ELSE Array(entries)

LEMMA BracketFacts ==
  ASSUME NEW part \in Lists, NEW parts \in Seq(Seq(Tokens))
  PROVE  LET tokens == Bracketed(part, parts)
             inner  == Separated(parts)
         IN /\ tokens \in Seq(Tokens) /\ inner \in Seq(Tokens) /\ Len(inner) \in Nat /\ Len(tokens) = Len(inner) + 2
            /\ \A text : \A i \in Nat : HasAt(text, i, tokens) =>
                 /\ HasAt(text, i, <<Token(Open(part))>>) /\ HasAt(text, i + 1, inner)
                 /\ HasAt(text, i + 1 + Len(inner), <<Token(Close(part))>>)
  <1> DEFINE open == <<Token(Open(part))>>
             close == <<Token(Close(part))>>
             inner == Separated(parts)
             head == open \o inner
             tokens == head \o close
  <1>1. open \in Seq(Tokens) /\ Len(open) = 1 /\ close \in Seq(Tokens) /\ Len(close) = 1
    <2>1. Open(part) \in Kinds /\ Close(part) \in Kinds
      BY DEF Open, Close, Kinds
    <2>2. Token(Open(part)) \in Tokens /\ Token(Close(part)) \in Tokens
      BY <2>1, TokenFacts
    <2> QED BY <2>2, OneToken
  <1>2. inner \in Seq(Tokens) /\ Len(inner) \in Nat
    <2>1. Len(parts) \in 0 .. Len(parts)
      OBVIOUS
    <2>2. inner \in Seq(Tokens)
      BY <2>1, JoinedFacts
    <2> HIDE DEF inner
    <2> QED BY <2>2
  <1> HIDE DEF open, close, inner
  <1>3. head \in Seq(Tokens) /\ Len(head) = 1 + Len(inner)
    <2>1. open \o inner \in Seq(Tokens) /\ Len(open \o inner) = Len(open) + Len(inner)
      BY <1>1, <1>2, ConcatProperties
    <2> QED BY <1>1, <2>1
  <1> HIDE DEF head
  <1>4. tokens \in Seq(Tokens) /\ Len(tokens) = Len(inner) + 2
    <2>1. head \o close \in Seq(Tokens) /\ Len(head \o close) = Len(head) + Len(close)
      BY <1>1, <1>3, ConcatProperties
    <2> HIDE DEF tokens
    <2> QED BY <1>1, <1>2, <1>3, <2>1 DEF tokens
  <1>5. ASSUME NEW text, NEW i \in Nat, HasAt(text, i, tokens)
        PROVE  HasAt(text, i, open) /\ HasAt(text, i + 1, inner) /\ HasAt(text, i + 1 + Len(inner), close)
    <2>1. HasAt(text, i, head) /\ HasAt(text, i + Len(head), close)
      BY <1>1, <1>3, <1>5, HasAtConcat
    <2>2. HasAt(text, i, open) /\ HasAt(text, i + Len(open), inner)
      BY <1>1, <1>2, <2>1, HasAtConcat DEF head
    <2>3. i + Len(open) = i + 1 /\ i + Len(head) = i + 1 + Len(inner)
      BY <1>1, <1>2, <1>3
    <2> QED BY <2>1, <2>2, <2>3
  <1>6. tokens = Bracketed(part, parts)
    BY DEF Bracketed, head, open, close, inner
  <1> HIDE DEF tokens
  <1> QED BY <1>2, <1>4, <1>5, <1>6 DEF open, close, inner

LEMMA BracketedReads ==
  ASSUME NEW part \in Lists, NEW parts \in Seq(Seq(Tokens)), NEW S, NEW entries \in Seq(S),
         Len(entries) = Len(parts), Len(parts) >= 1,
         \A n \in 1 .. Len(parts) : EntryReadsAs(part, parts[n], entries[n])
  PROVE  Bracketed(part, parts) \in Seq(Tokens) /\ ReadsAs(Bracketed(part, parts), Whole(part, entries))
  <1> DEFINE tokens == Bracketed(part, parts)
             inner == Separated(parts)
  <1>1. tokens \in Seq(Tokens) /\ Len(inner) \in Nat /\ Len(tokens) = Len(inner) + 2
    BY BracketFacts
  <1>2. ASSUME NEW text \in Seq(Tokens), NEW i \in Nat, HasAt(text, i, tokens)
        PROVE  ParserOf(text)[<<"value", i>>] = Found(Whole(part, entries), i + Len(tokens))
    <2> DEFINE f == ParserOf(text)
    <2>1. /\ HasAt(text, i, <<Token(Open(part))>>) /\ HasAt(text, i + 1, inner)
          /\ HasAt(text, i + 1 + Len(inner), <<Token(Close(part))>>)
      BY <1>2, BracketFacts
    <2>2. i + 1 \in Nat
      OBVIOUS
    <2>3. /\ f[<<part, i + 1>>] = Found(entries, i + 1 + Len(inner) + 1)
          /\ ReadEntry(text, part, i + 1, f) # Nothing
      BY <2>1, <2>2, ListReads
    <2>4. KindAt(text, i + 1) # Close(part)
      BY <2>2, <2>3, EntryIsNoEnd
    <2>5. KindAt(text, i) = Open(part)
      <3>1. Open(part) \in Kinds
        BY DEF Open, Kinds
      <3> QED BY <2>1, <3>1, KindHere
    <2>6. f[<<"value", i>>] = ReadValue(text, i, f)
      BY StepHere
    <2> DEFINE rest == f[<<part, i + 1>>]
               end == i + 1 + Len(inner) + 1
    <2> HIDE DEF f
    <2>7. ReadValue(text, i, f) = Enclosed(part, rest)
      BY <2>4, <2>5 DEF ReadValue, Open, Close, Lists
    <2> HIDE DEF rest, end
    <2>8. rest # Nothing /\ rest.value = entries /\ rest.next = end
      <3>1. rest = Found(entries, end)
        BY <2>3 DEF rest, end
      <3> QED BY <3>1, NothingFacts
    <2>9. Enclosed(part, rest) = Found(Whole(part, entries), end)
      BY <2>8, Zenon DEF Enclosed, Whole
    <2>10. end = i + Len(tokens)
      <3> HIDE DEF tokens, inner
      <3> QED BY <1>1 DEF end
    <2> QED BY <2>6, <2>7, <2>9, <2>10 DEF f
  <1> HIDE DEF tokens
  <1>3. tokens \in Seq(Tokens) /\ ReadsAs(tokens, Whole(part, entries))
    BY <1>1, <1>2 DEF ReadsAs
  <1> QED BY <1>3 DEF tokens

\* A text that is one value is read as it.
LEMMA WholeReads ==
  ASSUME NEW tokens \in Seq(Tokens), NEW v, ReadsAs(tokens, v)
  PROVE  Read(tokens) = v
  <1> DEFINE n == Len(tokens)
             root == ParserOf(tokens)[<<"value", 1>>]
  <1>1. n \in Nat /\ DOMAIN tokens = 1 .. n
    OBVIOUS
  <1>2. HasAt(tokens, 1, tokens)
    <2> HIDE DEF n
    <2>1. ASSUME NEW k \in 1 .. n PROVE 1 + k - 1 \in DOMAIN tokens /\ tokens[1 + k - 1] = tokens[k]
      <3>1. 1 + k - 1 = k
        BY <1>1
      <3> QED BY <1>1, <3>1
    <2> QED BY <2>1 DEF HasAt, n
  <1>3. root = Found(v, 1 + n)
    BY <1>2 DEF ReadsAs
  <1>4. Read(tokens) = WholeText(tokens, root)
    BY ReadWithParser
  <1> HIDE DEF root, n
  <1>5. root # Nothing /\ root.value = v /\ root.next = 1 + n
    BY <1>3, NothingFacts
  <1>6. root.next = Len(tokens) + 1
    BY <1>1, <1>5 DEF n
  <1> QED BY <1>4, <1>5, <1>6, Zenon DEF WholeText

-----------------------------------------------------------------------------
(* What is written is read back: objects. vals gives the value of each of   *)
(* their members by its name.                                               *)

Entry(name, v) == [key |-> <<Plain(name)>>, value |-> v]

EntriesOf(vals, names) == {Entry(name, vals[name]) : name \in names}

ReadAsEntries(parts, entries) ==
  /\ Len(entries) = Len(parts)
  /\ \A n \in 1 .. Len(parts) : EntryReadsAs("members", parts[n], entries[n])

\* The parts are the members of these names.
Writes(parts, names, vals) ==
  /\ parts \in Seq(Seq(Tokens))
  /\ \E entries \in Seq(EntriesOf(vals, DOMAIN vals)) :
       ReadAsEntries(parts, entries) /\ Range(entries) = EntriesOf(vals, names)

LEMMA EntryFacts ==
  ASSUME NEW name, NEW v
  PROVE  /\ Entry(name, v).key = <<Plain(name)>> /\ Entry(name, v).value = v
         /\ \A other : <<Plain(other)>> = <<Plain(name)>> => other = name
  <1>1. Entry(name, v).key = <<Plain(name)>> /\ Entry(name, v).value = v
    <2> DEFINE k == <<Plain(name)>>
    <2> HIDE DEF k
    <2>1. Entry(name, v).key = k /\ Entry(name, v).value = v
      BY DEF Entry, k
    <2> QED BY <2>1 DEF k
  <1>2. ASSUME NEW other, <<Plain(other)>> = <<Plain(name)>> PROVE other = name
    <2>1. Plain(other) = Plain(name)
      <3> DEFINE a == Plain(other)
                 b == Plain(name)
      <3>1. <<a>> = <<b>>
        BY <1>2
      <3> HIDE DEF a, b
      <3>2. a = b
        BY <3>1
      <3> QED BY <3>2 DEF a, b
    <2>2. Plain(other).run = other /\ Plain(name).run = name
      BY DEF Plain
    <2> QED BY <2>1, <2>2
  <1> QED BY <1>1, <1>2

LEMMA WritesNone ==
  ASSUME NEW vals
  PROVE  Writes(<<>>, {}, vals)
  <1> DEFINE U == EntriesOf(vals, DOMAIN vals)
  <1>1. EntriesOf(vals, {}) = {}
    BY DEF EntriesOf
  <1> HIDE DEF U
  <1>2. <<>> \in Seq(U) /\ <<>> \in Seq(Seq(Tokens)) /\ Len(<<>>) = 0 /\ Range(<<>>) = {}
    BY DEF Range
  <1>3. ReadAsEntries(<<>>, <<>>)
    BY <1>2 DEF ReadAsEntries
  <1> QED BY <1>1, <1>2, <1>3 DEF Writes, U

LEMMA WritesOne ==
  ASSUME NEW vals, DOMAIN vals \subseteq Runs, NEW name \in DOMAIN vals, NEW tokens \in Seq(Tokens),
         ReadsAs(tokens, vals[name])
  PROVE  Writes(<<Member(name, tokens)>>, {name}, vals)
  <1> DEFINE U == EntriesOf(vals, DOMAIN vals)
             part == Member(name, tokens)
             e == Entry(name, vals[name])
             parts == <<part>>
             entries == <<e>>
  <1>1. part \in Seq(Tokens) /\ EntryReadsAs("members", part, e)
    BY MemberReads DEF Entry
  <1>2. e \in U /\ EntriesOf(vals, {name}) = {e}
    BY DEF EntriesOf
  <1> HIDE DEF U, part, e
  <1>3. /\ parts \in Seq(Seq(Tokens)) /\ Len(parts) = 1 /\ parts[1] = part
        /\ entries \in Seq(U) /\ Len(entries) = 1 /\ entries[1] = e /\ DOMAIN entries = 1 .. 1
    BY <1>1, <1>2
  <1> HIDE DEF parts, entries
  <1>4. ReadAsEntries(parts, entries)
    <2>1. \A n \in 1 .. 1 : n = 1
      OBVIOUS
    <2> QED BY <1>1, <1>3, <2>1 DEF ReadAsEntries
  <1>5. Range(entries) = {e}
    <2>1. \A n \in 1 .. 1 : n = 1
      OBVIOUS
    <2>2. Range(entries) = {entries[n] : n \in DOMAIN entries}
      BY DEF Range
    <2> QED BY <1>3, <2>1, <2>2
  <1>6. Writes(parts, {name}, vals)
    BY <1>2, <1>3, <1>4, <1>5 DEF Writes, U
  <1> QED BY <1>6 DEF parts, part

LEMMA RangeConcat ==
  ASSUME NEW S, NEW a \in Seq(S), NEW b \in Seq(S)
  PROVE  Range(a \o b) = Range(a) \union Range(b)
  <1> DEFINE c == a \o b
             m == Len(a)
             n == Len(b)
  <1>1. /\ m \in Nat /\ n \in Nat /\ DOMAIN a = 1 .. m /\ DOMAIN b = 1 .. n /\ DOMAIN c = 1 .. m + n
        /\ (\A k \in 1 .. m : c[k] = a[k]) /\ \A k \in 1 .. n : c[m + k] = b[k]
    OBVIOUS
  <1> HIDE DEF c, m, n
  <1>2. ASSUME NEW x \in Range(c) PROVE x \in Range(a) \union Range(b)
    <2>1. PICK k \in 1 .. m + n : x = c[k]
      BY <1>1, <1>2 DEF Range
    <2>2. CASE k \in 1 .. m
      BY <1>1, <2>1, <2>2 DEF Range
    <2>3. CASE k \notin 1 .. m
      <3>1. k - m \in 1 .. n /\ m + (k - m) = k
        BY <1>1, <2>3
      <3>2. x = b[k - m]
        BY <1>1, <2>1, <3>1
      <3> QED BY <1>1, <3>1, <3>2 DEF Range
    <2> QED BY <2>2, <2>3
  <1>3. ASSUME NEW x \in Range(a) PROVE x \in Range(c)
    <2>1. PICK k \in 1 .. m : x = a[k]
      BY <1>1, <1>3 DEF Range
    <2>2. k \in 1 .. m + n /\ c[k] = x
      BY <1>1, <2>1
    <2> QED BY <1>1, <2>2 DEF Range
  <1>4. ASSUME NEW x \in Range(b) PROVE x \in Range(c)
    <2>1. PICK k \in 1 .. n : x = b[k]
      BY <1>1, <1>4 DEF Range
    <2>2. m + k \in 1 .. m + n /\ c[m + k] = x
      BY <1>1, <2>1
    <2> QED BY <1>1, <2>2 DEF Range
  <1> QED BY <1>2, <1>3, <1>4 DEF c

LEMMA WritesMore ==
  ASSUME NEW vals, NEW a, NEW b, NEW A, NEW B, Writes(a, A, vals), Writes(b, B, vals)
  PROVE  Writes(a \o b, A \union B, vals)
  <1> DEFINE U == EntriesOf(vals, DOMAIN vals)
             V == Seq(Tokens)
  <1>1. a \in Seq(V) /\ b \in Seq(V)
    BY DEF Writes
  <1>2. PICK x \in Seq(U) : ReadAsEntries(a, x) /\ Range(x) = EntriesOf(vals, A)
    BY DEF Writes
  <1>3. PICK y \in Seq(U) : ReadAsEntries(b, y) /\ Range(y) = EntriesOf(vals, B)
    BY DEF Writes
  <1> DEFINE c == a \o b
             z == x \o y
             m == Len(a)
             n == Len(b)
  <1> HIDE DEF U, V
  <1>4. /\ m \in Nat /\ n \in Nat /\ Len(x) = m /\ Len(y) = n
        /\ \A k \in 1 .. m : EntryReadsAs("members", a[k], x[k])
        /\ \A k \in 1 .. n : EntryReadsAs("members", b[k], y[k])
    <2>1. m \in Nat /\ n \in Nat
      BY <1>1
    <2> QED BY <1>2, <1>3, <2>1 DEF ReadAsEntries
  <1>5. /\ c \in Seq(V) /\ Len(c) = m + n
        /\ (\A k \in 1 .. m : c[k] = a[k]) /\ \A k \in 1 .. n : c[m + k] = b[k]
    BY <1>1
  <1>6. /\ z \in Seq(U) /\ Len(z) = m + n
        /\ (\A k \in 1 .. m : z[k] = x[k]) /\ \A k \in 1 .. n : z[m + k] = y[k]
    <2> HIDE DEF m, n
    <2> QED BY <1>2, <1>3, <1>4
  <1> HIDE DEF c, z, m, n
  <1>7. ASSUME NEW k \in 1 .. m + n PROVE EntryReadsAs("members", c[k], z[k])
    <2>1. CASE k \in 1 .. m
      BY <1>4, <1>5, <1>6, <2>1
    <2>2. CASE k \notin 1 .. m
      <3>1. k - m \in 1 .. n /\ m + (k - m) = k
        BY <1>4, <2>2
      <3> QED BY <1>4, <1>5, <1>6, <3>1
    <2> QED BY <2>1, <2>2
  <1>8. ReadAsEntries(c, z)
    BY <1>5, <1>6, <1>7 DEF ReadAsEntries
  <1>9. Range(z) = EntriesOf(vals, A \union B)
    <2>1. Range(z) = Range(x) \union Range(y)
      BY RangeConcat DEF z
    <2>2. EntriesOf(vals, A \union B) = EntriesOf(vals, A) \union EntriesOf(vals, B)
      BY DEF EntriesOf
    <2> QED BY <1>2, <1>3, <2>1, <2>2
  <1> QED BY <1>5, <1>6, <1>8, <1>9 DEF Writes, U, V, c

LEMMA ObjectFacts ==
  ASSUME NEW entries
  PROVE  Object(entries).object = entries /\ Is("object", Object(entries))
  BY DEF Object, Is

\* What an object says, if all its members of a name have one value.
LEMMA SaidOfEntries ==
  ASSUME NEW S, NEW entries \in Seq(S), NEW name
  PROVE  LET named == {e \in Range(entries) : e.key = <<Plain(name)>>}
         IN /\ named = {} => Said(Object(entries), name) = Nothing
            /\ \A v : named # {} /\ (\A e \in named : e.value = v) => Said(Object(entries), name) = v
  <1> DEFINE key == <<Plain(name)>>
             named == {e \in Range(entries) : e.key = key}
             root == Object(entries)
             at == {i \in DOMAIN entries : entries[i].key = key}
             first == CHOOSE i \in at : \A j \in at : i <= j
  <1>1. Said(root, name) = IF at = {} THEN Nothing ELSE entries[first].value
    <2>1. root.object = entries
      BY ObjectFacts
    <2>2. Said(root, name) =
            LET found == {i \in DOMAIN root.object : root.object[i].key = key}
            IN IF found = {} THEN Nothing ELSE root.object[CHOOSE i \in found : \A j \in found : i <= j].value
      BY Zenon DEF Said
    <2> HIDE DEF root, key
    <2> QED BY <2>1, <2>2
  <1> HIDE DEF key, root
  <1>2. at = {} <=> named = {}
    BY DEF Range
  <1>3. ASSUME NEW v, named # {}, \A e \in named : e.value = v PROVE Said(root, name) = v
    <2>1. at \in SUBSET Nat /\ at # {}
      BY <1>2, <1>3
    <2> HIDE DEF at, named
    <2>2. \E i \in at : \A j \in at : i <= j
      BY <2>1, LeastOf
    <2>3. first \in at
      BY <2>2
    <2> HIDE DEF first
    <2>4. entries[first] \in named
      BY <2>3 DEF at, named, Range
    <2> QED BY <1>1, <1>3, <2>1, <2>4
  <1>4. named = {} => Said(root, name) = Nothing
    BY <1>1, <1>2
  <1> QED BY <1>3, <1>4 DEF named, key, root

\* The text of an object that has members says of every name what it is to say.
LEMMA WrittenObject ==
  ASSUME NEW vals, DOMAIN vals \subseteq Runs, NEW names, names \subseteq DOMAIN vals, names # {},
         NEW parts, Writes(parts, names, vals)
  PROVE  LET root == Read(Braced(parts))
         IN /\ Braced(parts) \in Seq(Tokens) /\ Is("object", root)
            /\ \A name : Said(root, name) = IF name \in names THEN vals[name] ELSE Nothing
  <1> DEFINE U == EntriesOf(vals, DOMAIN vals)
             tokens == Braced(parts)
  <1>1. parts \in Seq(Seq(Tokens))
    BY DEF Writes
  <1>2. PICK entries \in Seq(U) : ReadAsEntries(parts, entries) /\ Range(entries) = EntriesOf(vals, names)
    BY DEF Writes
  <1>3. Len(entries) = Len(parts) /\ \A n \in 1 .. Len(parts) : EntryReadsAs("members", parts[n], entries[n])
    BY <1>2 DEF ReadAsEntries
  <1>4. Len(parts) >= 1
    <2>1. Range(entries) # {}
      BY <1>2 DEF EntriesOf
    <2>2. DOMAIN entries # {}
      BY <2>1 DEF Range
    <2> HIDE DEF U
    <2>3. Len(entries) \in Nat /\ DOMAIN entries = 1 .. Len(entries)
      OBVIOUS
    <2> QED BY <1>3, <2>2, <2>3
  <1>5. tokens = Bracketed("members", parts)
    BY DEF Braced, Bracketed, Open, Close
  <1>6. Whole("members", entries) = Object(entries)
    BY DEF Whole
  <1> HIDE DEF U, tokens
  <1>7. tokens \in Seq(Tokens) /\ ReadsAs(tokens, Object(entries))
    <2>1. "members" \in Lists
      BY DEF Lists
    <2>2. Bracketed("members", parts) \in Seq(Tokens) /\ ReadsAs(Bracketed("members", parts), Whole("members", entries))
      BY <1>1, <1>2, <1>3, <1>4, <2>1, BracketedReads
    <2> QED BY <1>5, <1>6, <2>2
  <1>8. Read(tokens) = Object(entries)
    BY <1>7, WholeReads
  <1>9. ASSUME NEW name PROVE Said(Object(entries), name) = IF name \in names THEN vals[name] ELSE Nothing
    <2> DEFINE key == <<Plain(name)>>
               named == {e \in Range(entries) : e.key = key}
    <2>1. \A e \in Range(entries) : \E other \in names : e = Entry(other, vals[other])
      BY <1>2 DEF EntriesOf
    <2>2. \A e \in named : name \in names /\ e.value = vals[name]
      <3>1. ASSUME NEW e \in named PROVE name \in names /\ e.value = vals[name]
        <4>1. PICK other \in names : e = Entry(other, vals[other])
          BY <2>1
        <4>2. e.key = <<Plain(other)>> /\ e.value = vals[other]
          BY <4>1, EntryFacts
        <4>3. <<Plain(name)>> = <<Plain(other)>>
          BY <4>2
        <4>4. name = other
          BY <4>3, EntryFacts
        <4> QED BY <4>2, <4>4
      <3> QED BY <3>1
    <2>3. name \in names => named # {}
      <3>1. Entry(name, vals[name]).key = key
        BY EntryFacts
      <3>2. name \in names => Entry(name, vals[name]) \in Range(entries)
        BY <1>2 DEF EntriesOf
      <3> HIDE DEF key
      <3> QED BY <3>1, <3>2
    <2>4. /\ named = {} => Said(Object(entries), name) = Nothing
          /\ \A v : named # {} /\ (\A e \in named : e.value = v) => Said(Object(entries), name) = v
      BY SaidOfEntries
    <2> HIDE DEF named
    <2> QED BY <2>2, <2>3, <2>4
  <1>10. Is("object", Object(entries))
    BY ObjectFacts
  <1> QED BY <1>7, <1>8, <1>9, <1>10 DEF tokens

\* A type of a written value, and what it holds.
LEMMA ValueFacts ==
  /\ \A t : Is("string", String(t)) /\ String(t).string = t
  /\ \A n : Is("number", Number(n)) /\ Number(n).number = n
  /\ \A b : Is("boolean", Boolean(b)) /\ Boolean(b).boolean = b
  /\ \A s : Is("array", Array(s)) /\ Array(s).array = s
  BY DEF Is, String, Number, Boolean, Array

LEMMA NameOfName ==
  ASSUME NEW name
  PROVE  NameOf(String(<<Plain(name)>>)) = name
  <1> DEFINE glyph == Plain(name)
             t == <<glyph>>
             v == String(t)
  <1>1. glyph.run = name
    BY DEF Plain
  <1> HIDE DEF glyph
  <1>2. Len(t) = 1 /\ t[1] = glyph
    OBVIOUS
  <1> HIDE DEF t
  <1>3. Is("string", v) /\ v.string = t
    BY ValueFacts
  <1> HIDE DEF v
  <1>4. NameOf(v) = name
    BY <1>1, <1>2, <1>3, Zenon DEF NameOf
  <1> QED BY <1>4 DEF v, t, glyph

-----------------------------------------------------------------------------
(* What is written is read back: policies.                                  *)

NamesOf(sources) == [i \in DOMAIN sources |-> String(<<Plain(sources[i])>>)]

LEMMA NamesAreRuns ==
  /\ PolicyNames \subseteq Runs /\ StatusNames \subseteq Runs /\ TimeSource \subseteq Runs
  /\ \A name \in DOMAIN StatusEnums : StatusEnums[name] \subseteq Runs
  <1>1. PolicyNames \subseteq Runs /\ StatusNames \subseteq Runs
    BY TextsAssumption
  <1>2. ASSUME NEW name \in DOMAIN StatusEnums PROVE StatusEnums[name] \subseteq Runs
    BY TextsAssumption
  <1>3. "time_source" \in DOMAIN StatusEnums /\ StatusEnums["time_source"] = TimeSource
    BY DEF StatusEnums
  <1> QED BY <1>1, <1>2, <1>3

LEMMA SourcesReadBack ==
  ASSUME NEW s \in Seq(TimeSource), s # <<>>
  PROVE  LET tokens == <<Token("[")>> \o Separated([i \in DOMAIN s |-> Named(s[i])]) \o <<Token("]")>>
         IN tokens \in Seq(Tokens) /\ ReadsAs(tokens, Array(NamesOf(s)))
  <1> DEFINE n == Len(s)
             parts == [i \in DOMAIN s |-> Named(s[i])]
             entries == NamesOf(s)
             V == Seq(Tokens)
             S == {String(<<Plain(name)>>) : name \in TimeSource}
             tokens == <<Token("[")>> \o Separated(parts) \o <<Token("]")>>
  <1>1. n \in Nat /\ n >= 1 /\ DOMAIN s = 1 .. n /\ \A i \in 1 .. n : s[i] \in TimeSource
    BY EmptySeq
  <1>2. \A name \in TimeSource : Named(name) \in V /\ ReadsAs(Named(name), String(<<Plain(name)>>))
    BY NamesAreRuns, NamedReads
  <1>3. parts = [i \in 1 .. n |-> Named(s[i])] /\ entries = [i \in 1 .. n |-> String(<<Plain(s[i])>>)]
    BY <1>1 DEF NamesOf
  <1> HIDE DEF parts, entries, n, V
  <1>4. parts \in Seq(V) /\ Len(parts) = n /\ entries \in Seq(S) /\ Len(entries) = n
    <2>1. parts \in [1 .. n -> V]
      BY <1>1, <1>2, <1>3
    <2>2. entries \in [1 .. n -> S]
      BY <1>1, <1>3
    <2> HIDE DEF S
    <2> QED BY <1>1, <2>1, <2>2
  <1> HIDE DEF S
  <1>5. ASSUME NEW i \in 1 .. Len(parts) PROVE EntryReadsAs("items", parts[i], entries[i])
    <2>1. i \in 1 .. n
      BY <1>4
    <2>2. parts[i] = Named(s[i]) /\ entries[i] = String(<<Plain(s[i])>>)
      BY <1>3, <2>1
    <2>3. ReadsAs(parts[i], entries[i])
      BY <1>1, <1>2, <2>1, <2>2
    <2> QED BY <2>3, ItemReads
  <1>6. Bracketed("items", parts) \in Seq(Tokens) /\ ReadsAs(Bracketed("items", parts), Whole("items", entries))
    <2>1. "items" \in Lists
      BY DEF Lists
    <2>2. Len(parts) >= 1 /\ Len(entries) = Len(parts)
      BY <1>1, <1>4
    <2> QED BY <1>4, <1>5, <2>1, <2>2, BracketedReads DEF V
  <1>7. tokens = Bracketed("items", parts) /\ Whole("items", entries) = Array(entries)
    BY DEF Bracketed, Whole, Open, Close
  <1> HIDE DEF tokens
  <1>8. tokens \in Seq(Tokens) /\ ReadsAs(tokens, Array(entries))
    BY <1>6, <1>7
  <1> QED BY <1>8 DEF tokens, parts, entries

PolicyVals(p) ==
  [clock_id |-> String(p.clock_id),
   max_allowed_skew_seconds |-> Number(p.max_allowed_skew_seconds),
   freshness_window_seconds |-> Number(p.freshness_window_seconds),
   monotonic_required |-> Boolean(p.monotonic_required),
   allowed_time_sources |-> Array(NamesOf(p.allowed_time_sources)),
   fail_closed_on_untrusted_time |-> Boolean(p.fail_closed_on_untrusted_time)]

LEMMA SixFacts ==
  ASSUME NEW S, NEW a \in S, NEW b \in S, NEW c \in S, NEW d \in S, NEW e \in S, NEW f \in S
  PROVE  LET s == <<a, b, c, d, e, f>>
         IN /\ s \in Seq(S) /\ Len(s) = 6 /\ s[1] = a /\ s[2] = b /\ s[3] = c /\ s[4] = d /\ s[5] = e /\ s[6] = f
            /\ Range(s) = {a, b, c, d, e, f}
  <1> DEFINE s == <<a, b, c, d, e, f>>
  <1>1. /\ s \in Seq(S) /\ Len(s) = 6 /\ DOMAIN s = 1 .. 6
        /\ s[1] = a /\ s[2] = b /\ s[3] = c /\ s[4] = d /\ s[5] = e /\ s[6] = f
    OBVIOUS
  <1>2. \A k \in 1 .. 6 : k = 1 \/ k = 2 \/ k = 3 \/ k = 4 \/ k = 5 \/ k = 6
    OBVIOUS
  <1>3. Range(s) = {s[k] : k \in DOMAIN s}
    BY Zenon DEF Range
  <1> HIDE DEF s
  <1>4. {s[k] : k \in 1 .. 6} = {a, b, c, d, e, f}
    <2>1. \A x \in {s[k] : k \in 1 .. 6} : x \in {a, b, c, d, e, f}
      BY <1>1, <1>2
    <2>2. \A x \in {a, b, c, d, e, f} : x \in {s[k] : k \in 1 .. 6}
      <3>1. 1 \in 1 .. 6 /\ 2 \in 1 .. 6 /\ 3 \in 1 .. 6 /\ 4 \in 1 .. 6 /\ 5 \in 1 .. 6 /\ 6 \in 1 .. 6
        OBVIOUS
      <3> QED BY <1>1, <3>1
    <2> QED BY <2>1, <2>2
  <1>5. Range(s) = {a, b, c, d, e, f}
    BY <1>1, <1>3, <1>4
  <1> QED BY <1>1, <1>5 DEF s

LEMMA PolicyWrites ==
  ASSUME NEW p \in PolicyObject, p.allowed_time_sources # <<>>
  PROVE  \E parts : PolicyText(p) = Braced(parts) /\ Writes(parts, PolicyNames, PolicyVals(p))
  <1> DEFINE vals == PolicyVals(p)
             T1 == Quoted(p.clock_id)
             T2 == Written(p.max_allowed_skew_seconds)
             T3 == Written(p.freshness_window_seconds)
             T4 == Literal(p.monotonic_required)
             T5 == <<Token("[")>> \o Separated([i \in DOMAIN p.allowed_time_sources |-> Named(p.allowed_time_sources[i])])
                   \o <<Token("]")>>
             T6 == Literal(p.fail_closed_on_untrusted_time)
             M1 == Member("clock_id", T1)
             M2 == Member("max_allowed_skew_seconds", T2)
             M3 == Member("freshness_window_seconds", T3)
             M4 == Member("monotonic_required", T4)
             M5 == Member("allowed_time_sources", T5)
             M6 == Member("fail_closed_on_untrusted_time", T6)
  <1>1. /\ p.clock_id \in Seq(Glyphs) /\ p.max_allowed_skew_seconds \in 0 .. MaxInt
        /\ p.freshness_window_seconds \in 0 .. MaxInt /\ p.monotonic_required \in BOOLEAN
        /\ p.allowed_time_sources \in Seq(TimeSource) /\ p.fail_closed_on_untrusted_time \in BOOLEAN
    BY DEF PolicyObject
  <1>2. /\ DOMAIN vals = PolicyNames
        /\ vals["clock_id"] = String(p.clock_id)
        /\ vals["max_allowed_skew_seconds"] = Number(p.max_allowed_skew_seconds)
        /\ vals["freshness_window_seconds"] = Number(p.freshness_window_seconds)
        /\ vals["monotonic_required"] = Boolean(p.monotonic_required)
        /\ vals["allowed_time_sources"] = Array(NamesOf(p.allowed_time_sources))
        /\ vals["fail_closed_on_untrusted_time"] = Boolean(p.fail_closed_on_untrusted_time)
    BY DEF PolicyVals, PolicyNames
  <1>3. /\ T1 \in Seq(Tokens) /\ ReadsAs(T1, vals["clock_id"])
        /\ T2 \in Seq(Tokens) /\ ReadsAs(T2, vals["max_allowed_skew_seconds"])
        /\ T3 \in Seq(Tokens) /\ ReadsAs(T3, vals["freshness_window_seconds"])
        /\ T4 \in Seq(Tokens) /\ ReadsAs(T4, vals["monotonic_required"])
        /\ T6 \in Seq(Tokens) /\ ReadsAs(T6, vals["fail_closed_on_untrusted_time"])
    BY <1>1, <1>2, QuotedReads, WrittenReads, LiteralReads
  <1>4. T5 \in Seq(Tokens) /\ ReadsAs(T5, vals["allowed_time_sources"])
    BY <1>1, <1>2, SourcesReadBack
  <1>5. PolicyText(p) = Braced(<<M1, M2, M3, M4, M5, M6>>)
    BY DEF PolicyText
  <1>6. DOMAIN vals \subseteq Runs
    BY <1>2, NamesAreRuns
  <1>7. /\ "clock_id" \in DOMAIN vals /\ "max_allowed_skew_seconds" \in DOMAIN vals
        /\ "freshness_window_seconds" \in DOMAIN vals /\ "monotonic_required" \in DOMAIN vals
        /\ "allowed_time_sources" \in DOMAIN vals /\ "fail_closed_on_untrusted_time" \in DOMAIN vals
    BY <1>2 DEF PolicyNames
  <1> DEFINE E1 == Entry("clock_id", vals["clock_id"])
             E2 == Entry("max_allowed_skew_seconds", vals["max_allowed_skew_seconds"])
             E3 == Entry("freshness_window_seconds", vals["freshness_window_seconds"])
             E4 == Entry("monotonic_required", vals["monotonic_required"])
             E5 == Entry("allowed_time_sources", vals["allowed_time_sources"])
             E6 == Entry("fail_closed_on_untrusted_time", vals["fail_closed_on_untrusted_time"])
             U == EntriesOf(vals, DOMAIN vals)
             V == Seq(Tokens)
             parts == <<M1, M2, M3, M4, M5, M6>>
             entries == <<E1, E2, E3, E4, E5, E6>>
  <1> HIDE DEF vals, T1, T2, T3, T4, T5, T6
  <1>8. \A name \in DOMAIN vals : name \in Runs /\ Entry(name, vals[name]) \in U
    BY <1>6 DEF EntriesOf
  <1>9. /\ M1 \in V /\ EntryReadsAs("members", M1, E1) /\ M2 \in V /\ EntryReadsAs("members", M2, E2)
        /\ M3 \in V /\ EntryReadsAs("members", M3, E3) /\ M4 \in V /\ EntryReadsAs("members", M4, E4)
        /\ M5 \in V /\ EntryReadsAs("members", M5, E5) /\ M6 \in V /\ EntryReadsAs("members", M6, E6)
    <2>1. \A name \in DOMAIN vals : \A tokens \in V : ReadsAs(tokens, vals[name]) =>
            Member(name, tokens) \in V /\ EntryReadsAs("members", Member(name, tokens), Entry(name, vals[name]))
      BY <1>8, MemberReads DEF Entry
    <2> HIDE DEF V
    <2>2. T1 \in V /\ T2 \in V /\ T3 \in V /\ T4 \in V /\ T5 \in V /\ T6 \in V
      BY <1>3, <1>4 DEF V
    <2> QED BY <1>3, <1>4, <1>7, <2>1, <2>2, Zenon
  <1>10. E1 \in U /\ E2 \in U /\ E3 \in U /\ E4 \in U /\ E5 \in U /\ E6 \in U
    BY <1>7, <1>8
  <1>11. EntriesOf(vals, PolicyNames) = {E1, E2, E3, E4, E5, E6}
    BY DEF EntriesOf, PolicyNames
  <1> HIDE DEF E1, E2, E3, E4, E5, E6, M1, M2, M3, M4, M5, M6, U, V
  <1>12. /\ parts \in Seq(V) /\ Len(parts) = 6
         /\ parts[1] = M1 /\ parts[2] = M2 /\ parts[3] = M3 /\ parts[4] = M4 /\ parts[5] = M5 /\ parts[6] = M6
    BY <1>9, SixFacts
  <1>13. /\ entries \in Seq(U) /\ Len(entries) = 6 /\ Range(entries) = {E1, E2, E3, E4, E5, E6}
         /\ entries[1] = E1 /\ entries[2] = E2 /\ entries[3] = E3
         /\ entries[4] = E4 /\ entries[5] = E5 /\ entries[6] = E6
    BY <1>10, SixFacts
  <1> HIDE DEF parts, entries
  <1>14. ReadAsEntries(parts, entries)
    <2>1. \A k \in 1 .. 6 : k = 1 \/ k = 2 \/ k = 3 \/ k = 4 \/ k = 5 \/ k = 6
      OBVIOUS
    <2> QED BY <1>9, <1>12, <1>13, <2>1 DEF ReadAsEntries
  <1>15. Writes(parts, PolicyNames, vals)
    BY <1>11, <1>12, <1>13, <1>14 DEF Writes, U, V
  <1>16. PolicyText(p) = Braced(parts)
    BY <1>5 DEF parts
  <1> QED BY <1>15, <1>16 DEF vals

\* The sorted sources are known by which sources there are.
SortedFrom(given) ==
  LET sorted[n \in 0 .. Len(SourceOrder)] ==
        IF n = 0 THEN <<>>
        ELSE IF SourceOrder[n] \in given THEN Append(sorted[n - 1], SourceOrder[n])
        ELSE sorted[n - 1]
  IN sorted[Len(SourceOrder)]

LEMMA SortedByRange ==
  ASSUME NEW a, NEW b, Range(a) = Range(b)
  PROVE  Sorted(a) = Sorted(b)
  <1>1. Sorted(a) = SortedFrom(Range(a)) /\ Sorted(b) = SortedFrom(Range(b))
    BY DEF Sorted, SortedFrom
  <1> QED BY <1>1

-----------------------------------------------------------------------------
(* A policy that is read back.                                              *)

LEMMA ParsedPolicyMade ==
  ASSUME NEW text, ParsedPolicy(text).value # None
  PROVE  Is("object", Read(text)) /\ ParsedPolicy(text).value = ParsePolicyObject(Read(text))
  <1> DEFINE root == Read(text)
             p == ParsePolicyObject(root)
             reads == SecureClockPolicyReads(root)
             found == {ErrAt(d.code, d.path) : d \in PolicyDiagnostics(GatePolicy(p))}
             outcome == ParsedPolicy(text)
  <1>1. outcome = IF root = Nothing THEN ParseResult(None, {ErrAt("json_malformed", "")})
                  ELSE IF ~Is("object", root) THEN ParseResult(None, {ErrAt("invalid_type", "/")})
                  ELSE IF reads # {} THEN ParseResult(None, reads)
                  ELSE ParseResult(p, found)
    BY DEF ParsedPolicy, ParsedObject, ParsedRoot
  <1> HIDE DEF outcome, p, reads, found, root
  <1>2. \A all : ParseResult(None, all).value = None
    BY DEF ParseResult
  <1>3. outcome.value # None
    BY DEF outcome
  <1>4. Is("object", root) /\ outcome = ParseResult(p, found)
    BY <1>1, <1>2, <1>3
  <1>5. outcome.value = p
    BY <1>3, <1>4, ResultFacts
  <1> QED BY <1>4, <1>5 DEF outcome, p, root

LEMMA NamesOfFacts ==
  ASSUME NEW s \in Seq(TimeSource)
  PROVE  /\ Len(NamesOf(s)) = Len(s) /\ DOMAIN NamesOf(s) = DOMAIN s
         /\ \A i \in DOMAIN s : NameOf(NamesOf(s)[i]) = s[i] /\ NamesOf(s)[i] = String(<<Plain(s[i])>>)
         /\ Sources(NamesOf(s)) = s
  <1> DEFINE items == NamesOf(s)
             n == Len(s)
  <1>1. n \in Nat /\ DOMAIN s = 1 .. n /\ \A i \in 1 .. n : s[i] \in TimeSource
    OBVIOUS
  <1>2. items = [i \in 1 .. n |-> String(<<Plain(s[i])>>)]
    BY <1>1 DEF NamesOf
  <1>3. s = [i \in 1 .. n |-> s[i]]
    BY <1>1
  <1> HIDE DEF items, n
  <1>4. Len(items) = n /\ DOMAIN items = 1 .. n /\ \A i \in 1 .. n : items[i] = String(<<Plain(s[i])>>)
    BY <1>1, <1>2
  <1>5. \A i \in 1 .. n : NameOf(items[i]) = s[i]
    BY <1>4, NameOfName
  <1>6. Sources(items) = FirstNames(items, n)
    BY <1>1, <1>4, <1>5, SourcesOfNamed
  <1>7. FirstNames(items, n) = [i \in 1 .. n |-> s[i]]
    BY <1>5 DEF FirstNames
  <1> QED BY <1>1, <1>3, <1>4, <1>5, <1>6, <1>7 DEF items, n

\* Sources that are sorted stay as they are.
LEMMA SortedTwice ==
  ASSUME NEW sources \in Seq(TimeSource)
  PROVE  Sorted(Sorted(sources)) = Sorted(sources)
  <1>1. Range(Sorted(sources)) = Range(sources)
    BY SortedFacts
  <1> HIDE DEF Sorted
  <1> QED BY <1>1, SortedByRange

\* What the object of a legal policy is made of.
LEMMA PolicyMadeOf ==
  ASSUME NEW V, IsJson(V), NEW root \in V, LegalPolicy(root)
  PROVE  LET p == ParsePolicyObject(root)
             items == Said(root, "allowed_time_sources").array
         IN /\ p \in PolicyObject
            /\ Said(root, "clock_id") = String(p.clock_id) /\ p.clock_id # <<>>
            /\ \A name \in PolicyNumbers : Said(root, name) = Number(p[name])
            /\ \A name \in PolicyFlags : Said(root, name) = Boolean(p[name])
            /\ Said(root, "allowed_time_sources") = Array(items)
            /\ items \in Seq(V)
            /\ \A i \in DOMAIN items : NameOf(items[i]) \in TimeSource /\ items[i] = String(<<Plain(NameOf(items[i]))>>)
            /\ p.allowed_time_sources \in Seq(TimeSource) /\ IsInjective(p.allowed_time_sources)
            /\ p.allowed_time_sources # <<>>
            /\ Range(p.allowed_time_sources) = {NameOf(items[i]) : i \in DOMAIN items}
            /\ Sorted(p.allowed_time_sources) = p.allowed_time_sources
  <1> DEFINE p == ParsePolicyObject(root)
             items == Said(root, "allowed_time_sources").array
             s == Sources(items)
  <1>1. Is("object", root) /\ ReadablePolicy(root)
    BY LegalIsReadable
  <1>2. \A name : Field(root, name) = Said(root, name) /\ (Said(root, name) = Nothing \/ Said(root, name) \in V)
    BY <1>1, FieldIsSaid
  <1>3. p \in PolicyObject
    BY <1>1, PolicyMade
  <1>4. /\ p["clock_id"] = Said(root, "clock_id").string
        /\ p["max_allowed_skew_seconds"] = Said(root, "max_allowed_skew_seconds").number
        /\ p["freshness_window_seconds"] = Said(root, "freshness_window_seconds").number
        /\ p["monotonic_required"] = Said(root, "monotonic_required").boolean
        /\ p["allowed_time_sources"] = Sorted(s)
        /\ p["fail_closed_on_untrusted_time"] = Said(root, "fail_closed_on_untrusted_time").boolean
    BY <1>2 DEF ParsePolicyObject
  <1>5. \A name : /\ Is("string", Said(root, name)) => Said(root, name) = String(Said(root, name).string)
                  /\ Is("number", Said(root, name)) => Said(root, name) = Number(Said(root, name).number)
                  /\ Is("boolean", Said(root, name)) => Said(root, name) = Boolean(Said(root, name).boolean)
                  /\ Is("array", Said(root, name)) => /\ Said(root, name) = Array(Said(root, name).array)
                                                      /\ Said(root, name).array \in Seq(V)
    BY <1>2, TypeFacts, NothingHasNoType
  <1>6. /\ Is("string", Said(root, "clock_id")) /\ Said(root, "clock_id").string # <<>>
        /\ \A name \in PolicyNumbers : Is("number", Said(root, name))
        /\ \A name \in PolicyFlags : Is("boolean", Said(root, name))
        /\ Is("array", Said(root, "allowed_time_sources"))
        /\ items # <<>> /\ \A i \in DOMAIN items : NameOf(items[i]) \in TimeSource
    BY DEF LegalPolicy, PolicyNumbers, PolicyFlags
  <1>7. Said(root, "allowed_time_sources") = Array(items) /\ items \in Seq(V)
    BY <1>5, <1>6
  <1>8. Said(root, "clock_id") = String(p.clock_id) /\ p.clock_id # <<>>
    BY <1>4, <1>5, <1>6
  <1>9. /\ \A name \in PolicyNumbers : Said(root, name) = Number(p[name])
        /\ \A name \in PolicyFlags : Said(root, name) = Boolean(p[name])
    <2>1. \A name \in PolicyNumbers : p[name] = Said(root, name).number
      BY <1>4 DEF PolicyNumbers
    <2>2. \A name \in PolicyFlags : p[name] = Said(root, name).boolean
      BY <1>4 DEF PolicyFlags
    <2> HIDE DEF p
    <2> QED BY <1>5, <1>6, <2>1, <2>2
  <1> HIDE DEF p, items
  <1>10. \A i \in DOMAIN items : items[i] = String(<<Plain(NameOf(items[i]))>>)
    <2>1. "" \notin TimeSource
      BY DEF TimeSource
    <2>2. \A i \in DOMAIN items : items[i] \in V
      BY <1>7
    <2> QED BY <1>6, <2>1, <2>2, NameFacts
  <1>11. s \in Seq(TimeSource) /\ DOMAIN s = DOMAIN items /\ \A i \in DOMAIN items : s[i] = NameOf(items[i])
    BY <1>6, <1>7, DistinctItems
  <1>12. Range(s) = {NameOf(items[i]) : i \in DOMAIN items} /\ Range(s) # {}
    <2>1. Range(s) = {s[i] : i \in DOMAIN s}
      BY Zenon DEF Range
    <2>2. 1 \in DOMAIN items
      BY <1>6, <1>7, EmptySeq
    <2> HIDE DEF s
    <2>3. {s[i] : i \in DOMAIN s} = {NameOf(items[i]) : i \in DOMAIN items}
      BY <1>11
    <2> QED BY <2>1, <2>2, <2>3
  <1> HIDE DEF s
  <1> DEFINE sorted == Sorted(s)
  <1>13. sorted \in Seq(TimeSource) /\ IsInjective(sorted) /\ Range(sorted) = Range(s) /\ Sorted(sorted) = sorted
    BY <1>11, SortedFacts, SortedTwice
  <1>14. p.allowed_time_sources = sorted
    BY <1>4
  <1> HIDE DEF sorted
  <1>15. sorted # <<>>
    <2>1. SUFFICES ASSUME sorted = <<>> PROVE FALSE
      OBVIOUS
    <2>2. Range(<<>>) = {}
      BY DEF Range
    <2> QED BY <1>12, <1>13, <2>1, <2>2
  <1>16. Range(sorted) = {NameOf(items[i]) : i \in DOMAIN items}
    BY <1>12, <1>13
  <1>17. /\ p.allowed_time_sources \in Seq(TimeSource) /\ IsInjective(p.allowed_time_sources)
         /\ p.allowed_time_sources # <<>>
         /\ Range(p.allowed_time_sources) = {NameOf(items[i]) : i \in DOMAIN items}
         /\ Sorted(p.allowed_time_sources) = p.allowed_time_sources
    BY <1>13, <1>14, <1>15, <1>16
  <1> QED BY <1>3, <1>6, <1>7, <1>8, <1>9, <1>10, <1>17 DEF p, items

\* A policy with sources: what is said of it is legal and makes it again.
LEMMA PolicyMadeAgain ==
  ASSUME NEW V, IsJson(V), NEW root \in V, Is("object", root), NEW p \in PolicyObject,
         \A name \in PolicyNames : Said(root, name) = PolicyVals(p)[name],
         p.clock_id # <<>>, p.allowed_time_sources # <<>>, IsInjective(p.allowed_time_sources),
         Sorted(p.allowed_time_sources) = p.allowed_time_sources
  PROVE  LegalPolicy(root) /\ ParsePolicyObject(root) = p
  <1> DEFINE s == p.allowed_time_sources
             items == NamesOf(s)
  <1>1. /\ p.clock_id \in Seq(Glyphs) /\ p.max_allowed_skew_seconds \in 0 .. MaxInt
        /\ p.freshness_window_seconds \in 0 .. MaxInt /\ p.monotonic_required \in BOOLEAN
        /\ s \in Seq(TimeSource) /\ p.fail_closed_on_untrusted_time \in BOOLEAN
        /\ p = [clock_id |-> p.clock_id, max_allowed_skew_seconds |-> p.max_allowed_skew_seconds,
                freshness_window_seconds |-> p.freshness_window_seconds,
                monotonic_required |-> p.monotonic_required, allowed_time_sources |-> s,
                fail_closed_on_untrusted_time |-> p.fail_closed_on_untrusted_time]
    BY DEF PolicyObject
  <1>2. /\ Said(root, "clock_id") = String(p.clock_id)
        /\ Said(root, "max_allowed_skew_seconds") = Number(p.max_allowed_skew_seconds)
        /\ Said(root, "freshness_window_seconds") = Number(p.freshness_window_seconds)
        /\ Said(root, "monotonic_required") = Boolean(p.monotonic_required)
        /\ Said(root, "allowed_time_sources") = Array(items)
        /\ Said(root, "fail_closed_on_untrusted_time") = Boolean(p.fail_closed_on_untrusted_time)
    <2>1. /\ PolicyVals(p)["clock_id"] = String(p.clock_id)
          /\ PolicyVals(p)["max_allowed_skew_seconds"] = Number(p.max_allowed_skew_seconds)
          /\ PolicyVals(p)["freshness_window_seconds"] = Number(p.freshness_window_seconds)
          /\ PolicyVals(p)["monotonic_required"] = Boolean(p.monotonic_required)
          /\ PolicyVals(p)["allowed_time_sources"] = Array(items)
          /\ PolicyVals(p)["fail_closed_on_untrusted_time"] = Boolean(p.fail_closed_on_untrusted_time)
      BY DEF PolicyVals
    <2>2. /\ "clock_id" \in PolicyNames /\ "max_allowed_skew_seconds" \in PolicyNames
          /\ "freshness_window_seconds" \in PolicyNames /\ "monotonic_required" \in PolicyNames
          /\ "allowed_time_sources" \in PolicyNames /\ "fail_closed_on_untrusted_time" \in PolicyNames
      BY DEF PolicyNames
    <2> HIDE DEF items
    <2> QED BY <2>1, <2>2
  <1>3. \A name : Field(root, name) = Said(root, name)
    BY FieldIsSaid
  <1>4. /\ Len(items) = Len(s) /\ DOMAIN items = DOMAIN s /\ Sources(items) = s
        /\ \A i \in DOMAIN s : NameOf(items[i]) = s[i] /\ items[i] = String(<<Plain(s[i])>>)
    BY <1>1, NamesOfFacts
  <1> HIDE DEF items
  <1>5. ParsePolicyObject(root) = p
    <2>1. /\ Field(root, "clock_id").string = p.clock_id
          /\ Field(root, "max_allowed_skew_seconds").number = p.max_allowed_skew_seconds
          /\ Field(root, "freshness_window_seconds").number = p.freshness_window_seconds
          /\ Field(root, "monotonic_required").boolean = p.monotonic_required
          /\ Field(root, "allowed_time_sources").array = items
          /\ Field(root, "fail_closed_on_untrusted_time").boolean = p.fail_closed_on_untrusted_time
      BY <1>2, <1>3, ValueFacts
    <2>2. Sorted(Sources(Field(root, "allowed_time_sources").array)) = s
      BY <1>4, <2>1
    <2> HIDE DEF s
    <2> QED BY <1>1, <2>1, <2>2 DEF ParsePolicyObject
  <1>6. LegalPolicy(root)
    <2>1. Is("string", Said(root, "clock_id")) /\ Said(root, "clock_id").string # <<>>
      BY <1>2, ValueFacts
    <2>2. ASSUME NEW name \in {"max_allowed_skew_seconds", "freshness_window_seconds"}
          PROVE  Is("number", Said(root, name)) /\ Said(root, name).number >= 0
      <3>1. CASE name = "max_allowed_skew_seconds"
        BY <1>1, <1>2, <3>1, ValueFacts
      <3>2. CASE name = "freshness_window_seconds"
        BY <1>1, <1>2, <3>2, ValueFacts
      <3> QED BY <3>1, <3>2
    <2>3. ASSUME NEW name \in {"monotonic_required", "fail_closed_on_untrusted_time"}
          PROVE  Is("boolean", Said(root, name))
      BY <1>2, ValueFacts
    <2>4. Is("array", Said(root, "allowed_time_sources")) /\ Said(root, "allowed_time_sources").array = items
      BY <1>2, ValueFacts
    <2>5. Len(s) \in Nat /\ Len(s) # 0 /\ DOMAIN s = 1 .. Len(s) /\ \A i \in DOMAIN s : s[i] \in TimeSource
      BY <1>1, EmptySeq
    <2>6. items # <<>>
      <3>1. SUFFICES ASSUME items = <<>> PROVE FALSE
        OBVIOUS
      <3> QED BY <1>4, <2>5, <3>1
    <2>7. IsInjective(items)
      <3>1. \A i, j \in DOMAIN s : s[i] = s[j] => i = j
        BY DEF IsInjective
      <3>2. \A i, j \in DOMAIN items : items[i] = items[j] => i = j
        <4> HIDE DEF s
        <4>1. TAKE i, j \in DOMAIN items
        <4>2. HAVE items[i] = items[j]
        <4>3. NameOf(items[i]) = s[i] /\ NameOf(items[j]) = s[j]
          BY <1>4
        <4> QED BY <1>4, <3>1, <4>2, <4>3
      <3> QED BY <3>2 DEF IsInjective
    <2>8. \A i \in DOMAIN items : NameOf(items[i]) \in TimeSource
      BY <1>4, <2>5
    <2> HIDE DEF s
    <2> QED BY <2>1, <2>2, <2>3, <2>4, <2>6, <2>7, <2>8 DEF LegalPolicy
  <1> QED BY <1>5, <1>6

\* What two texts say of a name is the same, but for null and the order of sources.
SaysSame(name, old, new) ==
  \/ new = old
  \/ new = Nothing /\ old = Null
  \/ name = "allowed_time_sources" /\ new # Nothing /\ Range(new.array) = Range(old.array)

LEMMA PolicyReadsBack ==
  ASSUME NEW text \in Seq(Tokens), ParsedPolicy(text).value # None
  PROVE  LET p == ParsedPolicy(text).value
         IN /\ ParsedPolicy(PolicyText(p)).value = p
            /\ \A name \in DOMAIN p : SaysSame(name, Said(Read(text), name), Said(Read(PolicyText(p)), name))
  <1> DEFINE p == ParsedPolicy(text).value
             again == PolicyText(p)
             old == Read(text)
             new == Read(again)
             s == p.allowed_time_sources
             items == Said(old, "allowed_time_sources").array
             vals == PolicyVals(p)
  <1>1. Is("object", old) /\ p = ParsePolicyObject(old) /\ p # None
    BY ParsedPolicyMade
  <1>2. LegalPolicy(old)
    BY PolicyJudged DEF IsJudged
  <1>3. PICK V : IsJson(V) /\ old \in V
    BY <1>1, RootIsJson
  <1> HIDE DEF p, again, old, new, vals
  <1>4. /\ p \in PolicyObject
        /\ Said(old, "clock_id") = String(p.clock_id) /\ p.clock_id # <<>>
        /\ \A name \in PolicyNumbers : Said(old, name) = Number(p[name])
        /\ \A name \in PolicyFlags : Said(old, name) = Boolean(p[name])
        /\ Said(old, "allowed_time_sources") = Array(items)
        /\ items \in Seq(V)
        /\ \A i \in DOMAIN items : NameOf(items[i]) \in TimeSource /\ items[i] = String(<<Plain(NameOf(items[i]))>>)
        /\ s \in Seq(TimeSource) /\ IsInjective(s) /\ s # <<>>
        /\ Range(s) = {NameOf(items[i]) : i \in DOMAIN items}
        /\ Sorted(s) = s
    BY <1>1, <1>2, <1>3, PolicyMadeOf
  <1>5. DOMAIN p = PolicyNames
    BY <1>4 DEF PolicyObject, PolicyNames
  <1>6. DOMAIN vals = PolicyNames
    BY DEF PolicyVals, PolicyNames, vals
  <1>7. PICK parts : again = Braced(parts) /\ Writes(parts, PolicyNames, vals)
    BY <1>4, PolicyWrites DEF again, vals
  <1>8. /\ again \in Seq(Tokens) /\ Is("object", new)
        /\ \A name \in PolicyNames : Said(new, name) = vals[name]
    <2>1. DOMAIN vals \subseteq Runs /\ PolicyNames \subseteq DOMAIN vals
      BY <1>6, NamesAreRuns
    <2>2. PolicyNames # {}
      BY DEF PolicyNames
    <2>3. /\ Braced(parts) \in Seq(Tokens) /\ Is("object", Read(Braced(parts)))
          /\ \A name : Said(Read(Braced(parts)), name) = IF name \in PolicyNames THEN vals[name] ELSE Nothing
      BY <1>7, <2>1, <2>2, WrittenObject
    <2> QED BY <1>7, <2>3 DEF new
  <1>9. PICK W : IsJson(W) /\ new \in W
    BY <1>8, RootIsJson DEF new
  <1>10. LegalPolicy(new) /\ ParsePolicyObject(new) = p
    BY <1>4, <1>8, <1>9, PolicyMadeAgain DEF vals
  <1>11. ParsedPolicy(again).value = p
    <2>1. ParsedPolicy(again).value # None
      BY <1>8, <1>10, PolicyJudged DEF IsJudged, new
    <2>2. ParsedPolicy(again).value = ParsePolicyObject(new)
      BY <2>1, ParsedPolicyMade DEF new
    <2> QED BY <1>10, <2>2
  <1>12. ASSUME NEW name \in PolicyNames PROVE SaysSame(name, Said(old, name), Said(new, name))
    <2>1. Said(new, name) = vals[name]
      BY <1>8
    <2>2. CASE name = "clock_id"
      BY <1>4, <2>1, <2>2 DEF SaysSame, PolicyVals, vals
    <2>3. CASE name \in PolicyNumbers
      <3>1. vals[name] = Number(p[name])
        BY <2>3 DEF PolicyNumbers, PolicyVals, vals
      <3> QED BY <1>4, <2>1, <2>3, <3>1 DEF SaysSame
    <2>4. CASE name \in PolicyFlags
      <3>1. vals[name] = Boolean(p[name])
        BY <2>4 DEF PolicyFlags, PolicyVals, vals
      <3> QED BY <1>4, <2>1, <2>4, <3>1 DEF SaysSame
    <2>5. CASE name = "allowed_time_sources"
      <3> DEFINE written == NamesOf(s)
      <3>1. vals[name] = Array(written)
        BY <2>5 DEF PolicyVals, vals
      <3>2. /\ DOMAIN written = DOMAIN s /\ \A i \in DOMAIN s : written[i] = String(<<Plain(s[i])>>)
        BY <1>4, NamesOfFacts
      <3> HIDE DEF written
      <3>3. Range(written) = {written[i] : i \in DOMAIN written} /\ Range(items) = {items[i] : i \in DOMAIN items}
            /\ Range(s) = {s[i] : i \in DOMAIN s}
        BY Zenon DEF Range
      <3> HIDE DEF s, items
      <3> DEFINE Spelt(n) == String(<<Plain(n)>>)
      <3>4. /\ \A i \in DOMAIN s : written[i] = Spelt(s[i])
            /\ \A i \in DOMAIN items : items[i] = Spelt(NameOf(items[i]))
        BY <1>4, <3>2
      <3> HIDE DEF Spelt
      <3>5. {written[i] : i \in DOMAIN written} = {Spelt(n) : n \in Range(s)}
        BY <3>2, <3>3, <3>4
      <3>6. {items[i] : i \in DOMAIN items} = {Spelt(n) : n \in {NameOf(items[i]) : i \in DOMAIN items}}
        BY <3>4
      <3>7. Range(written) = Range(items)
        BY <1>4, <3>3, <3>5, <3>6
      <3>8. Said(new, name) # Nothing /\ Said(new, name).array = written
        BY <2>1, <3>1, ValueFacts, NothingFacts
      <3>9. Range(Said(old, name).array) = Range(items)
        BY <2>5 DEF items
      <3> QED BY <2>5, <3>7, <3>8, <3>9 DEF SaysSame
    <2> QED BY <2>2, <2>3, <2>4, <2>5 DEF PolicyNames, PolicyNumbers, PolicyFlags
  <1> QED BY <1>5, <1>11, <1>12 DEF again, new, old, p

-----------------------------------------------------------------------------
(* What is written is read back: statuses.                                  *)

\* The members that a status has, and what is written for them.
StatusGiven(s) == {name \in StatusNames : name \in EnumNames \/ s[name] # None}

StatusVals(s) ==
  [name \in StatusNames |->
     IF name \in EnumNames THEN String(<<Plain(s[name])>>)
     ELSE IF name = "skew_seconds" THEN Number(s[name])
     ELSE String(s[name])]

LEMMA StatusFields ==
  ASSUME NEW s \in StatusObject
  PROVE  /\ DOMAIN s = StatusNames
         /\ \A name \in EnumNames : s[name] \in StatusEnums[name]
         /\ \A name \in StatusTimes : s[name] \in Seq(Glyphs) \union {None}
         /\ s["skew_seconds"] \in (0 .. MaxInt) \union {None}
  <1>1. DOMAIN s = StatusNames
    <2>1. DOMAIN s = EnumNames \union {"current_time_utc", "last_update_utc", "skew_seconds"}
      BY DEF StatusObject, EnumNames
    <2> QED BY <2>1, EnumFacts DEF StatusNames
  <1>2. ASSUME NEW name \in EnumNames PROVE s[name] \in StatusEnums[name]
    BY DEF StatusObject, StatusEnums, EnumNames
  <1>3. \A name \in StatusTimes : s[name] \in Seq(Glyphs) \union {None}
    BY DEF StatusObject, StatusTimes
  <1>4. s["skew_seconds"] \in (0 .. MaxInt) \union {None}
    BY DEF StatusObject
  <1> QED BY <1>1, <1>2, <1>3, <1>4

LEMMA StatusNameFacts ==
  /\ StatusNames = EnumNames \union StatusTimes \union {"skew_seconds"}
  /\ \A name \in StatusTimes : name \notin EnumNames /\ name # "skew_seconds"
  /\ "skew_seconds" \notin EnumNames
  <1>1. StatusNames = EnumNames \union StatusTimes \union {"skew_seconds"}
    BY EnumFacts DEF StatusNames, StatusTimes
  <1>2. \A name \in StatusTimes : name \notin EnumNames /\ name # "skew_seconds"
    BY DEF StatusTimes, EnumNames
  <1>3. "skew_seconds" \notin EnumNames
    BY DEF EnumNames
  <1> QED BY <1>1, <1>2, <1>3

LEMMA StatusValFacts ==
  ASSUME NEW s
  PROVE  /\ DOMAIN StatusVals(s) = StatusNames
         /\ \A name \in EnumNames : StatusVals(s)[name] = String(<<Plain(s[name])>>)
         /\ \A name \in StatusTimes : StatusVals(s)[name] = String(s[name])
         /\ StatusVals(s)["skew_seconds"] = Number(s["skew_seconds"])
  <1>1. DOMAIN StatusVals(s) = StatusNames
    BY DEF StatusVals
  <1>2. \A name \in EnumNames : StatusVals(s)[name] = String(<<Plain(s[name])>>)
    BY StatusNameFacts DEF StatusVals
  <1>3. \A name \in StatusTimes : StatusVals(s)[name] = String(s[name])
    BY StatusNameFacts DEF StatusVals
  <1>4. StatusVals(s)["skew_seconds"] = Number(s["skew_seconds"])
    BY StatusNameFacts DEF StatusVals
  <1> QED BY <1>1, <1>2, <1>3, <1>4

\* One member, which is written if it is given.
LEMMA EnumWrites ==
  ASSUME NEW s \in StatusObject, NEW name \in EnumNames
  PROVE  Writes(<<Member(name, Named(s[name]))>>, {name} \intersect StatusGiven(s), StatusVals(s))
  <1> DEFINE vals == StatusVals(s)
             tokens == Named(s[name])
  <1>1. name \in StatusNames /\ DOMAIN vals = StatusNames /\ vals[name] = String(<<Plain(s[name])>>)
    BY StatusNameFacts, StatusValFacts
  <1>2. s[name] \in Runs
    BY StatusFields, NamesAreRuns, EnumFacts
  <1>3. tokens \in Seq(Tokens) /\ ReadsAs(tokens, vals[name])
    BY <1>1, <1>2, NamedReads
  <1>4. DOMAIN vals \subseteq Runs
    BY <1>1, NamesAreRuns
  <1>5. {name} \intersect StatusGiven(s) = {name}
    BY <1>1 DEF StatusGiven
  <1> HIDE DEF vals, tokens
  <1>6. Writes(<<Member(name, tokens)>>, {name}, vals)
    BY <1>1, <1>3, <1>4, WritesOne
  <1> QED BY <1>5, <1>6 DEF vals, tokens

LEMMA OptionWrites ==
  ASSUME NEW s, NEW name \in StatusNames \ EnumNames, NEW tokens,
         s[name] # None => tokens \in Seq(Tokens) /\ ReadsAs(tokens, StatusVals(s)[name])
  PROVE  Writes(IF s[name] = None THEN <<>> ELSE <<Member(name, tokens)>>, {name} \intersect StatusGiven(s), StatusVals(s))
  <1> DEFINE vals == StatusVals(s)
  <1>1. DOMAIN vals = StatusNames
    BY StatusValFacts
  <1>2. DOMAIN vals \subseteq Runs
    BY <1>1, NamesAreRuns
  <1> HIDE DEF vals
  <1>3. CASE s[name] = None
    <2>1. {name} \intersect StatusGiven(s) = {}
      BY <1>3 DEF StatusGiven
    <2>2. Writes(<<>>, {}, vals)
      BY WritesNone
    <2> QED BY <1>3, <2>1, <2>2 DEF vals
  <1>4. CASE s[name] # None
    <2>1. {name} \intersect StatusGiven(s) = {name}
      BY <1>4 DEF StatusGiven
    <2>2. tokens \in Seq(Tokens) /\ ReadsAs(tokens, vals[name])
      BY <1>4 DEF vals
    <2>3. Writes(<<Member(name, tokens)>>, {name}, vals)
      BY <1>1, <1>2, <2>2, WritesOne
    <2> QED BY <1>4, <2>1, <2>3 DEF vals
  <1> QED BY <1>3, <1>4

LEMMA TimeWrites ==
  ASSUME NEW s \in StatusObject, NEW name \in StatusTimes
  PROVE  Writes(IF s[name] = None THEN <<>> ELSE <<Member(name, Quoted(s[name]))>>,
                {name} \intersect StatusGiven(s), StatusVals(s))
  <1>1. name \in StatusNames \ EnumNames /\ StatusVals(s)[name] = String(s[name])
    BY StatusNameFacts, StatusValFacts
  <1>2. s[name] # None => Quoted(s[name]) \in Seq(Tokens) /\ ReadsAs(Quoted(s[name]), StatusVals(s)[name])
    BY <1>1, StatusFields, QuotedReads
  <1> QED BY <1>1, <1>2, OptionWrites

LEMMA SkewWrites ==
  ASSUME NEW s \in StatusObject
  PROVE  Writes(IF s["skew_seconds"] = None THEN <<>> ELSE <<Member("skew_seconds", Written(s["skew_seconds"]))>>,
                {"skew_seconds"} \intersect StatusGiven(s), StatusVals(s))
  <1> DEFINE name == "skew_seconds"
  <1>1. name \in StatusNames \ EnumNames /\ StatusVals(s)[name] = Number(s[name])
    BY StatusNameFacts, StatusValFacts
  <1>2. s[name] # None => Written(s[name]) \in Seq(Tokens) /\ ReadsAs(Written(s[name]), StatusVals(s)[name])
    BY <1>1, StatusFields, WrittenReads
  <1> HIDE DEF name
  <1>3. Writes(IF s[name] = None THEN <<>> ELSE <<Member(name, Written(s[name]))>>,
               {name} \intersect StatusGiven(s), StatusVals(s))
    BY <1>1, <1>2, OptionWrites
  <1> QED BY <1>3 DEF name

LEMMA WritesBoth ==
  ASSUME NEW vals, NEW G, NEW a, NEW b, NEW A, NEW B,
         Writes(a, A \intersect G, vals), Writes(b, B \intersect G, vals)
  PROVE  Writes(a \o b, (A \union B) \intersect G, vals)
  <1>1. Writes(a \o b, (A \intersect G) \union (B \intersect G), vals)
    BY WritesMore
  <1>2. (A \intersect G) \union (B \intersect G) = (A \union B) \intersect G
    OBVIOUS
  <1> QED BY <1>1, <1>2

LEMMA StatusWrites ==
  ASSUME NEW s \in StatusObject
  PROVE  \E parts : StatusText(s) = Braced(parts) /\ Writes(parts, StatusGiven(s), StatusVals(s))
  <1> DEFINE vals == StatusVals(s)
             G == StatusGiven(s)
             Enum(name) == <<Member(name, Named(s[name]))>>
             Optionally(name) == IF s[name] = None THEN <<>> ELSE <<Member(name, Quoted(s[name]))>>
             N1 == "secure_time_status"
             N2 == "current_time_utc"
             N3 == "time_source"
             N4 == "source_role"
             N5 == "source_trust_state"
             N6 == "skew_seconds"
             N7 == "drift_state"
             N8 == "freshness"
             N9 == "last_update_utc"
             N10 == "monotonicity_status"
             N11 == "tamper_time_state"
             P1 == Enum(N1)
             P2 == Optionally(N2)
             P3 == Enum(N3)
             P4 == Enum(N4)
             P5 == Enum(N5)
             P6 == IF s[N6] = None THEN <<>> ELSE <<Member(N6, Written(s[N6]))>>
             P7 == Enum(N7)
             P8 == Enum(N8)
             P9 == Optionally(N9)
             P10 == Enum(N10)
             P11 == Enum(N11)
             parts == P1 \o P2 \o P3 \o P4 \o P5 \o P6 \o P7 \o P8 \o P9 \o P10 \o P11
  <1>1. StatusText(s) = Braced(parts)
    BY DEF StatusText
  <1>2. /\ N1 \in EnumNames /\ N3 \in EnumNames /\ N4 \in EnumNames /\ N5 \in EnumNames
        /\ N7 \in EnumNames /\ N8 \in EnumNames /\ N10 \in EnumNames /\ N11 \in EnumNames
        /\ N2 \in StatusTimes /\ N9 \in StatusTimes
    BY DEF EnumNames, StatusTimes
  <1>3. StatusNames = {N1, N2, N3, N4, N5, N6, N7, N8, N9, N10, N11}
    BY StatusNameFacts DEF EnumNames, StatusTimes
  <1>4. Writes(P6, {N6} \intersect G, vals)
    BY SkewWrites
  <1> HIDE DEF vals, G, N1, N2, N3, N4, N5, N6, N7, N8, N9, N10, N11
  <1>5. /\ Writes(P1, {N1} \intersect G, vals) /\ Writes(P3, {N3} \intersect G, vals)
        /\ Writes(P4, {N4} \intersect G, vals) /\ Writes(P5, {N5} \intersect G, vals)
        /\ Writes(P7, {N7} \intersect G, vals) /\ Writes(P8, {N8} \intersect G, vals)
        /\ Writes(P10, {N10} \intersect G, vals) /\ Writes(P11, {N11} \intersect G, vals)
    BY <1>2, EnumWrites DEF vals, G
  <1>6. Writes(P2, {N2} \intersect G, vals) /\ Writes(P9, {N9} \intersect G, vals)
    BY <1>2, TimeWrites DEF vals, G
  <1> HIDE DEF P1, P2, P3, P4, P5, P6, P7, P8, P9, P10, P11
  <1> DEFINE S2 == P1 \o P2
             A2 == {N1} \union {N2}
  <1>7. Writes(S2, A2 \intersect G, vals)
    BY <1>5, <1>6, WritesBoth
  <1> HIDE DEF S2, A2
  <1> DEFINE S3 == S2 \o P3
             A3 == A2 \union {N3}
  <1>8. Writes(S3, A3 \intersect G, vals)
    BY <1>5, <1>7, WritesBoth
  <1> HIDE DEF S3, A3
  <1> DEFINE S4 == S3 \o P4
             A4 == A3 \union {N4}
  <1>9. Writes(S4, A4 \intersect G, vals)
    BY <1>5, <1>8, WritesBoth
  <1> HIDE DEF S4, A4
  <1> DEFINE S5 == S4 \o P5
             A5 == A4 \union {N5}
  <1>10. Writes(S5, A5 \intersect G, vals)
    BY <1>5, <1>9, WritesBoth
  <1> HIDE DEF S5, A5
  <1> DEFINE S6 == S5 \o P6
             A6 == A5 \union {N6}
  <1>11. Writes(S6, A6 \intersect G, vals)
    BY <1>10, <1>4, WritesBoth
  <1> HIDE DEF S6, A6
  <1> DEFINE S7 == S6 \o P7
             A7 == A6 \union {N7}
  <1>12. Writes(S7, A7 \intersect G, vals)
    BY <1>11, <1>5, WritesBoth
  <1> HIDE DEF S7, A7
  <1> DEFINE S8 == S7 \o P8
             A8 == A7 \union {N8}
  <1>13. Writes(S8, A8 \intersect G, vals)
    BY <1>12, <1>5, WritesBoth
  <1> HIDE DEF S8, A8
  <1> DEFINE S9 == S8 \o P9
             A9 == A8 \union {N9}
  <1>14. Writes(S9, A9 \intersect G, vals)
    BY <1>13, <1>6, WritesBoth
  <1> HIDE DEF S9, A9
  <1> DEFINE S10 == S9 \o P10
             A10 == A9 \union {N10}
  <1>15. Writes(S10, A10 \intersect G, vals)
    BY <1>14, <1>5, WritesBoth
  <1> HIDE DEF S10, A10
  <1> DEFINE S11 == S10 \o P11
             A11 == A10 \union {N11}
  <1>16. Writes(S11, A11 \intersect G, vals)
    BY <1>15, <1>5, WritesBoth
  <1> HIDE DEF S11, A11
  <1>17. parts = S11
    BY DEF S2, S3, S4, S5, S6, S7, S8, S9, S10, S11
  <1>18. A11 \intersect G = StatusGiven(s)
    <2>1. A11 = {N1, N2, N3, N4, N5, N6, N7, N8, N9, N10, N11}
      BY DEF A2, A3, A4, A5, A6, A7, A8, A9, A10, A11
    <2>2. StatusGiven(s) \subseteq StatusNames
      BY DEF StatusGiven
    <2> QED BY <1>3, <2>1, <2>2 DEF G
  <1>19. Writes(parts, StatusGiven(s), vals)
    BY <1>16, <1>17, <1>18
  <1> HIDE DEF parts
  <1> QED BY <1>1, <1>19 DEF vals

-----------------------------------------------------------------------------
(* A status that is read back.                                              *)

LEMMA ParsedStatusMade ==
  ASSUME NEW text, ParsedStatus(text).value # None
  PROVE  Is("object", Read(text)) /\ ParsedStatus(text).value = ParseStatusObject(Read(text))
  <1> DEFINE root == Read(text)
             s == ParseStatusObject(root)
             reads == SecureTimeStatusReads(root)
             found == {ErrAt(d.code, d.path) : d \in StatusDiagnostics(GateStatus(s))}
             outcome == ParsedStatus(text)
  <1>1. outcome = IF root = Nothing THEN ParseResult(None, {ErrAt("json_malformed", "")})
                  ELSE IF ~Is("object", root) THEN ParseResult(None, {ErrAt("invalid_type", "/")})
                  ELSE IF reads # {} THEN ParseResult(None, reads)
                  ELSE ParseResult(s, found)
    BY DEF ParsedStatus, ParsedObject, ParsedRoot
  <1> HIDE DEF outcome, s, reads, found, root
  <1>2. \A all : ParseResult(None, all).value = None
    BY DEF ParseResult
  <1>3. outcome.value # None
    BY DEF outcome
  <1>4. Is("object", root) /\ outcome = ParseResult(s, found)
    BY <1>1, <1>2, <1>3
  <1>5. outcome.value = s
    BY <1>3, <1>4, ResultFacts
  <1> QED BY <1>4, <1>5 DEF outcome, s, root

\* What a legal status says is what its object has.
LEMMA StatusMadeOf ==
  ASSUME NEW V, IsJson(V), NEW root \in V, LegalStatus(root)
  PROVE  LET s == ParseStatusObject(root)
         IN /\ s \in StatusObject
            /\ \A name \in StatusNames :
                 IF name \in StatusGiven(s) THEN IsGiven(root, name) /\ Said(root, name) = StatusVals(s)[name]
                 ELSE ~IsGiven(root, name) /\ name \notin EnumNames
  <1> DEFINE s == ParseStatusObject(root)
             skew == IF Is("number", Field(root, "skew_seconds")) THEN Field(root, "skew_seconds").number ELSE None
  <1>1. Is("object", root) /\ ReadableStatus(root)
    BY LegalStatusIsReadable
  <1>2. \A name : Field(root, name) = Said(root, name) /\ (Said(root, name) = Nothing \/ Said(root, name) \in V)
    BY <1>1, FieldIsSaid
  <1>3. s \in StatusObject
    BY <1>1, StatusTyped
  <1>4. /\ \A name \in EnumNames : s[name] = NameOf(Said(root, name))
        /\ \A name \in StatusTimes : s[name] = OptionalText(root, name)
        /\ s["skew_seconds"] = skew
    BY <1>2, StatusMembers
  <1>5. \A name \in StatusNames : name \in StatusGiven(s) <=> (name \in EnumNames \/ s[name] # None)
    BY DEF StatusGiven
  <1>6. ASSUME NEW name \in EnumNames
        PROVE  /\ name \in StatusGiven(s) /\ IsGiven(root, name)
               /\ Said(root, name) = StatusVals(s)[name]
    <2> DEFINE v == Said(root, name)
    <2>1. NameOf(v) \in StatusEnums[name]
      BY <1>1, EnumFacts DEF ReadableStatus
    <2>2. NameOf(v) # ""
      BY <2>1, EnumFacts
    <2>3. v # Nothing
      BY <2>2, NothingHasNoType DEF NameOf
    <2>4. v \in V
      BY <1>2, <2>3
    <2> HIDE DEF v
    <2>5. Is("string", v) /\ v = String(<<Plain(NameOf(v))>>)
      BY <2>2, <2>4, NameFacts
    <2>6. v # Null
      BY <2>5, NothingHasNoType
    <2>7. StatusVals(s)[name] = String(<<Plain(s[name])>>)
      BY StatusValFacts
    <2>8. s[name] = NameOf(v)
      BY <1>4 DEF v
    <2>9. name \in StatusGiven(s)
      BY <1>5, StatusNameFacts
    <2> HIDE DEF s
    <2> QED BY <2>3, <2>5, <2>6, <2>7, <2>8, <2>9 DEF IsGiven, v
  <1>7. ASSUME NEW name \in StatusTimes
        PROVE  IF name \in StatusGiven(s) THEN IsGiven(root, name) /\ Said(root, name) = StatusVals(s)[name]
               ELSE ~IsGiven(root, name) /\ name \notin EnumNames
    <2> DEFINE t == OptionalText(root, name)
    <2>1. IsGiven(root, name) => Is("string", Said(root, name))
      BY <1>1 DEF ReadableStatus
    <2>2. (t # None <=> IsGiven(root, name)) /\ (IsGiven(root, name) => t = Said(root, name).string)
      BY <1>1, <2>1, OptionalFacts
    <2>3. s[name] = t /\ StatusVals(s)[name] = String(s[name])
      BY <1>4, StatusValFacts
    <2>4. IsGiven(root, name) => Said(root, name) = String(Said(root, name).string)
      BY <1>2, <2>1, TypeFacts DEF IsGiven
    <2>5. name \in StatusGiven(s) <=> s[name] # None
      BY <1>5, StatusNameFacts
    <2> HIDE DEF s, t
    <2> QED BY <2>2, <2>3, <2>4, <2>5, StatusNameFacts
  <1>8. ASSUME NEW name, name = "skew_seconds"
        PROVE  IF name \in StatusGiven(s) THEN IsGiven(root, name) /\ Said(root, name) = StatusVals(s)[name]
               ELSE ~IsGiven(root, name) /\ name \notin EnumNames
    <2>1. skew # None <=> IsGiven(root, name)
      BY <1>1, <1>8, SkewFacts
    <2>2. IsGiven(root, name) => Is("number", Said(root, name))
      BY <1>1, <1>8 DEF ReadableStatus
    <2>3. IsGiven(root, name) => Said(root, name) = Number(Said(root, name).number)
      BY <1>2, <2>2, TypeFacts DEF IsGiven
    <2>4. IsGiven(root, name) => skew = Said(root, name).number
      BY <1>2, <1>8, <2>2
    <2>5. s[name] = skew /\ StatusVals(s)[name] = Number(s[name])
      BY <1>4, <1>8, StatusValFacts
    <2>6. name \in StatusGiven(s) <=> s[name] # None
      BY <1>5, <1>8, StatusNameFacts
    <2>7. name \notin EnumNames
      BY <1>8, StatusNameFacts
    <2> HIDE DEF s, skew
    <2> QED BY <2>1, <2>3, <2>4, <2>5, <2>6, <2>7
  <1>9. ASSUME NEW name \in StatusNames
        PROVE  IF name \in StatusGiven(s) THEN IsGiven(root, name) /\ Said(root, name) = StatusVals(s)[name]
               ELSE ~IsGiven(root, name) /\ name \notin EnumNames
    <2>1. name \in EnumNames \/ name \in StatusTimes \/ name = "skew_seconds"
      BY StatusNameFacts
    <2> HIDE DEF s
    <2> QED BY <1>6, <1>7, <1>8, <2>1
  <1> HIDE DEF s
  <1>10. s \in StatusObject /\ \A name \in StatusNames :
           IF name \in StatusGiven(s) THEN IsGiven(root, name) /\ Said(root, name) = StatusVals(s)[name]
           ELSE ~IsGiven(root, name) /\ name \notin EnumNames
    BY <1>3, <1>9
  <1> QED BY <1>10 DEF s

\* Two objects that say the same make the same status.
LEMMA StatusMadeAgain ==
  ASSUME NEW V, IsJson(V), NEW W, IsJson(W), NEW old \in V, NEW new \in W, LegalStatus(old), Is("object", new),
         \A name \in StatusNames : Said(new, name) = Said(old, name) \/ (~IsGiven(old, name) /\ ~IsGiven(new, name))
  PROVE  LegalStatus(new) /\ ParseStatusObject(new) = ParseStatusObject(old)
  <1>1. Is("object", old) /\ ReadableStatus(old)
    BY LegalStatusIsReadable
  <1>2. \A name : Field(old, name) = Said(old, name) /\ Field(new, name) = Said(new, name)
    BY <1>1, FieldIsSaid
  <1>3. \A name \in EnumNames : Said(new, name) = Said(old, name)
    <2>1. TAKE name \in EnumNames
    <2>2. NameOf(Said(old, name)) # ""
      BY <1>1, EnumFacts DEF ReadableStatus
    <2>3. Said(old, name) # Nothing /\ Said(old, name) # Null
      BY <2>2, NothingHasNoType DEF NameOf
    <2> QED BY <2>3, StatusNameFacts DEF IsGiven
  <1>4. \A name \in StatusNames : /\ IsGiven(old, name) <=> IsGiven(new, name)
                                  /\ IsGiven(old, name) => Said(new, name) = Said(old, name)
    BY DEF IsGiven
  <1>5. LegalStatus(new)
    <2> DEFINE Time(root, name) == TimeOf(Said(root, name).string)
    <2>1. \A name \in StatusTimes : name \in StatusNames
      BY StatusNameFacts
    <2>2. /\ \A name \in EnumNames : NameOf(Said(old, name)) \in StatusEnums[name]
          /\ \A name \in StatusTimes : IsGiven(old, name) => Is("string", Said(old, name)) /\ IsUtc(Time(old, name))
          /\ IsGiven(old, "skew_seconds") =>
               Is("number", Said(old, "skew_seconds")) /\ Said(old, "skew_seconds").number >= 0
          /\ NameOf(Said(old, "secure_time_status")) # "unavailable" =>
               \A name \in StatusTimes \union {"skew_seconds"} : IsGiven(old, name)
          /\ (\A name \in StatusTimes : IsGiven(old, name)) =>
               ~Before(Time(old, "current_time_utc"), Time(old, "last_update_utc"))
      BY EnumFacts DEF LegalStatus, IsGiven, StatusTimes
    <2>3. "current_time_utc" \in StatusTimes /\ "last_update_utc" \in StatusTimes /\ "secure_time_status" \in EnumNames
          /\ "skew_seconds" \in StatusNames
      BY StatusNameFacts DEF StatusTimes, EnumNames
    <2>4. \A name \in StatusTimes : IsGiven(old, name) => Time(new, name) = Time(old, name)
      BY <1>4, <2>1
    <2> HIDE DEF Time
    <2>5. /\ \A name \in EnumNames : NameOf(Said(new, name)) \in StatusEnums[name]
          /\ \A name \in StatusTimes : IsGiven(new, name) => Is("string", Said(new, name)) /\ IsUtc(Time(new, name))
      BY <1>3, <1>4, <2>1, <2>2, <2>4
    <2>6. IsGiven(new, "skew_seconds") =>
               Is("number", Said(new, "skew_seconds")) /\ Said(new, "skew_seconds").number >= 0
      BY <1>4, <2>2, <2>3
    <2>7. NameOf(Said(new, "secure_time_status")) # "unavailable" =>
               \A name \in StatusTimes \union {"skew_seconds"} : IsGiven(new, name)
      BY <1>3, <1>4, <2>1, <2>2, <2>3
    <2>8. (\A name \in StatusTimes : IsGiven(new, name)) =>
               ~Before(Time(new, "current_time_utc"), Time(new, "last_update_utc"))
      BY <1>4, <2>1, <2>2, <2>3, <2>4
    <2> QED BY <2>5, <2>6, <2>7, <2>8, EnumFacts DEF LegalStatus, IsGiven, StatusTimes, Time
  <1>6. ParseStatusObject(new) = ParseStatusObject(old)
    <2> DEFINE s == ParseStatusObject(old)
               t == ParseStatusObject(new)
    <2>1. ASSUME NEW name \in StatusTimes PROVE OptionalText(new, name) = OptionalText(old, name)
      <3>1. name \in StatusNames
        BY StatusNameFacts
      <3>2. CASE Said(new, name) = Said(old, name)
        BY <1>2, <3>2 DEF OptionalText
      <3>3. CASE ~IsGiven(old, name) /\ ~IsGiven(new, name)
        BY <1>2, <3>3, NothingHasNoType DEF OptionalText, IsGiven
      <3> QED BY <3>1, <3>2, <3>3
    <2>2. (IF Is("number", Field(new, "skew_seconds")) THEN Field(new, "skew_seconds").number ELSE None)
          = (IF Is("number", Field(old, "skew_seconds")) THEN Field(old, "skew_seconds").number ELSE None)
      <3> DEFINE name == "skew_seconds"
      <3>1. name \in StatusNames
        BY StatusNameFacts
      <3> HIDE DEF name
      <3>2. CASE Said(new, name) = Said(old, name)
        BY <1>2, <3>2 DEF name
      <3>3. CASE ~IsGiven(old, name) /\ ~IsGiven(new, name)
        BY <1>2, <3>3, NothingHasNoType DEF IsGiven, name
      <3> QED BY <3>1, <3>2, <3>3
    <2>3. /\ s = [name \in EnumNames \union {"current_time_utc", "last_update_utc", "skew_seconds"} |-> s[name]]
          /\ \A name \in EnumNames : s[name] = NameOf(Said(old, name))
          /\ \A name \in StatusTimes : s[name] = OptionalText(old, name)
          /\ s["skew_seconds"] = IF Is("number", Field(old, "skew_seconds")) THEN Field(old, "skew_seconds").number ELSE None
      BY <1>2, StatusMembers
    <2>4. /\ t = [name \in EnumNames \union {"current_time_utc", "last_update_utc", "skew_seconds"} |-> t[name]]
          /\ \A name \in EnumNames : t[name] = NameOf(Said(new, name))
          /\ \A name \in StatusTimes : t[name] = OptionalText(new, name)
          /\ t["skew_seconds"] = IF Is("number", Field(new, "skew_seconds")) THEN Field(new, "skew_seconds").number ELSE None
      BY <1>2, StatusMembers
    <2> HIDE DEF s, t
    <2>5. ASSUME NEW name \in EnumNames \union {"current_time_utc", "last_update_utc", "skew_seconds"}
          PROVE  s[name] = t[name]
      <3>1. name \in EnumNames \/ name \in StatusTimes \/ name = "skew_seconds"
        BY DEF StatusTimes
      <3>2. CASE name \in EnumNames
        BY <1>3, <2>3, <2>4, <3>2
      <3>3. CASE name \in StatusTimes
        BY <2>1, <2>3, <2>4, <3>3
      <3>4. CASE name = "skew_seconds"
        BY <2>2, <2>3, <2>4, <3>4
      <3> QED BY <3>1, <3>2, <3>3, <3>4
    <2>6. s = t
      <3> DEFINE all == EnumNames \union {"current_time_utc", "last_update_utc", "skew_seconds"}
      <3>1. s = [name \in all |-> s[name]] /\ t = [name \in all |-> t[name]] /\ \A name \in all : s[name] = t[name]
        BY <2>3, <2>4, <2>5
      <3> HIDE DEF all
      <3>2. [name \in all |-> s[name]] = [name \in all |-> t[name]]
        BY <3>1
      <3> QED BY <3>1, <3>2
    <2> QED BY <2>6 DEF s, t
  <1> QED BY <1>5, <1>6

LEMMA StatusReadsBack ==
  ASSUME NEW text \in Seq(Tokens), ParsedStatus(text).value # None
  PROVE  LET s == ParsedStatus(text).value
         IN /\ ParsedStatus(StatusText(s)).value = s
            /\ \A name \in DOMAIN s : SaysSame(name, Said(Read(text), name), Said(Read(StatusText(s)), name))
  <1> DEFINE s == ParsedStatus(text).value
             again == StatusText(s)
             old == Read(text)
             new == Read(again)
             vals == StatusVals(s)
             G == StatusGiven(s)
  <1>1. Is("object", old) /\ s = ParseStatusObject(old) /\ s # None
    BY ParsedStatusMade
  <1>2. LegalStatus(old)
    BY StatusJudged DEF IsJudged
  <1>3. PICK V : IsJson(V) /\ old \in V
    BY <1>1, RootIsJson
  <1> HIDE DEF s, again, old, new, vals, G
  <1>4. /\ s \in StatusObject
        /\ \A name \in StatusNames :
             IF name \in G THEN IsGiven(old, name) /\ Said(old, name) = vals[name]
             ELSE ~IsGiven(old, name) /\ name \notin EnumNames
    BY <1>1, <1>2, <1>3, StatusMadeOf DEF G, vals
  <1>5. DOMAIN s = StatusNames
    BY <1>4, StatusFields
  <1>6. PICK parts : again = Braced(parts) /\ Writes(parts, G, vals)
    BY <1>4, StatusWrites DEF again, G, vals
  <1>7. /\ again \in Seq(Tokens) /\ Is("object", new)
        /\ \A name : Said(new, name) = IF name \in G THEN vals[name] ELSE Nothing
    <2>1. DOMAIN vals \subseteq Runs /\ G \subseteq DOMAIN vals
      BY StatusValFacts, NamesAreRuns DEF vals, G, StatusGiven
    <2>2. G # {}
      <3>1. "drift_state" \in EnumNames
        BY DEF EnumNames
      <3> QED BY <3>1, StatusNameFacts DEF G, StatusGiven
    <2>3. /\ Braced(parts) \in Seq(Tokens) /\ Is("object", Read(Braced(parts)))
          /\ \A name : Said(Read(Braced(parts)), name) = IF name \in G THEN vals[name] ELSE Nothing
      BY <1>6, <2>1, <2>2, WrittenObject
    <2> QED BY <1>6, <2>3 DEF new
  <1>8. PICK W : IsJson(W) /\ new \in W
    BY <1>7, RootIsJson DEF new
  <1>9. \A name \in StatusNames : Said(new, name) = Said(old, name) \/ (~IsGiven(old, name) /\ ~IsGiven(new, name))
    BY <1>4, <1>7 DEF IsGiven
  <1>10. LegalStatus(new) /\ ParseStatusObject(new) = s
    BY <1>1, <1>2, <1>3, <1>7, <1>8, <1>9, StatusMadeAgain
  <1>11. ParsedStatus(again).value = s
    <2>1. ParsedStatus(again).value # None
      BY <1>7, <1>10, StatusJudged DEF IsJudged, new
    <2>2. ParsedStatus(again).value = ParseStatusObject(new)
      BY <2>1, ParsedStatusMade DEF new
    <2> QED BY <1>10, <2>2
  <1>12. ASSUME NEW name \in StatusNames PROVE SaysSame(name, Said(old, name), Said(new, name))
    <2>1. CASE name \in G
      BY <1>4, <1>7, <2>1 DEF SaysSame
    <2>2. CASE name \notin G
      BY <1>4, <1>7, <2>2 DEF SaysSame, IsGiven
    <2> QED BY <2>1, <2>2
  <1> QED BY <1>5, <1>11, <1>12 DEF again, new, old, s

LEMMA ReadsBack ==
  ASSUME TextInv
  PROVE  WrittenTextReadsBack
  <1> SUFFICES ASSUME stage = "call" PROVE WrittenTextReadsBack
    BY DEF WrittenTextReadsBack
  <1> DEFINE p == parsed.policy.value
             s == parsed.status.value
  <1>1. parsed.policy = ParsedPolicy(texts.policy) /\ parsed.status = ParsedStatus(texts.status)
    BY DEF TextInv
  <1>2. texts.policy \in Seq(Tokens) /\ texts.status \in Seq(Tokens)
    BY GivenTexts DEF TextInv
  <1>3. p # None => /\ ParsedPolicy(PolicyText(p)).value = p
                    /\ \A name \in DOMAIN p :
                         SaysSame(name, Said(Read(texts.policy), name), Said(Read(PolicyText(p)), name))
    BY <1>1, <1>2, PolicyReadsBack
  <1>4. s # None => /\ ParsedStatus(StatusText(s)).value = s
                    /\ \A name \in DOMAIN s :
                         SaysSame(name, Said(Read(texts.status), name), Said(Read(StatusText(s)), name))
    BY <1>1, <1>2, StatusReadsBack
  <1> QED BY <1>3, <1>4 DEF WrittenTextReadsBack, SaysSame

\* What the object of a text says is what the text says, and written again it
\* reads back as itself: to_json and the parsers agree on every text.
THEOREM TextRoundTrip == TextSpec => []WrittenTextReadsBack
  <1>1. TextInv => WrittenTextReadsBack
    BY ReadsBack
  <1> QED BY <1>1, TextInvariance, PTL

-----------------------------------------------------------------------------
(* The calendar. Years are counted from March here, as in the code.         *)

Era(y) == (IF y >= 0 THEN y ELSE y - 399) \div 400

\* The days from 1970 to the first of March of a year.
DaysToMarch(y) ==
  LET yoe == y - Era(y) * 400 IN Era(y) * 146097 + yoe * 365 + yoe \div 4 - yoe \div 100 - 719468

MarchYear(year, month) == IF month <= 2 THEN year - 1 ELSE year

\* The days from the first of March to that of a month.
DaysFromMarch(month) == (153 * (IF month > 2 THEN month - 3 ELSE month + 9) + 2) \div 5

LEMMA CivilDays ==
  ASSUME NEW year \in Nat, NEW month \in 1 .. 12, NEW day \in Int
  PROVE  DaysFromCivil(year, month, day)
           = DaysToMarch(MarchYear(year, month)) + DaysFromMarch(month) + day - 1
BY SMTT(30) DEF DaysFromCivil, DaysToMarch, MarchYear, DaysFromMarch, Era

\* Between two first days of March lies the leap day of the second year.
LEMMA MarchToMarch ==
  ASSUME NEW year \in Nat
  PROVE  /\ DaysToMarch(year) \in Int /\ DaysToMarch(year - 1) \in Int
         /\ DaysToMarch(year) = DaysToMarch(year - 1) + (IF IsLeapYear(year) THEN 366 ELSE 365)
BY SMTT(60) DEF DaysToMarch, Era, IsLeapYear

LEMMA MonthLengths ==
  ASSUME NEW year \in Nat, NEW month \in 1 .. 12
  PROVE  /\ DaysInMonth(year, month) \in 28 .. 31
         /\ DaysFromMarch(month) \in Nat
         /\ month \notin {2, 12} => DaysFromMarch(month + 1) = DaysFromMarch(month) + DaysInMonth(year, month)
         /\ month = 12 => DaysFromMarch(1) = DaysFromMarch(12) + DaysInMonth(year, 12)
         /\ month = 2 => DaysFromMarch(2) + DaysInMonth(year, 2) = IF IsLeapYear(year) THEN 366 ELSE 365
BY SMTT(30) DEF DaysInMonth, DaysFromMarch

LEMMA NextMonthDays ==
  ASSUME NEW year \in Nat, NEW month \in 1 .. 11
  PROVE  DaysFromCivil(year, month + 1, 1) = DaysFromCivil(year, month, DaysInMonth(year, month)) + 1
<1> DEFINE last == DaysInMonth(year, month)
<1>1. /\ last \in Int /\ month \in 1 .. 12 /\ month + 1 \in 1 .. 12
      /\ DaysFromMarch(month) \in Int /\ DaysFromMarch(month + 1) \in Int
  BY MonthLengths, SMT
<1>2. /\ DaysFromCivil(year, month + 1, 1) = DaysToMarch(MarchYear(year, month + 1)) + DaysFromMarch(month + 1) + 1 - 1
      /\ DaysFromCivil(year, month, last) = DaysToMarch(MarchYear(year, month)) + DaysFromMarch(month) + last - 1
  BY <1>1, CivilDays, SMT
<1> HIDE DEF last
<1>3. CASE month = 2
  <2>1. MarchYear(year, 3) = year /\ MarchYear(year, 2) = year - 1 /\ DaysFromMarch(3) = 0
    BY SMT DEF MarchYear, DaysFromMarch
  <2>2. DaysFromMarch(2) + last = IF IsLeapYear(year) THEN 366 ELSE 365
    BY <1>3, MonthLengths DEF last
  <2>3. /\ DaysToMarch(year) \in Int /\ DaysToMarch(year - 1) \in Int
        /\ DaysToMarch(year) = DaysToMarch(year - 1) + (IF IsLeapYear(year) THEN 366 ELSE 365)
        /\ month + 1 = 3
    BY <1>3, MarchToMarch
  <2> QED
    BY <1>1, <1>2, <1>3, <2>1, <2>2, <2>3, SMT DEF last
<1>4. CASE month # 2
  <2>1. MarchYear(year, month + 1) = MarchYear(year, month)
    BY <1>4, SMT DEF MarchYear
  <2>2. DaysFromMarch(month + 1) = DaysFromMarch(month) + last
    BY <1>1, <1>4, MonthLengths DEF last
  <2>3. DaysToMarch(MarchYear(year, month)) \in Int
    BY MarchToMarch DEF MarchYear
  <2> QED
    BY <1>1, <1>2, <2>1, <2>2, <2>3, SMT DEF last
<1> QED
  BY <1>3, <1>4 DEF last

LEMMA NextYearDays ==
  ASSUME NEW year \in Nat
  PROVE  DaysFromCivil(year + 1, 1, 1) = DaysFromCivil(year, 12, 31) + 1
<1>1. /\ DaysFromCivil(year + 1, 1, 1) = DaysToMarch(MarchYear(year + 1, 1)) + DaysFromMarch(1) + 1 - 1
      /\ DaysFromCivil(year, 12, 31) = DaysToMarch(MarchYear(year, 12)) + DaysFromMarch(12) + 31 - 1
  BY CivilDays
<1>2. MarchYear(year + 1, 1) = year /\ MarchYear(year, 12) = year
  BY SMT DEF MarchYear
<1>3. DaysFromMarch(1) = 306 /\ DaysFromMarch(12) = 275
  BY SMT DEF DaysFromMarch
<1> QED
  BY <1>1, <1>2, <1>3, MarchToMarch, SMT

LEMMA NextDayDays ==
  ASSUME NEW year \in Nat, NEW month \in 1 .. 12, NEW day \in Int
  PROVE  DaysFromCivil(year, month, day + 1) = DaysFromCivil(year, month, day) + 1
<1>1. DaysToMarch(MarchYear(year, month)) \in Int /\ DaysFromMarch(month) \in Int
  BY MarchToMarch, MonthLengths DEF MarchYear
<1> QED
  BY <1>1, CivilDays, SMT

LEMMA TimestampFields ==
  ASSUME NEW t \in Timestamp, IsUtc(t)
  PROVE  /\ t.year \in Nat /\ t.month \in 1 .. 12 /\ t.day \in 1 .. DaysInMonth(t.year, t.month)
         /\ t.hour \in 0 .. 23 /\ t.minute \in 0 .. 59 /\ t.second \in 0 .. 59
         /\ DaysInMonth(t.year, t.month) \in 28 .. 31
<1>1. /\ t.year \in Nat /\ t.month \in Nat /\ t.day \in Nat
      /\ t.hour \in Nat /\ t.minute \in Nat /\ t.second \in Nat
  <2>1. t.year \in Nat
    <3> DEFINE year == t.year
    <3>1. year \in 0 .. 9999
      BY SMT DEF Timestamp
    <3> HIDE DEF year
    <3>2. year \in Nat
      BY <3>1
    <3> QED
      BY <3>2 DEF year
  <2>2. t.month \in Nat /\ t.day \in Nat /\ t.hour \in Nat
    BY SMT DEF Timestamp
  <2>3. t.minute \in Nat /\ t.second \in Nat
    BY SMT DEF Timestamp
  <2> QED
    BY <2>1, <2>2, <2>3, Zenon
<1>2. /\ t.month \in 1 .. 12 /\ t.day \in 1 .. DaysInMonth(t.year, t.month)
      /\ t.hour <= 23 /\ t.minute <= 59 /\ t.second <= 59
  BY Zenon DEF IsUtc
<1>3. DaysInMonth(t.year, t.month) \in 28 .. 31
  BY <1>1, <1>2, MonthLengths
<1> QED
  BY <1>1, <1>2, <1>3

LEMMA MidnightIsTimestamp ==
  ASSUME NEW t \in Timestamp
  PROVE  [t EXCEPT !.second = 0, !.minute = 0, !.hour = 0] \in Timestamp
<1> DEFINE Fields(Y, N) == [year : Y, month : N, day : N, hour : N, minute : N, second : N]
<1>1. ASSUME NEW Y, NEW N, 0 \in N, NEW u \in Fields(Y, N)
      PROVE  /\ [u EXCEPT !.second = 0] \in Fields(Y, N)
             /\ [u EXCEPT !.minute = 0] \in Fields(Y, N)
             /\ [u EXCEPT !.hour = 0] \in Fields(Y, N)
  BY <1>1, Zenon
<1> DEFINE FourDigits == 0 .. 9999
           TwoDigits  == 0 .. 99
<1>2. Timestamp = Fields(FourDigits, TwoDigits) /\ 0 \in TwoDigits
  BY SMT DEF Timestamp
<1> HIDE DEF FourDigits, TwoDigits, Fields
<1> QED
  BY <1>1, <1>2, Zenon

LEMMA SecondsOf ==
  ASSUME NEW t
  PROVE  EpochSeconds(t) = EpochDays(t) * 86400 + (t.hour * 3600 + t.minute * 60 + t.second)
BY DEF EpochSeconds, SecondOfDay

LEMMA FollowingDayCounts ==
  ASSUME NEW t \in Timestamp, IsUtc(t)
  PROVE  /\ EpochDays(FollowingDay(t)) = EpochDays(t) + 1
         /\ IsUtc(FollowingDay(t))
         /\ SecondOfDay(FollowingDay(t)) = SecondOfDay(t)
<1> DEFINE tomorrow   == [t EXCEPT !.day = @ + 1]
           next_month == [t EXCEPT !.day = 1, !.month = @ + 1]
           next_year  == [t EXCEPT !.day = 1, !.month = 1, !.year = @ + 1]
<1>1. /\ t.year \in Nat /\ t.month \in 1 .. 12 /\ t.day \in 1 .. DaysInMonth(t.year, t.month)
      /\ t.hour \in Nat /\ t.minute \in Nat /\ t.second \in Nat
      /\ t.hour <= 23 /\ t.minute <= 59 /\ t.second <= 59
      /\ DaysInMonth(t.year, t.month) \in 28 .. 31
  BY TimestampFields
<1>2. /\ tomorrow.year = t.year /\ tomorrow.month = t.month /\ tomorrow.day = t.day + 1
      /\ next_month.year = t.year /\ next_month.month = t.month + 1 /\ next_month.day = 1
      /\ next_year.year = t.year + 1 /\ next_year.month = 1 /\ next_year.day = 1
      /\ \A u \in {tomorrow, next_month, next_year} :
           u.hour = t.hour /\ u.minute = t.minute /\ u.second = t.second
  BY DEF Timestamp
<1>3. FollowingDay(t) = IF IsUtc(tomorrow) THEN tomorrow ELSE IF IsUtc(next_month) THEN next_month ELSE next_year
  BY Zenon DEF FollowingDay
<1> HIDE DEF tomorrow, next_month, next_year
<1>4. SecondOfDay(FollowingDay(t)) = SecondOfDay(t)
  BY <1>2, <1>3 DEF SecondOfDay
<1>5. /\ IsUtc(tomorrow) <=> t.day < DaysInMonth(t.year, t.month)
      /\ IsUtc(next_month) <=> t.month < 12
      /\ IsUtc(next_year)
  <2>1. /\ t.day + 1 \in 1 .. DaysInMonth(t.year, t.month) <=> t.day < DaysInMonth(t.year, t.month)
        /\ t.month + 1 \in 1 .. 12 <=> t.month < 12
        /\ 1 \in 1 .. 12
    BY <1>1
  <2>2. \A year \in Nat, month \in 1 .. 12 : 1 \in 1 .. DaysInMonth(year, month)
    <3> TAKE year \in Nat, month \in 1 .. 12
    <3>1. DaysInMonth(year, month) \in 28 .. 31
      BY MonthLengths
    <3> QED
      BY <3>1
  <2>3. t.year + 1 \in Nat /\ t.month \in 1 .. 12
    BY <1>1
  <2> QED
    BY <1>1, <1>2, <2>1, <2>2, <2>3 DEF IsUtc
<1>6. CASE IsUtc(tomorrow)
  <2>1. t.day \in Int
    BY <1>1
  <2>2. DaysFromCivil(t.year, t.month, t.day + 1) = DaysFromCivil(t.year, t.month, t.day) + 1
    BY <1>1, <2>1, NextDayDays
  <2> QED
    BY <1>2, <1>3, <1>4, <1>6, <2>2, Zenon DEF EpochDays
<1>7. CASE ~IsUtc(tomorrow) /\ IsUtc(next_month)
  <2>1. t.day = DaysInMonth(t.year, t.month) /\ t.month \in 1 .. 11
    BY <1>1, <1>5, <1>7
  <2>2. DaysFromCivil(t.year, t.month + 1, 1) = DaysFromCivil(t.year, t.month, t.day) + 1
    BY <1>1, <2>1, NextMonthDays
  <2> QED
    BY <1>2, <1>3, <1>4, <1>7, <2>2 DEF EpochDays
<1>8. CASE ~IsUtc(tomorrow) /\ ~IsUtc(next_month)
  <2>1. t.month = 12 /\ t.day = 31
    BY <1>1, <1>5, <1>8 DEF DaysInMonth
  <2>2. DaysFromCivil(t.year + 1, 1, 1) = DaysFromCivil(t.year, t.month, t.day) + 1
    BY <1>1, <2>1, NextYearDays
  <2> QED
    BY <1>2, <1>3, <1>4, <1>5, <1>8, <2>2 DEF EpochDays
<1> QED
  BY <1>6, <1>7, <1>8

LEMMA EpochDaysIsInt ==
  ASSUME NEW t \in Timestamp, IsUtc(t)
  PROVE  EpochDays(t) \in Int
<1>1. t.year \in Nat /\ t.month \in 1 .. 12 /\ t.day \in Int
  BY TimestampFields
<1>2. DaysToMarch(MarchYear(t.year, t.month)) \in Int /\ DaysFromMarch(t.month) \in Int
  BY <1>1, MarchToMarch, MonthLengths DEF MarchYear
<1> QED
  BY <1>1, <1>2, CivilDays DEF EpochDays

LEMMA FollowingSecondCounts ==
  ASSUME NEW t \in Timestamp, IsUtc(t)
  PROVE  /\ EpochSeconds(FollowingSecond(t)) = EpochSeconds(t) + 1
         /\ IsUtc(FollowingSecond(t))
<1> DEFINE next_second == [t EXCEPT !.second = @ + 1]
           next_minute == [t EXCEPT !.second = 0, !.minute = @ + 1]
           next_hour   == [t EXCEPT !.second = 0, !.minute = 0, !.hour = @ + 1]
           midnight    == [t EXCEPT !.second = 0, !.minute = 0, !.hour = 0]
           Same(u) == u.year = t.year /\ u.month = t.month /\ u.day = t.day
<1>1. /\ t.hour \in 0 .. 23 /\ t.minute \in 0 .. 59 /\ t.second \in 0 .. 59
      /\ t.month \in 1 .. 12 /\ t.day \in 1 .. DaysInMonth(t.year, t.month)
      /\ EpochDays(t) \in Int
  BY TimestampFields, EpochDaysIsInt
<1>2. /\ Same(next_second) /\ Same(next_minute) /\ Same(next_hour) /\ Same(midnight)
      /\ next_second.second = t.second + 1 /\ next_second.minute = t.minute /\ next_second.hour = t.hour
      /\ next_minute.second = 0 /\ next_minute.minute = t.minute + 1 /\ next_minute.hour = t.hour
      /\ next_hour.second = 0 /\ next_hour.minute = 0 /\ next_hour.hour = t.hour + 1
      /\ midnight.second = 0 /\ midnight.minute = 0 /\ midnight.hour = 0
      /\ midnight \in Timestamp
  <2>1. DOMAIN t = {"year", "month", "day", "hour", "minute", "second"} /\ t = [f \in DOMAIN t |-> t[f]]
    BY DEF Timestamp
  <2>2. midnight \in Timestamp
    BY MidnightIsTimestamp, Zenon
  <2> QED
    BY <2>1, <2>2
<1>3. FollowingSecond(t) = IF IsUtc(next_second) THEN next_second ELSE IF IsUtc(next_minute) THEN next_minute
                           ELSE IF IsUtc(next_hour) THEN next_hour ELSE FollowingDay(midnight)
  BY Zenon DEF FollowingSecond
<1> HIDE DEF next_second, next_minute, next_hour, midnight
<1>4. \A u \in {next_second, next_minute, next_hour, midnight} :
        EpochSeconds(u) = EpochDays(t) * 86400 + (u.hour * 3600 + u.minute * 60 + u.second)
  <2>1. \A u : EpochSeconds(u) = EpochDays(u) * 86400 + (u.hour * 3600 + u.minute * 60 + u.second)
    BY SecondsOf, SMT
  <2>2. \A u \in {next_second, next_minute, next_hour, midnight} : EpochDays(u) = EpochDays(t)
    BY <1>2, Zenon DEF EpochDays
  <2> QED
    BY <2>1, <2>2, SMT
<1>5. EpochSeconds(t) = EpochDays(t) * 86400 + (t.hour * 3600 + t.minute * 60 + t.second)
  BY SecondsOf, SMT
<1>6. /\ IsUtc(next_second) <=> t.second < 59
      /\ IsUtc(next_minute) <=> t.minute < 59
      /\ IsUtc(next_hour) <=> t.hour < 23
      /\ IsUtc(midnight)
  BY <1>1, <1>2 DEF IsUtc
<1>7. CASE IsUtc(next_second)
  <2>1. EpochSeconds(next_second) = EpochDays(t) * 86400 + (t.hour * 3600 + t.minute * 60 + (t.second + 1))
    BY <1>2, <1>4, SMT
  <2>2. ASSUME NEW days \in Int, NEW hour \in Int, NEW minute \in Int, NEW second \in Int
        PROVE  days * 86400 + (hour * 3600 + minute * 60 + (second + 1))
                 = days * 86400 + (hour * 3600 + minute * 60 + second) + 1
    BY SMT
  <2>3. t.hour \in Int /\ t.minute \in Int /\ t.second \in Int /\ EpochDays(t) \in Int
    BY <1>1
  <2>4. EpochSeconds(next_second) = EpochSeconds(t) + 1
    BY <1>5, <2>1, <2>2, <2>3
  <2> QED
    BY <1>3, <1>7, <2>4, Zenon
<1>8. CASE ~IsUtc(next_second) /\ IsUtc(next_minute)
  <2>1. t.second = 59
    BY <1>1, <1>6, <1>8
  <2>2. EpochSeconds(next_minute) = EpochDays(t) * 86400 + (t.hour * 3600 + (t.minute + 1) * 60 + 0)
    BY <1>2, <1>4, SMT
  <2> QED
    BY <1>1, <1>3, <1>5, <1>8, <2>1, <2>2
<1>9. CASE ~IsUtc(next_second) /\ ~IsUtc(next_minute) /\ IsUtc(next_hour)
  <2>1. t.second = 59 /\ t.minute = 59
    BY <1>1, <1>6, <1>9
  <2>2. EpochSeconds(next_hour) = EpochDays(t) * 86400 + ((t.hour + 1) * 3600 + 0 * 60 + 0)
    BY <1>2, <1>4, SMT
  <2> QED
    BY <1>1, <1>3, <1>5, <1>9, <2>1, <2>2
<1>10. CASE ~IsUtc(next_second) /\ ~IsUtc(next_minute) /\ ~IsUtc(next_hour)
  <2>1. t.second = 59 /\ t.minute = 59 /\ t.hour = 23
    BY <1>1, <1>6, <1>10
  <2>2. /\ EpochDays(FollowingDay(midnight)) = EpochDays(midnight) + 1
        /\ IsUtc(FollowingDay(midnight))
        /\ SecondOfDay(FollowingDay(midnight)) = SecondOfDay(midnight)
    BY <1>2, <1>6, FollowingDayCounts
  <2>3. EpochDays(midnight) = EpochDays(t) /\ SecondOfDay(midnight) = 0
    BY <1>2 DEF EpochDays, SecondOfDay
  <2> HIDE DEF Same
  <2>4. EpochSeconds(FollowingDay(midnight)) = (EpochDays(t) + 1) * 86400
    BY <1>1, <2>2, <2>3 DEF EpochSeconds
  <2> QED
    BY <1>1, <1>3, <1>5, <1>10, <2>1, <2>2, <2>4
<1> QED
  BY <1>7, <1>8, <1>9, <1>10

\* The walk is always at a timestamp that the parser accepts.
CalendarInv == now \in Timestamp /\ IsUtc(now)

LEMMA CalendarIsInvariant == CalendarSpec => []CalendarInv
<1>1. CalendarInit => CalendarInv
  BY WalksAssumption, Zenon DEF CalendarInit, CalendarInv
<1>2. CalendarInv /\ [CalendarNext]_calendar_vars => CalendarInv'
  <2> SUFFICES ASSUME CalendarInv, [CalendarNext]_calendar_vars PROVE CalendarInv'
    OBVIOUS
  <2>1. CASE NextDay
    BY <2>1, FollowingDayCounts, Zenon DEF CalendarInv, NextDay, Move
  <2>2. CASE NextSecond
    BY <2>2, FollowingSecondCounts, Zenon DEF CalendarInv, NextSecond, Move
  <2>3. CASE UNCHANGED calendar_vars
    BY <2>3, Zenon DEF CalendarInv, calendar_vars
  <2> QED
    BY <2>1, <2>2, <2>3, Zenon DEF CalendarNext
<1> QED
  BY <1>1, <1>2, PTL DEF CalendarSpec

\* For every walk, through any months and years: a timestamp that follows
\* another by a day or a second is counted one day or one second later.
THEOREM CalendarCorrectness == CalendarSpec => EachStepCounts
<1> DEFINE Counts == IF walk.by = "day" THEN EpochDays(now') = EpochDays(now) + 1
                     ELSE EpochSeconds(now') = EpochSeconds(now) + 1
<1>1. CalendarInv /\ [CalendarNext]_calendar_vars => [Counts]_calendar_vars
  <2> SUFFICES ASSUME CalendarInv, CalendarNext PROVE Counts
    OBVIOUS
  <2>1. CASE NextDay
    BY <2>1, FollowingDayCounts, Zenon DEF CalendarInv, NextDay, Move
  <2>2. CASE NextSecond
    <3>1. walk.by # "day"
      BY <2>2 DEF NextSecond
    <3> QED
      BY <2>2, <3>1, FollowingSecondCounts, Zenon DEF CalendarInv, NextSecond, Move
  <2> QED
    BY <2>1, <2>2, Zenon DEF CalendarNext
<1> QED
  BY <1>1, CalendarIsInvariant, PTL DEF CalendarSpec, EachStepCounts
=============================================================================
