------------------------------ MODULE Severity ------------------------------
(***************************************************************************)
(* data_quality/severity.py: when a check of the gate blocks the build,    *)
(* and under which severity it is reported.                                *)
(***************************************************************************)
EXTENDS Integers

\* mostly_threshold, the tolerated share of violations, is in percent.
CheckResult == [severity : {"CRITICAL", "WARNING"}, element_count : Nat, violation_count : Nat,
                mostly_threshold : 0 .. 100]

\* failure_rate <= mostly_threshold, where the rate of no elements is zero.
Passed(r) ==
    r.element_count = 0 \/ 100 * r.violation_count <= r.mostly_threshold * r.element_count

IsBlocking(r) == ~Passed(r)

EffectiveSeverity(r) ==
    CASE r.severity = "CRITICAL" -> "CRITICAL"
      [] ~Passed(r) -> "CRITICAL"
      [] r.violation_count > 0 -> "RECOVERABLE"
      [] OTHER -> "WARNING"
=============================================================================
