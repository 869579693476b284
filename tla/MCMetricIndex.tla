--------------------------- MODULE MCMetricIndex ---------------------------
(***************************************************************************)
(* Instances of MetricIndex for TLC.                                       *)
(***************************************************************************)
EXTENDS MetricIndex, TLC

CONSTANTS j1, m1

Build(at, metrics, release) ==
    [job |-> j1, number |-> TRUE, at |-> at, stamped |-> TRUE, metrics |-> metrics,
     release |-> release]

\* A build that brings both metrics, one without a number, one with a version,
\* one without the duration, one more, and one that completed before it but is
\* indexed after it.
Builds ==
    <<Build(1, {Duration, m1}, FALSE),
      [Build(2, {m1}, FALSE) EXCEPT !.number = FALSE],
      Build(3, {Duration, m1}, TRUE),
      [Build(4, {m1}, FALSE) EXCEPT !.stamped = FALSE],
      Build(5, {Duration}, FALSE),
      [Build(4, {Duration, m1}, FALSE) EXCEPT !.stamped = FALSE]>>
=============================================================================
