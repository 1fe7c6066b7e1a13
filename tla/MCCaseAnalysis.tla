--------------------------- MODULE MCCaseAnalysis ---------------------------
(* Documents that are new or analysed already, two workers, and a press of    *)
(* either button.                                                             *)
EXTENDS CaseAnalysis
CONSTANTS d1, d2, w1, w2
MCDocs == {d1, d2}
MCWorkers == {w1, w2}
\* What follows a trouble says nothing about the promise.
Untroubled == trouble = "none"
=============================================================================
