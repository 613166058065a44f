--------------------------- MODULE MCStatusEmails ---------------------------
(* StatusEmails with one member of staff, two overlapping sweeps and a     *)
(* workflow with one business step.                                        *)
EXTENDS StatusEmails, TLC

CONSTANTS manager, r1, w1, w2

MCStaff == {manager}
MCRequest == {r1}
MCSweep == {w1, w2}
MCStep == WorkflowSteps({"IN_PROGRESS"}) \ {"COMPLETED", "REJECTED"}

Slots == Permutations(MCSweep)
=============================================================================
