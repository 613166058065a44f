--------------------------- MODULE MCTicketStatus ---------------------------
(* TicketStatus on a small instance: a manager and an employee, a workflow *)
(* with one business step, two requests at a time.                         *)
EXTENDS TicketStatus, TLC

CONSTANTS manager, employee, r1, r2

MCStaff == {manager, employee}
MCManagers == {manager}
MCRequest == {r1, r2}

\* CANCELLED and REJECTED end a ticket as COMPLETED does, and notify as
\* READY does; StatusEmails is checked with them.
MCStep == WorkflowSteps({"IN_PROGRESS"}) \ {"CANCELLED", "REJECTED"}

Slots == Permutations(MCRequest)
=============================================================================
