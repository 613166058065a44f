------------------------------ MODULE Statuses ------------------------------
(***************************************************************************)
(* The status codes every part of the system tests for, from               *)
(* packages/shared/src/statuses.ts, and the shape of a seeded workflow,    *)
(* from packages/db/prisma/catalogue.ts. A status is its code.             *)
(***************************************************************************)

SYSTEM_STATUS_CODES == {"RECEIVED", "READY", "COMPLETED", "CANCELLED", "REJECTED"}

\* A ticket at one of these is finished.
ENDED_STATUS_CODES == {"COMPLETED", "CANCELLED", "REJECTED"}

\* A ticket reaching one of these emails its customer.
NOTIFYING_STATUS_CODES ==
  {"READY", "AWAITING_APPROVAL", "AWAITING_CLIENT_INFO", "CANCELLED", "REJECTED"}

isEndedStatus(code) == code \in ENDED_STATUS_CODES

isNotifyingStatus(code) == code \in NOTIFYING_STATUS_CODES

\* The other statuses of the catalogue.
OPERATIONAL_STATUSES ==
  {"INSPECTING", "DIAGNOSING", "QUOTE_PREPARED", "AWAITING_APPROVAL", "APPROVED",
   "AWAITING_PARTS", "PARTS_ORDERED", "BACKORDERED", "AWAITING_CLIENT_INFO", "ON_HOLD",
   "IN_PROGRESS", "DISASSEMBLY", "CLEANING", "REPAIRING", "REPLACING_PARTS", "REASSEMBLY",
   "PAINTING", "POLISHING", "CALIBRATING", "SOFTWARE_UPDATE", "ALTERATION", "FITTING",
   "STAIN_TREATMENT", "TESTING", "QUALITY_CHECK", "PACKAGING"}

\* The steps of the business types; some have the same ones.
BUSINESS_TYPES ==
  {{"IN_PROGRESS"}, {"CLEANING"}, {"REPAIRING"}, {"DIAGNOSING", "REPAIRING"},
   {"FITTING", "ALTERATION"}, {"DIAGNOSING", "REPAIRING", "QUALITY_CHECK"},
   {"DIAGNOSING", "AWAITING_PARTS", "REPAIRING"}, {"IN_PROGRESS", "QUALITY_CHECK"}}

\* The status table once it is seeded.
seedStatuses == SYSTEM_STATUS_CODES \cup OPERATIONAL_STATUSES

\* Every workflow is the five system statuses around the steps of its
\* business type; position is only a display order, so a set is enough.
WorkflowSteps(businessSteps) == SYSTEM_STATUS_CODES \cup businessSteps

seedDefaultWorkflows == {WorkflowSteps(steps) : steps \in BUSINESS_TYPES}

\* Seeding throws at a step that is no status; a notifying status that is
\* none would never be met.
ASSUME CatalogueAssumption ==
  /\ \A workflow \in seedDefaultWorkflows : workflow \subseteq seedStatuses
  /\ NOTIFYING_STATUS_CODES \cup ENDED_STATUS_CODES \subseteq seedStatuses
=============================================================================
