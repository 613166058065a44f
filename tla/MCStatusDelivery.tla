-------------------------- MODULE MCStatusDelivery --------------------------
(* StatusDelivery on the instance of MCStatusEmails.                       *)
EXTENDS MCStatusEmails, StatusDelivery
=============================================================================
