--------------------------- MODULE StatusDelivery ---------------------------
(***************************************************************************)
(* When status emails arrive: the sweeps of StatusEmails next to what      *)
(* EmailService (api/src/email/email.service.ts) makes of the emails they  *)
(* hand over.                                                              *)
(*                                                                         *)
(* EmailService.send answers the sweep whether or not Resend took the      *)
(* email. One it did not take stays an EmailLog row, and EmailRetryService *)
(* sends it minutes or an hour later, from the content stored: nobody      *)
(* reads the ticket again. EmailLog has the attempts on one row; here they *)
(* come down to one step per email, at any time after the hand-over and in *)
(* any order, or never, when the attempts are used up.                     *)
(***************************************************************************)
EXTENDS StatusEmails

VARIABLES
  outbox,  \* places in told of the emails Resend has not taken
  heard,   \* events the customer got an email about
  outrun   \* history: events whose email was on its way as it became untrue

deliveryVars == <<outbox, heard, outrun>>

\* The emails nothing looks at the ticket for any more.
OnItsWay ==
  {told[k] : k \in outbox} \cup {sweep[w].row : w \in {v \in Sweep : sweep[v].pc = "send"}}

DeliveryTypeOK ==
  /\ EmailTypeOK
  /\ outbox \subseteq DOMAIN told
  /\ heard \subseteq 1 .. nextId - 1
  /\ outrun \subseteq 1 .. nextId - 1

DeliveryInit ==
  /\ EmailInit
  /\ outbox = {}
  /\ heard = {}
  /\ outrun = {}

\* The sweeps, the ticket and the customer. An email handed over becomes a
\* row of EmailLog; the customer may stop the emails, lose the address or
\* the location while others are on their way.
Proceed ==
  /\ EmailNext
  /\ outbox' = outbox \cup (DOMAIN told' \ DOMAIN told)
  /\ outrun' = IF ~Silenced /\ Silenced' THEN outrun \cup OnItsWay ELSE outrun
  /\ UNCHANGED heard

\* An attempt at the email gets Resend's yes, its first or a later one.
Deliver(k) ==
  /\ k \in outbox
  /\ outbox' = outbox \ {k}
  /\ heard' = heard \cup {told[k]}
  /\ outrun' = outrun \cup {id \in OnItsWay : id < told[k]}
  /\ UNCHANGED allVars

DeliveryNext == Proceed \/ \E k \in outbox : Deliver(k)

deliveryAll == <<now, current, events, pending, nextId, tx, closed, overtaken,
                 sweep, stopped, reachable, told, muted, failures,
                 outbox, heard, outrun>>

DeliverySpec == DeliveryInit /\ [][DeliveryNext]_deliveryAll

-----------------------------------------------------------------------------
(* Properties.                                                             *)

\* What an email may be by the time it arrives: about a change older than
\* one the customer has heard of, or to a customer who gets no email now.
Stale(id) == Silenced \/ \E later \in heard : id < later

\* Only an email that was on its way already arrives although it is stale:
\* no sweep makes a new one of an old change, or for a customer who asked
\* to hear no more, in whatever order sweeps and retries get through.
StaleOnlyIfOutrun ==
  [][\A k \in outbox \ outbox' : Stale(told[k]) => told[k] \in outrun]_deliveryAll
=============================================================================
