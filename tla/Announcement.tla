---------------------------- MODULE Announcement ----------------------------
(***************************************************************************)
(* What ADR 0015 promises of the email of one status change, whoever       *)
(* sends it and whatever fails: a change that notifies is queued, and a    *)
(* queued one is either told, which is to say handed to EmailService, or   *)
(* dropped, for good. Why a change is dropped (undone, superseded, the     *)
(* customer gets no email) is up to StatusEmails, which implements this.   *)
(***************************************************************************)
EXTENDS Integers

CONSTANT Change  \* the changes a ticket may see: numbers, as they are made

VARIABLE fate

Fates == {"unmade", "queued", "told", "dropped"}

FateOK == fate \in [Change -> Fates]

FateInit == fate = [c \in Change |-> "unmade"]

\* A change that notifies is queued, any other has nothing to tell.
Make(c) ==
  /\ fate[c] = "unmade"
  /\ \A d \in Change : d < c => fate[d] # "unmade"
  /\ \E f \in {"queued", "dropped"} : fate' = [fate EXCEPT ![c] = f]

Tell(c) ==
  /\ fate[c] = "queued"
  /\ fate' = [fate EXCEPT ![c] = "told"]

\* One change is undone or superseded, or a deleted location drops them all.
Drop(dropped) ==
  /\ \A c \in dropped : fate[c] = "queued"
  /\ fate' = [c \in Change |-> IF c \in dropped THEN "dropped" ELSE fate[c]]

Settle(c) == Tell(c) \/ Drop({c})

FateNext ==
  \/ \E c \in Change : Make(c) \/ Tell(c)
  \/ \E dropped \in (SUBSET Change) \ {{}} : Drop(dropped)

\* "Never dropped, never stuck": every queued change is settled.
AnnouncementSpec ==
  FateInit /\ [][FateNext]_fate /\ \A c \in Change : WF_fate(Settle(c))
=============================================================================
