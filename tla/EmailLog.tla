------------------------------ MODULE EmailLog ------------------------------
(***************************************************************************)
(* One email on its way out: its EmailLog row, every attempt to hand it to *)
(* Resend (api/src/email/email.service.ts), the sweeps that retry it       *)
(* (email-retry.service.ts) and the webhooks that say what became of it    *)
(* (email-webhook.controller.ts).                                          *)
(*                                                                         *)
(* The attempt send() makes itself and those of the sweeps, which overlap, *)
(* know nothing of each other: nobody claims the row. What keeps them      *)
(* together is Resend, which accepts an idempotency key once.              *)
(***************************************************************************)
EXTENDS Integers, FiniteSets

CONSTANTS
  logId,         \* EmailLog.id of the row
  null,          \* resendId not set
  Origin,        \* send()'s own attempt
  Sweep,         \* slots for retry sweeps running at one time
  Happens,       \* bound: the events Resend reports in this instance
  MAX_IMMEDIATE_ATTEMPTS,
  MAX_TOTAL_ATTEMPTS,
  MaxFailures    \* bound: attempts cut short

WebhookEvent == {"sent", "delivered", "delivery_delayed", "bounced", "bounced_temporarily",
                 "complained", "suppressed", "failed", "opened"}

EmailStatus == {"QUEUED", "SENT", "DELIVERED", "DELAYED", "BOUNCED", "COMPLAINED", "FAILED"}

ASSUME LogAssumption ==
  /\ null # logId
  /\ Origin \notin Sweep /\ IsFiniteSet(Sweep)
  /\ Happens \subseteq WebhookEvent
  /\ MAX_IMMEDIATE_ATTEMPTS \in Nat \ {0}
  /\ MAX_TOTAL_ATTEMPTS \in Nat \ {0}
  /\ MaxFailures \in Nat

Attempter == Sweep \cup {Origin}

VARIABLES
  type,       \* EmailLog.type, never changed
  row,        \* the rest of the row
  job,        \* what each attempter is doing
  messages,   \* Resend: the messages it accepted, named by their keys
  happened,   \* Resend: <<message, event>>, what became of them
  due,        \* the events whose webhook has not been answered 200
  flags,      \* the bounce and complaint flags of a customer with this address
  failures,   \* attempts cut short so far
  overlapped  \* history: some sweep took the row while an attempt was open

vars == <<type, row, job, messages, happened, due, flags, failures, overlapped>>

\* attempt()'s loop counter is i; "try" is before the counting of attempt i,
\* "call" before Resend's answer to it.
Idle == [pc |-> "idle"]
Try(i) == [pc |-> "try", i |-> i]
Calling(i) == [pc |-> "call", i |-> i]
Accepted(id) == [pc |-> "accepted", id |-> id]
Failing(error) == [pc |-> "failing", error |-> error]

Iterations == 0 .. MAX_IMMEDIATE_ATTEMPTS - 1

JobState == {Idle} \cup {Try(i) : i \in Iterations} \cup {Calling(i) : i \in Iterations}
            \cup {Accepted(logId)} \cup {Failing(e) : e \in {"transient", "refused"}}

LogTypeOK ==
  /\ type \in {"auth_otp", "other"}
  /\ row \in [status : EmailStatus, attempts : Nat, resendId : {null, logId},
              lastError : {"none", "transient", "refused"},
              lastAttemptAt : {"never", "recent", "cooled"}, deliveredAt : BOOLEAN]
  /\ job \in [Attempter -> JobState]
  /\ messages \subseteq {logId}
  /\ happened \subseteq messages \X WebhookEvent
  /\ due \subseteq happened
  /\ flags \subseteq {"emailBouncedAt", "emailComplainedAt"}
  /\ failures \in 0 .. MaxFailures
  /\ overlapped \in BOOLEAN

\* send() has written the row and enters attempt().
LogInit ==
  /\ type \in {"auth_otp", "other"}
  /\ row = [status |-> "QUEUED", attempts |-> 0, resendId |-> null, lastError |-> "none",
            lastAttemptAt |-> "never", deliveredAt |-> FALSE]
  /\ job = [a \in Attempter |-> IF a = Origin THEN Try(0) ELSE Idle]
  /\ messages = {} /\ happened = {} /\ due = {}
  /\ flags = {}
  /\ failures = 0
  /\ overlapped = FALSE

resendVars == <<messages, happened, due>>

-----------------------------------------------------------------------------
(* EmailService.attempt.                                                   *)

\* Mutant: a key of its own for every attempt.
keyPerAttempt(a) == <<a, job[a].i>>

idempotencyKey(a) == logId

CountAttempt(a) ==
  /\ job[a].pc = "try"
  /\ row' = [row EXCEPT !.attempts = @ + 1]
  /\ job' = [job EXCEPT ![a] = Calling(job[a].i)]
  /\ UNCHANGED <<type, resendVars, flags, failures, overlapped>>

\* After an error that may pass.
NextTry(i) == IF i + 1 < MAX_IMMEDIATE_ATTEMPTS THEN Try(i + 1) ELSE Failing("transient")

\* Resend takes the message; its answer may get lost.
CallAccepted(a) ==
  /\ job[a].pc = "call"
  /\ messages' = messages \cup {idempotencyKey(a)}
  /\ \E answer \in {Accepted(idempotencyKey(a)), NextTry(job[a].i)} :
       job' = [job EXCEPT ![a] = answer]
  /\ UNCHANGED <<type, row, happened, due, flags, failures, overlapped>>

\* A rate limit, an outage or a network error; or one of the
\* NON_RETRYABLE_RESEND_ERRORS, which breaks the loop.
CallFails(a) ==
  /\ job[a].pc = "call"
  /\ \E answer \in {NextTry(job[a].i), Failing("refused")} : job' = [job EXCEPT ![a] = answer]
  /\ UNCHANGED <<type, row, resendVars, flags, failures, overlapped>>

RecordSent(a) ==
  /\ job[a].pc = "accepted"
  /\ row' = [row EXCEPT !.status = "SENT", !.resendId = job[a].id, !.lastAttemptAt = "recent"]
  /\ job' = [job EXCEPT ![a] = Idle]
  /\ UNCHANGED <<type, resendVars, flags, failures, overlapped>>

RecordFailed(a) ==
  /\ job[a].pc = "failing"
  /\ row' = [row EXCEPT !.status = "FAILED", !.lastError = job[a].error, !.lastAttemptAt = "recent"]
  /\ job' = [job EXCEPT ![a] = Idle]
  /\ UNCHANGED <<type, resendVars, flags, failures, overlapped>>

\* The process dies, or an update of the row throws: those are outside the
\* try block, RecordSent's because its promise is returned without await.
Abort(a) ==
  /\ job[a] # Idle
  /\ failures < MaxFailures
  /\ failures' = failures + 1
  /\ job' = [job EXCEPT ![a] = Idle]
  /\ UNCHANGED <<type, row, resendVars, flags, overlapped>>

-----------------------------------------------------------------------------
(* EmailRetryService.sweep. A sweep works through the rows it read, one    *)
(* after the other, without reading any of them again: between ListStuck   *)
(* and CountAttempt lies the work on the rows before this one.             *)

\* Mutant: sign-in codes are swept too.
IsStuckWhateverType ==
  /\ row.status \in {"QUEUED", "FAILED"}
  /\ row.attempts < MAX_TOTAL_ATTEMPTS
  /\ row.lastAttemptAt \in {"never", "cooled"}

\* Mutant: the ceiling is off by one.
IsStuckUpToMax ==
  /\ row.status \in {"QUEUED", "FAILED"}
  /\ row.attempts <= MAX_TOTAL_ATTEMPTS
  /\ type # "auth_otp"
  /\ row.lastAttemptAt \in {"never", "cooled"}

\* Mutant: without the branch for a row that no attempt has finished.
IsStuckOnceTried ==
  /\ row.status \in {"QUEUED", "FAILED"}
  /\ row.attempts < MAX_TOTAL_ATTEMPTS
  /\ type # "auth_otp"
  /\ row.lastAttemptAt = "cooled"

\* Mutant: whatever the row's status.
IsStuckWhateverStatus ==
  /\ row.attempts < MAX_TOTAL_ATTEMPTS
  /\ type # "auth_otp"
  /\ row.lastAttemptAt \in {"never", "cooled"}

IsStuck ==
  /\ row.status \in {"QUEUED", "FAILED"}
  /\ row.attempts < MAX_TOTAL_ATTEMPTS
  /\ type # "auth_otp"
  /\ row.lastAttemptAt \in {"never", "cooled"}

ListStuck(w) ==
  /\ job[w] = Idle
  /\ IsStuck
  /\ job' = [job EXCEPT ![w] = Try(0)]
  /\ overlapped' = (overlapped \/ \E a \in Attempter : job[a] # Idle)
  /\ UNCHANGED <<type, row, resendVars, flags, failures>>

\* RETRY_COOLDOWN_MS go by.
Cool ==
  /\ row.lastAttemptAt = "recent"
  /\ row' = [row EXCEPT !.lastAttemptAt = "cooled"]
  /\ UNCHANGED <<type, job, resendVars, flags, failures, overlapped>>

-----------------------------------------------------------------------------
(* Resend: what becomes of a message it accepted.                          *)

past(m) == {e \in WebhookEvent : <<m, e>> \in happened}

IsOver(m) == past(m) \cap {"delivered", "bounced", "bounced_temporarily", "suppressed", "failed"} # {}

MayHappen(m, e) ==
  \/ e = "suppressed" /\ past(m) = {}
  \/ e \in {"sent", "failed"} /\ ~ IsOver(m)
  \/ e \in {"delivered", "delivery_delayed", "bounced", "bounced_temporarily"}
     /\ "sent" \in past(m) /\ ~ IsOver(m)
  \/ e \in {"opened", "complained"} /\ "delivered" \in past(m)

ResendEvent(m, e) ==
  /\ e \in Happens \ past(m)
  /\ MayHappen(m, e)
  /\ happened' = happened \cup {<<m, e>>}
  /\ due' = due \cup {<<m, e>>}
  /\ UNCHANGED <<type, row, job, messages, flags, failures, overlapped>>

-----------------------------------------------------------------------------
(* EmailWebhookController.handle. Resend repeats a webhook until it is     *)
(* answered 200, in no particular order.                                   *)

\* Mutant: a delay is taken for a delivery.
STATUS_WITH_DELAY_AS_DELIVERY ==
  [sent |-> "SENT", delivered |-> "DELIVERED", delivery_delayed |-> "DELIVERED",
   bounced |-> "BOUNCED", bounced_temporarily |-> "BOUNCED",
   complained |-> "COMPLAINED", suppressed |-> "BOUNCED", failed |-> "FAILED"]

WEBHOOK_EVENT_TO_STATUS ==
  [sent |-> "SENT", delivered |-> "DELIVERED", delivery_delayed |-> "DELAYED",
   bounced |-> "BOUNCED", bounced_temporarily |-> "BOUNCED",
   complained |-> "COMPLAINED", suppressed |-> "BOUNCED", failed |-> "FAILED"]

\* What an event says about the address.
FlagsOf(e) ==
  CASE e \in {"bounced", "suppressed"} -> {"emailBouncedAt"}
    [] e = "complained" -> {"emailComplainedAt"}
    [] OTHER -> {}

\* Mutant: the flag waits for the row to be found.
flagCustomersOfRow(m, e) == flags' = flags \cup (IF row.resendId = m THEN FlagsOf(e) ELSE {})

flagCustomers(m, e) == flags' = flags \cup FlagsOf(e)

UpdateLog(m, e) ==
  row' = IF row.resendId = m /\ e \in DOMAIN WEBHOOK_EVENT_TO_STATUS
         THEN [row EXCEPT !.status = WEBHOOK_EVENT_TO_STATUS[e],
                          !.deliveredAt = @ \/ e = "delivered"]
         ELSE row

\* Answered 200, whether or not a row was found.
Webhook(m, e) ==
  /\ <<m, e>> \in due
  /\ flagCustomers(m, e)
  /\ UpdateLog(m, e)
  /\ due' = due \ {<<m, e>>}
  /\ UNCHANGED <<type, job, messages, happened, failures, overlapped>>

\* Cut short after the customers were flagged, or after all of it, or its
\* answer lost: it comes again.
WebhookUnanswered(m, e) ==
  /\ <<m, e>> \in due
  /\ flagCustomers(m, e)
  /\ UpdateLog(m, e) \/ UNCHANGED row
  /\ UNCHANGED <<type, job, resendVars, failures, overlapped>>

-----------------------------------------------------------------------------
AttemptStep(a) ==
  \/ CountAttempt(a)
  \/ CallAccepted(a)
  \/ CallFails(a)
  \/ RecordSent(a)
  \/ RecordFailed(a)

Next ==
  \/ \E a \in Attempter : AttemptStep(a) \/ Abort(a)
  \/ \E w \in Sweep : ListStuck(w)
  \/ Cool
  \/ \E m \in messages, e \in Happens :
       ResendEvent(m, e) \/ Webhook(m, e) \/ WebhookUnanswered(m, e)

LogSpec == LogInit /\ [][Next]_vars

\* Started attempts go on, the cron starts sweeps, time passes, and Resend
\* repeats a webhook until it is answered.
LogFairness ==
  /\ \A a \in Attempter : WF_vars(AttemptStep(a))
  /\ \A w \in Sweep : WF_vars(ListStuck(w))
  /\ WF_vars(Cool)
  /\ \A e \in Happens : WF_vars(Webhook(logId, e))

FairLogSpec == LogSpec /\ LogFairness

-----------------------------------------------------------------------------
\* What the row claims is what happened: it is never SENT unless Resend has
\* the message, whatever order attempts and webhooks wrote it in, and never
\* delivered, delayed, bounced or complained about unless Resend said so.
ClaimsAreTrue ==
  LET Reported(events) == \E e \in events : <<row.resendId, e>> \in happened
  IN  /\ row.status \notin {"QUEUED", "FAILED"} => row.resendId \in messages
      /\ row.status = "DELAYED" => Reported({"delivery_delayed"})
      /\ row.status = "DELIVERED" \/ row.deliveredAt => Reported({"delivered"})
      /\ row.status = "BOUNCED" => Reported({"bounced", "bounced_temporarily", "suppressed"})
      /\ row.status = "COMPLAINED" => Reported({"complained"})

\* attempt() ends with FAILED whatever the row says by then. An email that
\* was recorded as sent is called failed, and so retried, only if attempts
\* overlapped or Resend reported the failure: crashes, lost answers and late
\* webhooks alone never bring it about.
FailedOverSentNeedsOverlap ==
  row.resendId # null /\ row.status \in {"QUEUED", "FAILED"}
    => overlapped \/ <<logId, "failed">> \in happened

\* MAX_TOTAL_ATTEMPTS is "approximate" (the comment at the constant): each
\* attempter that read the row below the ceiling may add a full round to it,
\* and no more than that.
AttemptsCapped ==
  row.attempts <= MAX_TOTAL_ATTEMPTS - 1 + MAX_IMMEDIATE_ATTEMPTS * Cardinality(Attempter)

\* Once the webhook of a permanent bounce, a suppression or a complaint is
\* answered, the address is flagged, even if the webhook came before the row
\* had its resendId or was cut short the first time.
AnsweredMeansFlagged ==
  \A m \in messages, e \in WebhookEvent : <<m, e>> \in happened \ due => FlagsOf(e) \subseteq flags

\* A sign-in code is not sent any more once send() is done with it (ADR
\* 0021): neither attempted nor accepted.
NoLateCode ==
  [][type = "auth_otp" /\ job[Origin] = Idle => UNCHANGED <<row.attempts, messages>>]_vars

\* What the proofs rest on. An attempt that was told "accepted" was; the row
\* names no message Resend does not have; only send() works on a sign-in
\* code; and what the open attempts may still count fits under the ceiling.
AcceptedIsKept ==
  /\ \A a \in Attempter : job[a].pc = "accepted" => logId \in messages
  /\ row.resendId # null => row.resendId \in messages

CodesAreNotSwept == type = "auth_otp" => \A w \in Sweep : job[w] = Idle

\* The rounds that attempters which have begun may still count.
OpenRounds ==
  {r \in Attempter \X Iterations :
     \/ job[r[1]].pc = "try" /\ job[r[1]].i <= r[2]
     \/ job[r[1]].pc = "call" /\ job[r[1]].i < r[2]}

RoundsFit ==
  row.attempts + Cardinality(OpenRounds)
    <= MAX_TOTAL_ATTEMPTS - 1 + MAX_IMMEDIATE_ATTEMPTS * Cardinality(Attempter)

\* Without an overlap one attempt is open at most, and none is once the row
\* is recorded as sent, which no sweep looks for.
AttemptsApart ==
  ~overlapped =>
    /\ \A a, b \in Attempter : job[a] = Idle \/ job[b] = Idle \/ a = b
    /\ row.resendId # null /\ <<logId, "failed">> \notin happened =>
         row.status \notin {"QUEUED", "FAILED"} /\ \A a \in Attempter : job[a] = Idle

LogInv ==
  /\ LogTypeOK /\ AcceptedIsKept /\ CodesAreNotSwept /\ RoundsFit
  /\ ClaimsAreTrue /\ AnsweredMeansFlagged /\ AttemptsApart

\* Every other email comes to rest, through failures at any step: handed to
\* Resend, or given up after MAX_TOTAL_ATTEMPTS.
Settles ==
  type # "auth_otp" =>
    <>[](row.status \in {"QUEUED", "FAILED"} => row.attempts >= MAX_TOTAL_ATTEMPTS)

\* email-status.ts, 4-7: errors "that will never succeed on retry", as
\* opposed to those worth retrying "later via EmailRetryService's sweep". So
\* no sweep takes up an email that failed with one of them. Does not hold.
RefusedNotRetried ==
  [][\A w \in Sweep : ListStuck(w) => row.status # "FAILED" \/ row.lastError # "refused"]_vars

\* ADR 0010: status and lastEvent are "enough to answer 'was this
\* delivered'". Once all is answered and no attempt runs, a delivered
\* message's row has been told so. Does not hold.
DeliveryRecorded ==
  (\A a \in Attempter : job[a] = Idle) /\ due = {} =>
    \A m \in messages : <<m, "delivered">> \in happened => row.deliveredAt
=============================================================================
