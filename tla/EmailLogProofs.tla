--------------------------- MODULE EmailLogProofs ---------------------------
(***************************************************************************)
(* For every number of overlapping sweeps, every set of events and all     *)
(* bounds: LogInv is an invariant of LogSpec, and with it what EmailLog    *)
(* states about the row, the ceiling on attempts and sign-in codes; and    *)
(* only a webhook that comes before its row has the id loses a delivery.   *)
(***************************************************************************)
EXTENDS EmailLog, FiniteSetTheorems, TLAPS

-----------------------------------------------------------------------------
(* Types.                                                                  *)

\* What the pc of a well-typed job says about the rest of it.
LEMMA JobStates ==
  ASSUME NEW j \in JobState
  PROVE  /\ j.pc \in {"idle", "try", "call", "accepted", "failing"}
         /\ j.pc = "idle" => j = Idle
         /\ j.pc \in {"try", "call"} => j.i \in Iterations
         /\ j.pc = "accepted" => j.id = logId
         /\ j.pc = "failing" => j.error \in {"transient", "refused"}
BY DEF JobState, Idle, Try, Calling, Accepted, Failing

\* Every state an attempt can go to is a job state, with the pc it is named for.
LEMMA JobTypes ==
  /\ Idle \in JobState /\ Idle.pc = "idle"
  /\ Accepted(logId) \in JobState /\ Accepted(logId).pc = "accepted"
  /\ Failing("refused") \in JobState /\ Failing("refused").pc = "failing"
  /\ Failing("transient") \in JobState /\ Failing("transient").pc = "failing"
  /\ \A i \in Iterations :
       /\ Try(i) \in JobState /\ Try(i).pc = "try" /\ Try(i).i = i
       /\ Calling(i) \in JobState /\ Calling(i).pc = "call" /\ Calling(i).i = i
       /\ NextTry(i) \in JobState
       /\ \/ NextTry(i) = Try(i + 1) /\ i + 1 \in Iterations
          \/ NextTry(i) = Failing("transient")
<1>1. \A i \in Iterations :
        \/ NextTry(i) = Try(i + 1) /\ i + 1 \in Iterations
        \/ NextTry(i) = Failing("transient")
  BY LogAssumption DEF NextTry, Iterations
<1>2. \A i \in Iterations :
        /\ Try(i) \in JobState /\ Try(i).pc = "try" /\ Try(i).i = i
        /\ Calling(i) \in JobState /\ Calling(i).pc = "call" /\ Calling(i).i = i
  <2> SUFFICES ASSUME NEW i \in Iterations
               PROVE  /\ Try(i) \in JobState /\ Try(i).pc = "try" /\ Try(i).i = i
                      /\ Calling(i) \in JobState /\ Calling(i).pc = "call" /\ Calling(i).i = i
    OBVIOUS
  <2>1. Try(i) \in JobState /\ Calling(i) \in JobState
    BY Zenon DEF JobState
  <2> QED
    BY <2>1 DEF Try, Calling
<1>3. /\ Idle \in JobState /\ Idle.pc = "idle"
      /\ Accepted(logId) \in JobState /\ Accepted(logId).pc = "accepted"
      /\ Failing("refused") \in JobState /\ Failing("refused").pc = "failing"
      /\ Failing("transient") \in JobState /\ Failing("transient").pc = "failing"
  BY DEF JobState, Idle, Accepted, Failing
<1> QED
  BY <1>1, <1>2, <1>3

\* A row just written is well-typed, and attempt 0 can begin.
LEMMA TypeInit == LogInit => LogTypeOK
<1> SUFFICES ASSUME LogInit PROVE LogTypeOK
  OBVIOUS
<1>1. 0 \in Iterations
  BY LogAssumption DEF Iterations
<1>2. job \in [Attempter -> JobState]
  BY <1>1, JobTypes DEF LogInit
<1>3. type \in {"auth_otp", "other"} /\ overlapped \in BOOLEAN
  BY Zenon DEF LogInit
<1> QED
  BY <1>2, <1>3, LogAssumption DEF LogInit, LogTypeOK, EmailStatus

\* What a webhook does to the row keeps its type.
LEMMA UpdateLogTyped ==
  ASSUME LogTypeOK, NEW m, NEW e, UpdateLog(m, e)
  PROVE  /\ row' \in [status : EmailStatus, attempts : Nat, resendId : {null, logId},
                      lastError : {"none", "transient", "refused"},
                      lastAttemptAt : {"never", "recent", "cooled"}, deliveredAt : BOOLEAN]
         /\ row'.attempts = row.attempts /\ row'.resendId = row.resendId
<1> DEFINE answer == row.deliveredAt \/ e = "delivered"
           done == row.resendId = m /\ e \in DOMAIN WEBHOOK_EVENT_TO_STATUS
<1>1. answer \in BOOLEAN
  BY Zenon
<1>2. e \in DOMAIN WEBHOOK_EVENT_TO_STATUS => WEBHOOK_EVENT_TO_STATUS[e] \in EmailStatus
  BY DEF WEBHOOK_EVENT_TO_STATUS, EmailStatus
<1>3. CASE done
  <2>1. row' = [row EXCEPT !.status = WEBHOOK_EVENT_TO_STATUS[e], !.deliveredAt = answer]
    BY <1>3 DEF UpdateLog
  <2> HIDE DEF answer
  <2> QED
    BY <1>1, <1>2, <1>3, <2>1 DEF LogTypeOK
<1>4. CASE ~ done
  BY <1>4 DEF UpdateLog, LogTypeOK
<1> QED
  BY <1>3, <1>4

\* Flags are set from the two there are.
LEMMA FlagsTyped ==
  ASSUME LogTypeOK, NEW m, NEW e, flagCustomers(m, e)
  PROVE  /\ flags' \subseteq {"emailBouncedAt", "emailComplainedAt"}
         /\ flags \cup FlagsOf(e) = flags'
BY DEF LogTypeOK, flagCustomers, FlagsOf

\* Every step keeps the types.
LEMMA TypeStep == LogTypeOK /\ [Next]_vars => LogTypeOK'
<1> SUFFICES ASSUME LogTypeOK, [Next]_vars PROVE LogTypeOK'
  OBVIOUS
<1> USE DEF LogTypeOK
<1>1. ASSUME NEW a \in Attempter, CountAttempt(a) PROVE LogTypeOK'
  <2>1. job[a] \in JobState /\ job[a].i \in Iterations
    BY <1>1, JobStates DEF CountAttempt
  <2>2. Calling(job[a].i) \in JobState
    BY <2>1, JobTypes
  <2> QED
    BY <1>1, <2>2 DEF CountAttempt, resendVars
<1>2. ASSUME NEW a \in Attempter, CallAccepted(a) PROVE LogTypeOK'
  <2>1. job[a].i \in Iterations
    BY <1>2, JobStates DEF CallAccepted
  <2>2. NextTry(job[a].i) \in JobState /\ Accepted(idempotencyKey(a)) \in JobState
    BY <2>1, JobTypes DEF idempotencyKey
  <2> QED
    BY <1>2, <2>2 DEF CallAccepted, idempotencyKey
<1>3. ASSUME NEW a \in Attempter, CallFails(a) PROVE LogTypeOK'
  <2>1. job[a].i \in Iterations
    BY <1>3, JobStates DEF CallFails
  <2>2. NextTry(job[a].i) \in JobState /\ Failing("refused") \in JobState
    BY <2>1, JobTypes
  <2> QED
    BY <1>3, <2>2 DEF CallFails, resendVars
<1>4. ASSUME NEW a \in Attempter, RecordSent(a) PROVE LogTypeOK'
  <2>1. job[a].id = logId
    BY <1>4, JobStates DEF RecordSent
  <2> QED
    BY <1>4, <2>1, JobTypes DEF RecordSent, resendVars, EmailStatus
<1>5. ASSUME NEW a \in Attempter, RecordFailed(a) PROVE LogTypeOK'
  <2>1. job[a].error \in {"transient", "refused"}
    BY <1>5, JobStates DEF RecordFailed
  <2> QED
    BY <1>5, <2>1, JobTypes DEF RecordFailed, resendVars, EmailStatus
<1>6. ASSUME NEW a \in Attempter, Abort(a) PROVE LogTypeOK'
  BY <1>6, JobTypes, LogAssumption DEF Abort, resendVars
<1>7. ASSUME NEW w \in Sweep, ListStuck(w) PROVE LogTypeOK'
  <2>1. 0 \in Iterations
    BY LogAssumption DEF Iterations
  <2>2. overlapped' \in BOOLEAN
    BY <1>7, Zenon DEF ListStuck
  <2> QED
    BY <1>7, <2>1, <2>2, JobTypes DEF ListStuck, resendVars, Attempter
<1>8. ASSUME Cool PROVE LogTypeOK'
  BY <1>8 DEF Cool, resendVars
<1>9. ASSUME NEW m \in messages, NEW e \in Happens, ResendEvent(m, e) PROVE LogTypeOK'
  <2>1. e \in WebhookEvent
    BY LogAssumption
  <2> QED
    BY <1>9, <2>1 DEF ResendEvent
<1>10. ASSUME NEW m \in messages, NEW e \in Happens, Webhook(m, e) PROVE LogTypeOK'
  BY <1>10, UpdateLogTyped, FlagsTyped DEF Webhook
<1>11. ASSUME NEW m \in messages, NEW e \in Happens, WebhookUnanswered(m, e) PROVE LogTypeOK'
  BY <1>11, UpdateLogTyped, FlagsTyped DEF WebhookUnanswered, resendVars
<1>12. CASE UNCHANGED vars
  BY <1>12 DEF vars
<1> QED
  BY <1>1, <1>2, <1>3, <1>4, <1>5, <1>6, <1>7, <1>8, <1>9, <1>10, <1>11, <1>12
     DEF Next, AttemptStep

\* A row, its attempts and Resend's side of it stay well-typed.
THEOREM LogTypes == LogSpec => []LogTypeOK
BY TypeInit, TypeStep, PTL DEF LogSpec

-----------------------------------------------------------------------------
(* What the row claims.                                                    *)

\* An attempt that was told "accepted", and a row that names a message, are
\* right: Resend has the message and never gives it up.
LEMMA KeptStep == LogTypeOK /\ AcceptedIsKept /\ [Next]_vars => AcceptedIsKept'
<1> SUFFICES ASSUME LogTypeOK, AcceptedIsKept, [Next]_vars PROVE AcceptedIsKept'
  OBVIOUS
<1> USE DEF LogTypeOK, AcceptedIsKept
<1>1. ASSUME NEW a \in Attempter, CountAttempt(a) PROVE AcceptedIsKept'
  <2>1. job[a].i \in Iterations
    BY <1>1, JobStates DEF CountAttempt
  <2>2. Calling(job[a].i).pc = "call"
    BY <2>1, JobTypes
  <2>3. row'.resendId = row.resendId /\ messages' = messages
    BY <1>1 DEF CountAttempt, resendVars
  <2> QED
    BY <1>1, <2>2, <2>3 DEF CountAttempt
<1>2. ASSUME NEW a \in Attempter, CallAccepted(a) PROVE AcceptedIsKept'
  BY <1>2 DEF CallAccepted, idempotencyKey
<1>3. ASSUME NEW a \in Attempter, CallFails(a) PROVE AcceptedIsKept'
  <2>1. job[a].i \in Iterations
    BY <1>3, JobStates DEF CallFails
  <2>2. NextTry(job[a].i).pc # "accepted" /\ Failing("refused").pc # "accepted"
    BY <2>1, JobTypes
  <2> QED
    BY <1>3, <2>2 DEF CallFails, resendVars
<1>4. ASSUME NEW a \in Attempter, RecordSent(a) PROVE AcceptedIsKept'
  <2>1. job[a].id = logId /\ logId \in messages
    BY <1>4, JobStates DEF RecordSent
  <2>2. row'.resendId = logId
    BY <1>4, <2>1 DEF RecordSent
  <2> QED
    BY <1>4, <2>1, <2>2, JobTypes DEF RecordSent, resendVars
<1>5. ASSUME NEW a \in Attempter, RecordFailed(a) PROVE AcceptedIsKept'
  <2>1. row'.resendId = row.resendId
    BY <1>5 DEF RecordFailed
  <2> QED
    BY <1>5, <2>1, JobTypes DEF RecordFailed, resendVars
<1>6. ASSUME NEW a \in Attempter, Abort(a) PROVE AcceptedIsKept'
  BY <1>6, JobTypes DEF Abort, resendVars
<1>7. ASSUME NEW w \in Sweep, ListStuck(w) PROVE AcceptedIsKept'
  <2>1. Try(0).pc = "try"
    BY DEF Try
  <2> QED
    BY <1>7, <2>1 DEF ListStuck, resendVars
<1>8. ASSUME Cool PROVE AcceptedIsKept'
  <2>1. row'.resendId = row.resendId
    BY <1>8 DEF Cool
  <2> QED
    BY <1>8, <2>1 DEF Cool, resendVars
<1>9. ASSUME NEW m \in messages, NEW e \in Happens, ResendEvent(m, e) PROVE AcceptedIsKept'
  BY <1>9 DEF ResendEvent
<1>10. ASSUME NEW m \in messages, NEW e \in Happens, Webhook(m, e) PROVE AcceptedIsKept'
  BY <1>10, UpdateLogTyped DEF Webhook
<1>11. ASSUME NEW m \in messages, NEW e \in Happens, WebhookUnanswered(m, e) PROVE AcceptedIsKept'
  BY <1>11, UpdateLogTyped DEF WebhookUnanswered, resendVars
<1>12. CASE UNCHANGED vars
  BY <1>12 DEF vars
<1> QED
  BY <1>1, <1>2, <1>3, <1>4, <1>5, <1>6, <1>7, <1>8, <1>9, <1>10, <1>11, <1>12
     DEF Next, AttemptStep

\* A claim stays true while Resend forgets nothing.
LEMMA ClaimsLast ==
  ASSUME ClaimsAreTrue,
         row'.status = row.status, row'.resendId = row.resendId,
         row'.deliveredAt = row.deliveredAt,
         messages \subseteq messages', happened \subseteq happened'
  PROVE  ClaimsAreTrue'
BY DEF ClaimsAreTrue

\* A webhook makes a row claim what its event says, of the message it names.
LEMMA UpdateLogTrue ==
  ASSUME LogTypeOK, ClaimsAreTrue, NEW m \in messages, NEW e, <<m, e>> \in happened,
         UpdateLog(m, e), messages' = messages, happened' = happened
  PROVE  ClaimsAreTrue'
<1> DEFINE answer == row.deliveredAt \/ e = "delivered"
           done == row.resendId = m /\ e \in DOMAIN WEBHOOK_EVENT_TO_STATUS
<1>1. CASE done
  <2>1. row' = [row EXCEPT !.status = WEBHOOK_EVENT_TO_STATUS[e], !.deliveredAt = answer]
    BY <1>1 DEF UpdateLog
  <2>2. row'.status = WEBHOOK_EVENT_TO_STATUS[e] /\ row'.resendId = m
    BY <1>1, <2>1 DEF LogTypeOK
  <2>3. row'.deliveredAt => row.deliveredAt \/ e = "delivered"
    <3>1. row'.deliveredAt = answer
      <4> HIDE DEF answer
      <4> QED
        BY <2>1 DEF LogTypeOK
    <3> QED
      BY <3>1, Zenon
  <2>4. row.deliveredAt => <<m, "delivered">> \in happened
    BY <1>1 DEF ClaimsAreTrue
  <2>5. row'.deliveredAt => <<m, "delivered">> \in happened
    BY <2>3, <2>4
  <2>6. /\ row'.status = "DELAYED" => e = "delivery_delayed"
        /\ row'.status = "DELIVERED" => e = "delivered"
        /\ row'.status = "BOUNCED" => e \in {"bounced", "bounced_temporarily", "suppressed"}
        /\ row'.status = "COMPLAINED" => e = "complained"
    BY <1>1, <2>2 DEF WEBHOOK_EVENT_TO_STATUS
  <2> QED
    BY <2>2, <2>5, <2>6 DEF ClaimsAreTrue
<1>2. CASE ~ done
  BY <1>2 DEF UpdateLog, ClaimsAreTrue
<1> QED
  BY <1>1, <1>2

\* No step makes a claim that is not true.
LEMMA ClaimsStep ==
  LogTypeOK /\ AcceptedIsKept /\ ClaimsAreTrue /\ [Next]_vars => ClaimsAreTrue'
<1> SUFFICES ASSUME LogTypeOK, AcceptedIsKept, ClaimsAreTrue, [Next]_vars PROVE ClaimsAreTrue'
  OBVIOUS
<1> USE DEF LogTypeOK
<1>1. ASSUME NEW a \in Attempter, CountAttempt(a) PROVE ClaimsAreTrue'
  <2>1. /\ row'.status = row.status /\ row'.resendId = row.resendId
        /\ row'.deliveredAt = row.deliveredAt
    BY <1>1 DEF CountAttempt
  <2> QED
    BY <1>1, <2>1, ClaimsLast DEF CountAttempt, resendVars
<1>2. ASSUME NEW a \in Attempter, CallAccepted(a) PROVE ClaimsAreTrue'
  BY <1>2, ClaimsLast DEF CallAccepted
<1>3. ASSUME NEW a \in Attempter, CallFails(a) PROVE ClaimsAreTrue'
  BY <1>3, ClaimsLast DEF CallFails, resendVars
<1>4. ASSUME NEW a \in Attempter, RecordSent(a) PROVE ClaimsAreTrue'
  <2>1. job[a].id = logId /\ logId \in messages
    BY <1>4, JobStates DEF RecordSent, AcceptedIsKept
  <2>2. row'.status = "SENT" /\ row'.resendId = logId /\ row'.deliveredAt = row.deliveredAt
    BY <1>4, <2>1 DEF RecordSent
  <2>3. row.deliveredAt => <<logId, "delivered">> \in happened
    BY DEF ClaimsAreTrue
  <2>4. messages' = messages /\ happened' = happened
    BY <1>4 DEF RecordSent, resendVars
  <2> QED
    BY <2>1, <2>2, <2>3, <2>4 DEF ClaimsAreTrue
<1>5. ASSUME NEW a \in Attempter, RecordFailed(a) PROVE ClaimsAreTrue'
  <2>1. row'.status = "FAILED" /\ row'.resendId = row.resendId /\ row'.deliveredAt = row.deliveredAt
    BY <1>5 DEF RecordFailed
  <2>2. messages' = messages /\ happened' = happened
    BY <1>5 DEF RecordFailed, resendVars
  <2> QED
    BY <2>1, <2>2 DEF ClaimsAreTrue
<1>6. ASSUME NEW a \in Attempter, Abort(a) PROVE ClaimsAreTrue'
  BY <1>6, ClaimsLast DEF Abort, resendVars
<1>7. ASSUME NEW w \in Sweep, ListStuck(w) PROVE ClaimsAreTrue'
  BY <1>7, ClaimsLast DEF ListStuck, resendVars
<1>8. ASSUME Cool PROVE ClaimsAreTrue'
  <2>1. /\ row'.status = row.status /\ row'.resendId = row.resendId
        /\ row'.deliveredAt = row.deliveredAt
    BY <1>8 DEF Cool
  <2> QED
    BY <1>8, <2>1, ClaimsLast DEF Cool, resendVars
<1>9. ASSUME NEW m \in messages, NEW e \in Happens, ResendEvent(m, e) PROVE ClaimsAreTrue'
  BY <1>9, ClaimsLast DEF ResendEvent
<1>10. ASSUME NEW m \in messages, NEW e \in Happens, Webhook(m, e) PROVE ClaimsAreTrue'
  BY <1>10, UpdateLogTrue DEF Webhook
<1>11. ASSUME NEW m \in messages, NEW e \in Happens, WebhookUnanswered(m, e) PROVE ClaimsAreTrue'
  BY <1>11, UpdateLogTrue, ClaimsLast DEF WebhookUnanswered, resendVars
<1>12. CASE UNCHANGED vars
  BY <1>12, ClaimsLast DEF vars
<1> QED
  BY <1>1, <1>2, <1>3, <1>4, <1>5, <1>6, <1>7, <1>8, <1>9, <1>10, <1>11, <1>12
     DEF Next, AttemptStep

\* Only a webhook answers an event, and it has flagged the customers before.
LEMMA FlaggedStep == LogTypeOK /\ AnsweredMeansFlagged /\ [Next]_vars => AnsweredMeansFlagged'
<1> SUFFICES ASSUME LogTypeOK, AnsweredMeansFlagged, [Next]_vars PROVE AnsweredMeansFlagged'
  OBVIOUS
<1>1. CASE UNCHANGED <<happened, due, flags>>
  BY <1>1 DEF AnsweredMeansFlagged, LogTypeOK
<1>2. ASSUME NEW m \in messages, NEW e \in Happens, ResendEvent(m, e) PROVE AnsweredMeansFlagged'
  BY <1>2 DEF ResendEvent, AnsweredMeansFlagged
<1>3. ASSUME NEW m \in messages, NEW e \in Happens, Webhook(m, e) PROVE AnsweredMeansFlagged'
  <2>1. flags' = flags \cup FlagsOf(e) /\ happened' \ due' \subseteq (happened \ due) \cup {<<m, e>>}
    BY <1>3 DEF Webhook, flagCustomers
  <2> QED
    BY <1>3, <2>1 DEF Webhook, AnsweredMeansFlagged
<1>4. ASSUME NEW m \in messages, NEW e \in Happens, WebhookUnanswered(m, e) PROVE AnsweredMeansFlagged'
  BY <1>4 DEF WebhookUnanswered, flagCustomers, resendVars, AnsweredMeansFlagged
<1>5. \/ UNCHANGED <<happened, due, flags>>
      \/ \E m \in messages, e \in Happens :
           ResendEvent(m, e) \/ Webhook(m, e) \/ WebhookUnanswered(m, e)
  BY Zenon DEF Next, AttemptStep, CountAttempt, CallAccepted, CallFails, RecordSent, RecordFailed,
     Abort, ListStuck, Cool, resendVars, vars
<1> QED
  BY <1>1, <1>2, <1>3, <1>4, <1>5

-----------------------------------------------------------------------------
(* Sign-in codes.                                                          *)

\* The sweeps leave sign-in codes alone.
LEMMA CodesStep == LogTypeOK /\ CodesAreNotSwept /\ [Next]_vars => CodesAreNotSwept'
<1> SUFFICES ASSUME LogTypeOK, CodesAreNotSwept, [Next]_vars, type' = "auth_otp", NEW w \in Sweep
             PROVE  job'[w] = Idle
  BY DEF CodesAreNotSwept
<1>1. type' = type
  BY Zenon DEF Next, AttemptStep, CountAttempt, CallAccepted, CallFails, RecordSent, RecordFailed,
         Abort, ListStuck, Cool, ResendEvent, Webhook, WebhookUnanswered, vars
<1>2. job[w] = Idle /\ Idle.pc = "idle" /\ w \in Attempter
  BY <1>1, JobTypes DEF CodesAreNotSwept, Attempter
<1>3. ASSUME NEW a \in Attempter, AttemptStep(a) \/ Abort(a) PROVE job'[w] = Idle
  <2>1. a # w
    BY <1>2, <1>3 DEF AttemptStep, CountAttempt, CallAccepted, CallFails, RecordSent, RecordFailed, Abort
  <2>2. \E j : job' = [job EXCEPT ![a] = j]
    BY <1>3 DEF AttemptStep, CountAttempt, CallAccepted, CallFails, RecordSent, RecordFailed, Abort
  <2> QED
    BY <1>2, <2>1, <2>2 DEF LogTypeOK
<1>4. ASSUME NEW v \in Sweep, ListStuck(v) PROVE job'[w] = Idle
  BY <1>1, <1>4 DEF ListStuck, IsStuck
<1>5. job' = job => job'[w] = Idle
  BY <1>2
<1> QED
  BY <1>3, <1>4, <1>5 DEF Next, Cool, ResendEvent, Webhook, WebhookUnanswered, vars

\* Once send() is done with a sign-in code, no step counts an attempt at it
\* or has it accepted.
LEMMA CodeIsDone ==
  ASSUME LogTypeOK, CodesAreNotSwept, [Next]_vars, type = "auth_otp", job[Origin] = Idle
  PROVE  UNCHANGED <<row.attempts, messages>>
<1>1. \A a \in Attempter : job[a].pc = "idle"
  BY JobTypes DEF CodesAreNotSwept, Attempter
<1>2. ASSUME NEW a \in Attempter, AttemptStep(a) PROVE FALSE
  BY <1>1, <1>2 DEF AttemptStep, CountAttempt, CallAccepted, CallFails, RecordSent, RecordFailed
<1>3. ASSUME Cool PROVE UNCHANGED <<row.attempts, messages>>
  <2>1. row'.attempts = row.attempts
    BY <1>3 DEF Cool, LogTypeOK
  <2> QED
    BY <1>3, <2>1 DEF Cool, resendVars
<1>4. ASSUME NEW m \in messages, NEW e \in Happens, Webhook(m, e) \/ WebhookUnanswered(m, e)
      PROVE  UNCHANGED <<row.attempts, messages>>
  BY <1>4, UpdateLogTyped DEF Webhook, WebhookUnanswered, resendVars
<1> QED
  BY <1>2, <1>3, <1>4 DEF Next, Abort, ListStuck, ResendEvent, resendVars, vars

-----------------------------------------------------------------------------
(* The ceiling on attempts.                                                *)

Rounds == Attempter \X Iterations

\* There are MAX_IMMEDIATE_ATTEMPTS rounds for each attempter.
LEMMA RoundsCount ==
  /\ IsFiniteSet(Rounds)
  /\ Cardinality(Rounds) = MAX_IMMEDIATE_ATTEMPTS * Cardinality(Attempter)
  /\ Cardinality(Attempter) \in Nat \ {0}
  /\ \A R \in SUBSET Rounds :
       IsFiniteSet(R) /\ Cardinality(R) \in Nat /\ Cardinality(R) <= Cardinality(Rounds)
<1>1. IsFiniteSet(Attempter) /\ Cardinality(Attempter) \in Nat \ {0}
  <2>1. IsFiniteSet(Sweep) /\ Cardinality(Sweep) \in Nat
    BY LogAssumption, FS_CardinalityType
  <2>2. IsFiniteSet(Sweep \cup {Origin}) /\ Cardinality(Sweep \cup {Origin}) = Cardinality(Sweep) + 1
    BY <2>1, LogAssumption, FS_AddElement
  <2> QED
    BY <2>1, <2>2 DEF Attempter
<1>2. IsFiniteSet(Iterations) /\ Cardinality(Iterations) = MAX_IMMEDIATE_ATTEMPTS
  <2>1. IsFiniteSet(0 .. MAX_IMMEDIATE_ATTEMPTS - 1)
        /\ Cardinality(0 .. MAX_IMMEDIATE_ATTEMPTS - 1)
             = IF 0 > MAX_IMMEDIATE_ATTEMPTS - 1 THEN 0 ELSE MAX_IMMEDIATE_ATTEMPTS - 1 - 0 + 1
    BY LogAssumption, FS_Interval
  <2> QED
    BY <2>1, LogAssumption DEF Iterations
<1>3. IsFiniteSet(Rounds) /\ Cardinality(Rounds) = Cardinality(Attempter) * Cardinality(Iterations)
  BY <1>1, <1>2, FS_Product DEF Rounds
<1>4. Cardinality(Rounds) = MAX_IMMEDIATE_ATTEMPTS * Cardinality(Attempter)
  BY <1>1, <1>2, <1>3, LogAssumption
<1>5. \A R \in SUBSET Rounds :
        IsFiniteSet(R) /\ Cardinality(R) \in Nat /\ Cardinality(R) <= Cardinality(Rounds)
  BY <1>3, FS_Subset, FS_CardinalityType
<1> QED
  BY <1>1, <1>3, <1>4, <1>5

\* As long as nothing is counted, fewer open rounds fit where more did.
LEMMA FewerRoundsFit ==
  ASSUME LogTypeOK, RoundsFit, row'.attempts = row.attempts, OpenRounds' \subseteq OpenRounds
  PROVE  RoundsFit'
<1>1. OpenRounds \in SUBSET Rounds
  BY DEF OpenRounds, Rounds
<1>2. IsFiniteSet(OpenRounds) /\ Cardinality(OpenRounds) \in Nat
  BY <1>1, RoundsCount
<1>3. Cardinality(OpenRounds') <= Cardinality(OpenRounds) /\ Cardinality(OpenRounds') \in Nat
  BY <1>2, FS_Subset, FS_CardinalityType
<1>4. row.attempts \in Nat
  BY DEF LogTypeOK
<1>5. /\ MAX_TOTAL_ATTEMPTS - 1 + MAX_IMMEDIATE_ATTEMPTS * Cardinality(Attempter) \in Int
  BY RoundsCount, LogAssumption
<1> QED
  BY <1>2, <1>3, <1>4, <1>5 DEF RoundsFit

\* A job that ends or goes on to a later round opens no round.
LEMMA NoNewRounds ==
  ASSUME LogTypeOK, NEW a \in Attempter, NEW j, job' = [job EXCEPT ![a] = j],
         \/ j.pc \notin {"try", "call"}
         \/ job[a].pc = "call" /\ j.pc = "try" /\ job[a].i < j.i
            /\ job[a].i \in Iterations /\ j.i \in Iterations
  PROVE  OpenRounds' \subseteq OpenRounds
<1>1. \A r \in Rounds : r[1] \in Attempter /\ r[2] \in Int
  BY LogAssumption DEF Rounds, Iterations
<1>2. \A b \in Attempter : job'[b] = IF b = a THEN j ELSE job[b]
  BY DEF LogTypeOK
<1>3. ASSUME NEW r \in Rounds, r \in OpenRounds' PROVE r \in OpenRounds
  <2>1. CASE r[1] # a
    BY <1>1, <1>2, <1>3, <2>1 DEF OpenRounds, Rounds
  <2>2. CASE r[1] = a
    BY <1>1, <1>2, <1>3, <2>2, LogAssumption DEF OpenRounds, Rounds, Iterations
  <2> QED
    BY <2>1, <2>2
<1> QED
  BY <1>3 DEF OpenRounds, Rounds

\* Counting an attempt closes its round.
LEMMA CountClosesRound ==
  ASSUME LogTypeOK, RoundsFit, NEW a \in Attempter, CountAttempt(a)
  PROVE  RoundsFit'
<1> DEFINE r == <<a, job[a].i>>
<1>1. job[a].pc = "try" /\ job[a].i \in Iterations
  BY JobStates DEF CountAttempt, LogTypeOK
<1>11. \A i \in Iterations : i \in Int
  BY LogAssumption DEF Iterations
<1>12. \A i, k \in Int : i <= i /\ (i < k => i <= k /\ i # k)
  OBVIOUS
<1>2. Calling(job[a].i).pc = "call" /\ Calling(job[a].i).i = job[a].i
  BY <1>1, JobTypes
<1>3. \A b \in Attempter : job'[b] = IF b = a THEN Calling(job[a].i) ELSE job[b]
  BY DEF CountAttempt, LogTypeOK
<1>4. r \in OpenRounds
  <2>1. job[a].i <= job[a].i
    BY <1>1, <1>11, <1>12
  <2>2. r \in Attempter \X Iterations /\ r[1] = a /\ r[2] = job[a].i
    BY <1>1
  <2> QED
    BY <1>1, <2>1, <2>2 DEF OpenRounds
<1>5. OpenRounds' \subseteq OpenRounds \ {r}
  <2>1. ASSUME NEW b \in Attempter, NEW k \in Iterations, <<b, k>> \in OpenRounds'
        PROVE  <<b, k>> \in OpenRounds \ {r}
    <3>1. CASE b = a
      <4>1. job[a].i < k
        BY <1>2, <1>3, <2>1, <3>1 DEF OpenRounds
      <4>2. job[a].i <= k /\ job[a].i # k
        BY <1>1, <1>11, <1>12, <4>1
      <4> QED
        BY <1>1, <3>1, <4>2 DEF OpenRounds
    <3>2. CASE b # a
      <4>1. job'[b] = job[b]
        BY <1>3, <3>2
      <4> QED
        BY <2>1, <3>2, <4>1 DEF OpenRounds
    <3> QED
      BY <3>1, <3>2
  <2> QED
    BY <2>1 DEF OpenRounds
<1>6. IsFiniteSet(OpenRounds) /\ Cardinality(OpenRounds) \in Nat
  BY RoundsCount DEF OpenRounds, Rounds
<1>7. IsFiniteSet(OpenRounds \ {r}) /\ Cardinality(OpenRounds \ {r}) = Cardinality(OpenRounds) - 1
  BY <1>4, <1>6, FS_RemoveElement
<1>8. Cardinality(OpenRounds') <= Cardinality(OpenRounds \ {r}) /\ Cardinality(OpenRounds') \in Nat
  BY <1>5, <1>7, FS_Subset, FS_CardinalityType
<1>9. row'.attempts = row.attempts + 1 /\ row.attempts \in Nat
  BY DEF CountAttempt, LogTypeOK
<1>10. MAX_TOTAL_ATTEMPTS - 1 + MAX_IMMEDIATE_ATTEMPTS * Cardinality(Attempter) \in Int
  BY RoundsCount, LogAssumption
<1> HIDE DEF r
<1> QED
  BY <1>6, <1>7, <1>8, <1>9, <1>10 DEF RoundsFit

\* A sweep opens its rounds below MAX_TOTAL_ATTEMPTS, where all there can be
\* still fit.
LEMMA SweepOpensRounds ==
  ASSUME LogTypeOK, NEW w \in Sweep, ListStuck(w)
  PROVE  RoundsFit'
<1>1. row' = row /\ row.attempts \in Nat /\ row.attempts < MAX_TOTAL_ATTEMPTS
  BY DEF ListStuck, IsStuck, LogTypeOK
<1>2. OpenRounds' \in SUBSET Rounds
  BY DEF OpenRounds, Rounds
<1>3. /\ Cardinality(OpenRounds') \in Nat
      /\ Cardinality(OpenRounds') <= MAX_IMMEDIATE_ATTEMPTS * Cardinality(Attempter)
  BY <1>2, RoundsCount
<1>4. MAX_IMMEDIATE_ATTEMPTS * Cardinality(Attempter) \in Int
  BY RoundsCount, LogAssumption
<1> QED
  BY <1>1, <1>3, <1>4, LogAssumption DEF RoundsFit

\* Every step keeps what is open under the ceiling.
LEMMA RoundsStep == LogTypeOK /\ RoundsFit /\ [Next]_vars => RoundsFit'
<1> SUFFICES ASSUME LogTypeOK, RoundsFit, [Next]_vars PROVE RoundsFit'
  OBVIOUS
<1>1. ASSUME NEW a \in Attempter, CountAttempt(a) PROVE RoundsFit'
  BY <1>1, CountClosesRound
<1>2. ASSUME NEW a \in Attempter, CallAccepted(a) \/ CallFails(a) PROVE RoundsFit'
  <2>1. job[a].pc = "call" /\ job[a].i \in Iterations /\ row' = row
    BY <1>2, JobStates DEF CallAccepted, CallFails, LogTypeOK
  <2>2. PICK j \in {Accepted(logId), NextTry(job[a].i), Failing("refused")} :
          job' = [job EXCEPT ![a] = j]
    BY <1>2 DEF CallAccepted, CallFails, idempotencyKey
  <2>3. CASE j = NextTry(job[a].i) /\ NextTry(job[a].i) = Try(job[a].i + 1)
                                  /\ job[a].i + 1 \in Iterations
    <3>1. j.pc = "try" /\ j.i = job[a].i + 1
      BY <2>3 DEF Try
    <3>2. job[a].i < j.i
      <4>1. \A i \in Iterations : i < i + 1
        BY LogAssumption DEF Iterations
      <4> QED
        BY <2>1, <3>1, <4>1
    <3>3. OpenRounds' \subseteq OpenRounds
      BY <2>1, <2>2, <2>3, <3>1, <3>2, NoNewRounds
    <3> QED
      BY <2>1, <3>3, FewerRoundsFit
  <2>4. CASE j.pc \notin {"try", "call"}
    BY <2>1, <2>2, <2>4, NoNewRounds, FewerRoundsFit
  <2> QED
    BY <2>1, <2>2, <2>3, <2>4, JobTypes
<1>3. ASSUME NEW a \in Attempter, RecordSent(a) \/ RecordFailed(a) \/ Abort(a) PROVE RoundsFit'
  <2>1. job' = [job EXCEPT ![a] = Idle]
    BY <1>3 DEF RecordSent, RecordFailed, Abort
  <2>2. row'.attempts = row.attempts
    <3>1. CASE RecordSent(a)
      BY <3>1 DEF RecordSent, LogTypeOK
    <3>2. CASE RecordFailed(a)
      BY <3>2 DEF RecordFailed, LogTypeOK
    <3>3. CASE Abort(a)
      BY <3>3 DEF Abort
    <3> QED
      BY <1>3, <3>1, <3>2, <3>3
  <2> QED
    BY <2>1, <2>2, JobTypes, NoNewRounds, FewerRoundsFit
<1>4. ASSUME NEW w \in Sweep, ListStuck(w) PROVE RoundsFit'
  BY <1>4, SweepOpensRounds
<1>5. ASSUME row'.attempts = row.attempts, job' = job PROVE RoundsFit'
  BY <1>5, FewerRoundsFit DEF OpenRounds
<1>6. Cool => row'.attempts = row.attempts /\ job' = job
  BY DEF Cool, LogTypeOK
<1>7. ASSUME NEW m \in messages, NEW e \in Happens,
             ResendEvent(m, e) \/ Webhook(m, e) \/ WebhookUnanswered(m, e)
      PROVE  row'.attempts = row.attempts /\ job' = job
  BY <1>7, UpdateLogTyped DEF ResendEvent, Webhook, WebhookUnanswered
<1> QED
  BY <1>1, <1>2, <1>3, <1>4, <1>5, <1>6, <1>7 DEF Next, AttemptStep, vars

-----------------------------------------------------------------------------
(* Attempts that do not overlap.                                           *)

\* As long as attempts do not overlap, one that records "accepted" is the
\* last: nobody is left to write FAILED, and no sweep finds the row.
LEMMA ApartStep == LogTypeOK /\ AttemptsApart /\ [Next]_vars => AttemptsApart'
<1> SUFFICES ASSUME LogTypeOK, AttemptsApart, [Next]_vars, ~overlapped' PROVE AttemptsApart'
  BY DEF AttemptsApart
<1> DEFINE Alone == \A a, b \in Attempter : job[a] = Idle \/ job[b] = Idle \/ a = b
           Sent == row.resendId # null /\ <<logId, "failed">> \notin happened
           AtRest == row.status \notin {"QUEUED", "FAILED"} /\ \A a \in Attempter : job[a] = Idle
<1>1. ~overlapped
  BY Zenon DEF Next, AttemptStep, CountAttempt, CallAccepted, CallFails, RecordSent, RecordFailed,
     Abort, ListStuck, Cool, ResendEvent, Webhook, WebhookUnanswered, vars
<1>2. Alone /\ (Sent => AtRest)
  BY <1>1 DEF AttemptsApart
<1>3. SUFFICES Alone' /\ (Sent' => AtRest')
  BY DEF AttemptsApart
<1>4. ASSUME NEW a \in Attempter, job[a] # Idle, NEW j, job' = [job EXCEPT ![a] = j] PROVE Alone'
  <2>1. \A b \in Attempter : b # a => job'[b] = Idle
    BY <1>2, <1>4 DEF LogTypeOK
  <2> QED
    BY <2>1
<1>5. ASSUME NEW a \in Attempter, job[a] # Idle, row'.resendId = row.resendId,
             happened \subseteq happened'
      PROVE  Sent' => AtRest'
  BY <1>2, <1>5
<1>6. ASSUME NEW a \in Attempter, CountAttempt(a) \/ CallAccepted(a) \/ CallFails(a)
                                 \/ RecordFailed(a) \/ Abort(a)
      PROVE  Alone' /\ (Sent' => AtRest')
  <2>1. job[a] # Idle
    BY <1>6, JobTypes DEF CountAttempt, CallAccepted, CallFails, RecordFailed, Abort
  <2>2. \E j : job' = [job EXCEPT ![a] = j]
    BY <1>6 DEF CountAttempt, CallAccepted, CallFails, RecordFailed, Abort
  <2>3. happened' = happened
    BY <1>6 DEF CountAttempt, CallAccepted, CallFails, RecordFailed, Abort, resendVars
  <2>4. row'.resendId = row.resendId
    BY <1>6 DEF CountAttempt, CallAccepted, CallFails, RecordFailed, Abort, LogTypeOK
  <2> QED
    BY <1>4, <1>5, <2>1, <2>2, <2>3, <2>4
<1>7. ASSUME NEW a \in Attempter, RecordSent(a) PROVE Alone' /\ (Sent' => AtRest')
  <2>1. job[a] # Idle /\ job' = [job EXCEPT ![a] = Idle]
    BY <1>7, JobTypes DEF RecordSent
  <2>2. \A b \in Attempter : job'[b] = Idle
    BY <1>2, <2>1 DEF LogTypeOK
  <2>3. row'.status = "SENT"
    BY <1>7 DEF RecordSent, LogTypeOK
  <2> QED
    BY <2>2, <2>3
<1>8. ASSUME NEW w \in Sweep, ListStuck(w) PROVE Alone' /\ (Sent' => AtRest')
  <2>1. \A a \in Attempter : job[a] = Idle
    BY <1>8, Zenon DEF ListStuck
  <2>2. \A a \in Attempter : a # w => job'[a] = Idle
    BY <1>8, <2>1 DEF ListStuck, LogTypeOK
  <2>3. ~Sent'
    BY <1>2, <1>8 DEF ListStuck, IsStuck, resendVars
  <2> QED
    BY <2>2, <2>3
<1>9. ASSUME job' = job, row'.resendId = row.resendId, row'.status = row.status,
             happened \subseteq happened'
      PROVE  Alone' /\ (Sent' => AtRest')
  BY <1>2, <1>9
<1>10. CASE Cool
  BY <1>9, <1>10 DEF Cool, resendVars, LogTypeOK
<1>11. ASSUME NEW m \in messages, NEW e \in Happens, ResendEvent(m, e)
       PROVE  Alone' /\ (Sent' => AtRest')
  BY <1>9, <1>11 DEF ResendEvent
<1>12. ASSUME NEW m \in messages, NEW e \in Happens, <<m, e>> \in due, UpdateLog(m, e),
              UNCHANGED <<job, happened>>
       PROVE  Alone' /\ (Sent' => AtRest')
  <2>1. m = logId /\ <<m, e>> \in happened /\ row'.resendId = row.resendId
    BY <1>12, UpdateLogTyped DEF LogTypeOK
  <2>2. \/ row' = row
        \/ e \in DOMAIN WEBHOOK_EVENT_TO_STATUS /\ row'.status = WEBHOOK_EVENT_TO_STATUS[e]
    BY <1>12 DEF UpdateLog, LogTypeOK
  <2>3. e # "failed" => row'.status \in {row.status} \cup (EmailStatus \ {"QUEUED", "FAILED"})
    BY <2>2 DEF WEBHOOK_EVENT_TO_STATUS, EmailStatus
  <2> QED
    BY <1>2, <1>12, <2>1, <2>3
<1>13. ASSUME NEW m \in messages, NEW e \in Happens, Webhook(m, e)
       PROVE  Alone' /\ (Sent' => AtRest')
  BY <1>12, <1>13 DEF Webhook
<1>14. ASSUME NEW m \in messages, NEW e \in Happens, WebhookUnanswered(m, e)
       PROVE  Alone' /\ (Sent' => AtRest')
  BY <1>9, <1>12, <1>14 DEF WebhookUnanswered, resendVars
<1>15. CASE UNCHANGED vars
  BY <1>9, <1>15 DEF vars
<1> QED
  BY <1>6, <1>7, <1>8, <1>10, <1>11, <1>13, <1>14, <1>15 DEF Next, AttemptStep

-----------------------------------------------------------------------------
(* The invariant and what follows from it.                                 *)

\* A row just written satisfies LogInv: nothing is claimed, one round is open.
LEMMA LogInvInit == LogInit => LogInv
<1> SUFFICES ASSUME LogInit PROVE LogInv
  OBVIOUS
<1>1. LogTypeOK
  BY TypeInit
<1>2. AcceptedIsKept
  <2>1. \A a \in Attempter : job[a].pc # "accepted"
    BY JobTypes DEF LogInit, Try
  <2> QED
    BY <2>1 DEF LogInit, AcceptedIsKept
<1>3. CodesAreNotSwept
  BY LogAssumption DEF LogInit, CodesAreNotSwept, Attempter
<1>4. RoundsFit
  <2>1. OpenRounds \in SUBSET Rounds
    BY DEF OpenRounds, Rounds
  <2>2. row.attempts = 0
    BY DEF LogInit
  <2>3. /\ Cardinality(OpenRounds) \in Nat
        /\ Cardinality(OpenRounds) <= MAX_IMMEDIATE_ATTEMPTS * Cardinality(Attempter)
        /\ MAX_IMMEDIATE_ATTEMPTS * Cardinality(Attempter) \in Int
    BY <2>1, RoundsCount, LogAssumption
  <2> QED
    BY <2>2, <2>3, LogAssumption DEF RoundsFit
<1>5. ClaimsAreTrue /\ AnsweredMeansFlagged /\ AttemptsApart
  BY DEF LogInit, ClaimsAreTrue, AnsweredMeansFlagged, AttemptsApart
<1> QED
  BY <1>1, <1>2, <1>3, <1>4, <1>5 DEF LogInv

\* Every step keeps LogInv, part by part.
LEMMA LogInvStep == LogInv /\ [Next]_vars => LogInv'
BY TypeStep, KeptStep, CodesStep, RoundsStep, ClaimsStep, FlaggedStep, ApartStep DEF LogInv

\* LogInv, the strengthening of all the properties below, is an invariant.
THEOREM LogInvariant == LogSpec => []LogInv
BY LogInvInit, LogInvStep, PTL DEF LogSpec

\* An email recorded as sent is called failed again only after attempts
\* overlapped or Resend reported the failure.
THEOREM FailedOverSentIsOverlap == LogSpec => []FailedOverSentNeedsOverlap
<1>1. LogInv => FailedOverSentNeedsOverlap
  BY DEF LogInv, AttemptsApart, FailedOverSentNeedsOverlap
<1> QED
  BY <1>1, LogInvariant, PTL

\* The row never claims more than what happened to the message.
THEOREM RowClaimsAreTrue == LogSpec => []ClaimsAreTrue
<1>1. LogInv => ClaimsAreTrue
  BY DEF LogInv
<1> QED
  BY <1>1, LogInvariant, PTL

\* However many sweeps overlap, the attempts at one email stay below
\* MAX_TOTAL_ATTEMPTS plus one round of immediate attempts each.
THEOREM CeilingOnAttempts == LogSpec => []AttemptsCapped
<1>1. LogInv => AttemptsCapped
  <2> SUFFICES ASSUME LogInv PROVE AttemptsCapped
    OBVIOUS
  <2>1. OpenRounds \in SUBSET Rounds
    BY DEF OpenRounds, Rounds
  <2>2. Cardinality(OpenRounds) \in Nat
    BY <2>1, RoundsCount
  <2>3. row.attempts \in Nat
    BY DEF LogInv, LogTypeOK
  <2>4. MAX_TOTAL_ATTEMPTS - 1 + MAX_IMMEDIATE_ATTEMPTS * Cardinality(Attempter) \in Int
    BY RoundsCount, LogAssumption
  <2> QED
    BY <2>2, <2>3, <2>4 DEF LogInv, RoundsFit, AttemptsCapped
<1> QED
  BY <1>1, LogInvariant, PTL

\* Every answered bounce, suppression or complaint has left its flag.
THEOREM BouncesAreFlagged == LogSpec => []AnsweredMeansFlagged
<1>1. LogInv => AnsweredMeansFlagged
  BY DEF LogInv
<1> QED
  BY <1>1, LogInvariant, PTL

\* A sign-in code is neither attempted nor accepted after send() is done.
THEOREM CodesAreNeverLate == LogSpec => NoLateCode
<1>1. LogInv /\ [Next]_vars => [type = "auth_otp" /\ job[Origin] = Idle
                                  => UNCHANGED <<row.attempts, messages>>]_vars
  BY CodeIsDone DEF LogInv
<1> QED
  BY <1>1, LogInvariant, PTL DEF LogSpec, NoLateCode

-----------------------------------------------------------------------------
(* What it takes for a delivery to go unrecorded.                          *)

\* The webhook of a delivery finds the row: it is answered after the attempt
\* that was accepted has recorded the message's id.
RecordedBeforeTold == <<logId, "delivered">> \in happened \ due => row.resendId # null

\* Then an answered delivery is recorded.
ToldIsRecorded == <<logId, "delivered">> \in happened \ due => row.deliveredAt

\* Nothing takes deliveredAt back, and the webhook that is answered sets it.
LEMMA ToldStep ==
  LogTypeOK /\ ToldIsRecorded /\ RecordedBeforeTold' /\ [Next]_vars => ToldIsRecorded'
<1> SUFFICES ASSUME LogTypeOK, ToldIsRecorded, RecordedBeforeTold', [Next]_vars
             PROVE  ToldIsRecorded'
  OBVIOUS
<1> DEFINE Told == <<logId, "delivered">> \in happened \ due
<1>1. ASSUME Told' => Told, row.deliveredAt => row'.deliveredAt PROVE ToldIsRecorded'
  BY <1>1 DEF ToldIsRecorded
<1>2. ASSUME NEW a \in Attempter, AttemptStep(a) \/ Abort(a) PROVE ToldIsRecorded'
  <2>1. UNCHANGED <<happened, due>>
    BY <1>2 DEF AttemptStep, CountAttempt, CallAccepted, CallFails, RecordSent, RecordFailed, Abort,
       resendVars
  <2>2. row'.deliveredAt = row.deliveredAt
    BY <1>2 DEF AttemptStep, CountAttempt, CallAccepted, CallFails, RecordSent, RecordFailed, Abort,
       LogTypeOK
  <2> QED
    BY <1>1, <2>1, <2>2
<1>3. ASSUME NEW w \in Sweep, ListStuck(w) PROVE ToldIsRecorded'
  BY <1>1, <1>3 DEF ListStuck, resendVars
<1>4. CASE Cool
  BY <1>1, <1>4 DEF Cool, resendVars, LogTypeOK
<1>5. ASSUME NEW m \in messages, NEW e \in Happens, ResendEvent(m, e) PROVE ToldIsRecorded'
  BY <1>1, <1>5 DEF ResendEvent
<1>6. ASSUME NEW m \in messages, NEW e \in Happens, UpdateLog(m, e) \/ UNCHANGED row
      PROVE  row.deliveredAt => row'.deliveredAt
  BY <1>6 DEF UpdateLog, LogTypeOK
<1>7. ASSUME NEW m \in messages, NEW e \in Happens, WebhookUnanswered(m, e) PROVE ToldIsRecorded'
  BY <1>1, <1>6, <1>7 DEF WebhookUnanswered, resendVars
<1>8. ASSUME NEW m \in messages, NEW e \in Happens, Webhook(m, e) PROVE ToldIsRecorded'
  <2>1. m = logId /\ due' = due \ {<<m, e>>} /\ UNCHANGED happened /\ UpdateLog(m, e)
    BY <1>8 DEF Webhook, LogTypeOK
  <2>2. CASE e # "delivered"
    BY <1>1, <1>6, <2>1, <2>2
  <2>3. CASE e = "delivered" /\ row.resendId = logId
    <3>1. e \in DOMAIN WEBHOOK_EVENT_TO_STATUS
      BY <2>3 DEF WEBHOOK_EVENT_TO_STATUS
    <3>2. row'.deliveredAt
      BY <2>1, <2>3, <3>1 DEF UpdateLog, LogTypeOK
    <3> QED
      BY <3>2 DEF ToldIsRecorded
  <2>4. CASE e = "delivered" /\ row.resendId # logId
    <3>1. row' = row /\ row.resendId = null
      BY <2>1, <2>4 DEF UpdateLog, LogTypeOK
    <3> QED
      BY <3>1 DEF ToldIsRecorded, RecordedBeforeTold
  <2> QED
    BY <2>2, <2>3, <2>4
<1>9. CASE UNCHANGED vars
  BY <1>1, <1>9 DEF vars
<1> QED
  BY <1>2, <1>3, <1>4, <1>5, <1>7, <1>8, <1>9 DEF Next

\* The race that run delivery_forgotten shows is the only one: a delivery goes
\* unrecorded only if its webhook is answered while the row does not have the
\* message's id. Events out of order, repeated or cut short never do it.
THEOREM OnlyEarlyWebhooksAreLost == LogSpec /\ []RecordedBeforeTold => []DeliveryRecorded
<1>1. LogInit => ToldIsRecorded
  BY DEF LogInit, ToldIsRecorded
<1>2. LogTypeOK /\ ToldIsRecorded => DeliveryRecorded
  BY DEF LogTypeOK, ToldIsRecorded, DeliveryRecorded
<1> QED
  BY <1>1, <1>2, ToldStep, LogTypes, PTL DEF LogSpec
=============================================================================
