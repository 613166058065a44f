---------------------------- MODULE ResendSlots -----------------------------
(***************************************************************************)
(* waitForResendSlot (api/src/email/resend-client.ts): the spacing of all  *)
(* requests one process makes to Resend. A caller takes the next slot from *)
(* a counter they share, then sleeps until it comes.                       *)
(*                                                                         *)
(* A sleep ends no earlier than asked for, and later when the event loop   *)
(* is busy; MaxLate says how much later. Times are of one clock that is    *)
(* never set back.                                                         *)
(***************************************************************************)
EXTENDS Integers, FiniteSets, Rows

CONSTANTS
  MIN_MS_BETWEEN_REQUESTS,
  MaxLate,    \* the longest a sleep overruns
  Limit,      \* requests Resend allows...
  Second,     \* ... in this time
  MaxCalls,   \* bound: calls
  MaxTime     \* bound: the clock

ASSUME SlotAssumption ==
  /\ MIN_MS_BETWEEN_REQUESTS \in Nat
  /\ MaxLate \in Nat
  /\ Limit \in Nat \ {0} /\ Second \in Nat
  /\ MaxCalls \in Nat /\ MaxTime \in Nat

\* The headroom of 120 ms for 10 requests per 1000 ms is 200 ms.
ASSUME HeadroomAssumption == Limit * MIN_MS_BETWEEN_REQUESTS - MaxLate >= Second

VARIABLES
  now,
  nextSlotAt,
  calls,      \* how many callers have taken a slot; they are numbered by turn
  slotAt,     \* when each of them may start its request
  startedAt   \* when those that are awake have started theirs

slotVars == <<now, nextSlotAt, calls, slotAt, startedAt>>

SlotTypeOK ==
  /\ now \in Nat /\ nextSlotAt \in Nat /\ calls \in Nat
  /\ slotAt \in [1 .. calls -> Nat]
  /\ IsTable(startedAt, Nat) /\ DOMAIN startedAt \subseteq 1 .. calls

SlotInit ==
  /\ now = 0 /\ nextSlotAt = 0 /\ calls = 0
  /\ slotAt = Empty /\ startedAt = Empty

slot == IF now > nextSlotAt THEN now ELSE nextSlotAt

\* Mutant: the next slot counts from the clock, not from the slot taken.
SlotAfterNow == now + MIN_MS_BETWEEN_REQUESTS

SlotAfter == slot + MIN_MS_BETWEEN_REQUESTS

\* Up to the await, in one stretch.
waitForResendSlot ==
  /\ calls < MaxCalls
  /\ calls' = calls + 1
  /\ slotAt' = Insert(slotAt, calls + 1, slot)
  /\ nextSlotAt' = SlotAfter
  /\ UNCHANGED <<now, startedAt>>

Waiting == 1 .. calls \ DOMAIN startedAt

\* Mutant: a caller starts without sleeping until its slot.
StartAtOnce(k) ==
  /\ startedAt' = Insert(startedAt, k, now)
  /\ UNCHANGED <<now, nextSlotAt, calls, slotAt>>

\* The sleep is over, or there was none.
Start(k) ==
  /\ now >= slotAt[k]
  /\ startedAt' = Insert(startedAt, k, now)
  /\ UNCHANGED <<now, nextSlotAt, calls, slotAt>>

Tick ==
  /\ now < MaxTime
  /\ \A k \in Waiting : now < slotAt[k] + MaxLate
  /\ now' = now + 1
  /\ UNCHANGED <<nextSlotAt, calls, slotAt, startedAt>>

SlotNext == waitForResendSlot \/ (\E k \in Waiting : Start(k)) \/ Tick

SlotSpec == SlotInit /\ [][SlotNext]_slotVars

-----------------------------------------------------------------------------
\* Any two requests are apart by the slots between their callers' turns, up
\* to one oversleep, however arrivals, sleeps and idle times mix.
StartsSpread ==
  \A j, k \in DOMAIN startedAt :
    j < k => startedAt[k] - startedAt[j] >= (k - j) * MIN_MS_BETWEEN_REQUESTS - MaxLate

\* resend-client.test.ts: "never lets more than 10 requests start within one
\* second", which is what Resend allows.
RateKept ==
  \A t \in 0 .. now : Cardinality({k \in DOMAIN startedAt : startedAt[k] \in t .. t + Second - 1}) <= Limit

\* What they rest on: slots are spaced, the counter is past the last of
\* them, and nobody starts before its slot or much after.
SlotsSpaced ==
  /\ \A j, k \in 1 .. calls : j < k => slotAt[k] - slotAt[j] >= (k - j) * MIN_MS_BETWEEN_REQUESTS
  /\ \A j \in 1 .. calls : nextSlotAt - slotAt[j] >= (calls + 1 - j) * MIN_MS_BETWEEN_REQUESTS

StartsOnTime ==
  /\ \A k \in Waiting : now <= slotAt[k] + MaxLate
  /\ \A k \in DOMAIN startedAt : startedAt[k] >= slotAt[k] /\ startedAt[k] <= slotAt[k] + MaxLate

SlotInv == SlotTypeOK /\ SlotsSpaced /\ StartsOnTime
=============================================================================
