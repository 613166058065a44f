------------------------- MODULE ResendSlotsProofs --------------------------
(***************************************************************************)
(* The spacing of requests to Resend, for every spacing, limit, lateness   *)
(* of sleeps and number of callers.                                        *)
(***************************************************************************)
EXTENDS ResendSlots, RowsProofs, FiniteSetTheorems, WellFoundedInduction

Gap == MIN_MS_BETWEEN_REQUESTS

-----------------------------------------------------------------------------
(* Arithmetic.                                                             *)

\* A set of natural numbers that is not empty has a least one.
LEMMA LeastNumber ==
  ASSUME NEW S \in SUBSET Nat, S # {}
  PROVE  \E m \in S : \A k \in S : m <= k
<1>1. PICK m \in S : \A k \in S : ~ (<<k, m>> \in OpToRel(<, Nat))
  BY NatLessThanWellFounded, WFMin
<1>2. \A k \in S : ~ (k < m)
  BY <1>1 DEF OpToRel
<1>3. \A k, n \in Nat : ~ (k < n) => n <= k
  OBVIOUS
<1>4. \A k \in S : m <= k
  BY <1>2, <1>3
<1> QED
  BY <1>4

\* How a distance in turns becomes one in time.
LEMMA GapArithmetic ==
  /\ Gap \in Nat
  /\ \A d \in Int : d * Gap \in Int /\ (d + 1) * Gap = d * Gap + Gap
  /\ \A d, e \in Int : d <= e => d * Gap <= e * Gap
<1>1. Gap \in Nat
  BY SlotAssumption DEF Gap
<1>2. \A d \in Int : d * Gap \in Int /\ (d + 1) * Gap = d * Gap + Gap
  BY <1>1, SMT
<1>3. ASSUME NEW d \in Int, NEW e \in Int, d <= e PROVE d * Gap <= e * Gap
  <2>1. e - d >= 0 /\ e = d + (e - d)
    BY <1>3
  <2>2. (e - d) * Gap >= 0
    BY <1>1, <2>1, SMT
  <2>3. e * Gap = d * Gap + (e - d) * Gap
    BY <1>1, SMT
  <2> QED
    BY <1>1, <1>2, <2>2, <2>3
<1> QED
  BY <1>1, <1>2, <1>3

-----------------------------------------------------------------------------
(* The invariant.                                                          *)

\* Before the first call nothing is taken.
LEMMA SlotInvInit == SlotInit => SlotInv
BY EmptyTable DEF SlotInit, SlotInv, SlotTypeOK, SlotsSpaced, StartsOnTime, Waiting, Empty

\* The slot taken is no earlier than the clock and the counter.
LEMMA SlotTaken ==
  ASSUME SlotTypeOK
  PROVE  slot \in Nat /\ slot >= now /\ slot >= nextSlotAt
BY DEF SlotTypeOK, slot

\* What the next caller leaves behind.
LEMMA CallRows ==
  ASSUME SlotTypeOK, waitForResendSlot
  PROVE  /\ calls' = calls + 1 /\ 1 .. calls' = (1 .. calls) \cup {calls + 1}
         /\ slotAt' \in [1 .. calls' -> Nat]
         /\ slotAt'[calls + 1] = slot
         /\ \A k \in 1 .. calls : slotAt'[k] = slotAt[k]
         /\ nextSlotAt' = slot + Gap
         /\ now' = now /\ startedAt' = startedAt
<1>1. /\ calls' = calls + 1 /\ slotAt' = Insert(slotAt, calls + 1, slot)
      /\ nextSlotAt' = slot + Gap /\ now' = now /\ startedAt' = startedAt
  BY DEF waitForResendSlot, SlotAfter, Gap
<1>2. calls \in Nat /\ DOMAIN slotAt = 1 .. calls /\ \A k \in 1 .. calls : slotAt[k] \in Nat
  BY DEF SlotTypeOK
<1>3. 1 .. calls' = (1 .. calls) \cup {calls + 1} /\ \A k \in 1 .. calls : k # calls + 1
  BY <1>1, <1>2
<1>4. slot \in Nat
  BY SlotTaken
<1> QED
  BY <1>1, <1>2, <1>3, <1>4 DEF Insert

\* Types are kept.
LEMMA SlotTypeStep == SlotTypeOK /\ [SlotNext]_slotVars => SlotTypeOK'
<1> SUFFICES ASSUME SlotTypeOK, [SlotNext]_slotVars PROVE SlotTypeOK'
  OBVIOUS
<1>1. CASE waitForResendSlot
  <2>1. calls' \in Nat /\ now' \in Nat /\ nextSlotAt' \in Nat
    BY <1>1, CallRows, SlotTaken, GapArithmetic DEF SlotTypeOK
  <2>2. slotAt' \in [1 .. calls' -> Nat]
    BY <1>1, CallRows
  <2>3. startedAt' = startedAt /\ 1 .. calls \subseteq 1 .. calls'
    BY <1>1, CallRows
  <2> QED
    BY <2>1, <2>2, <2>3 DEF SlotTypeOK
<1>2. ASSUME NEW k \in Waiting, Start(k) PROVE SlotTypeOK'
  <2>1. IsTable(startedAt', Nat)
    BY <1>2, InsertTyped DEF Start, SlotTypeOK
  <2>2. DOMAIN startedAt' = DOMAIN startedAt \cup {k}
    BY <1>2 DEF Start, Insert
  <2> QED
    BY <1>2, <2>1, <2>2 DEF Start, SlotTypeOK, Waiting
<1>3. CASE Tick
  BY <1>3 DEF Tick, SlotTypeOK
<1>4. CASE UNCHANGED slotVars
  BY <1>4 DEF slotVars, SlotTypeOK
<1> QED
  BY <1>1, <1>2, <1>3, <1>4 DEF SlotNext

\* A new slot is as far from each earlier one as their turns are.
LEMMA SpacedStep == SlotTypeOK /\ SlotsSpaced /\ [SlotNext]_slotVars => SlotsSpaced'
<1> SUFFICES ASSUME SlotTypeOK, SlotsSpaced, [SlotNext]_slotVars PROVE SlotsSpaced'
  OBVIOUS
<1>1. CASE waitForResendSlot
  <2>1. calls \in Nat /\ nextSlotAt \in Nat /\ slot \in Nat /\ slot >= nextSlotAt
        /\ \A j \in 1 .. calls : slotAt[j] \in Nat
    BY SlotTaken DEF SlotTypeOK
  <2>2. ASSUME NEW j \in 1 .. calls
        PROVE  /\ slot - slotAt[j] >= (calls + 1 - j) * Gap
               /\ slot + Gap - slotAt[j] >= (calls + 2 - j) * Gap
    <3>1. nextSlotAt - slotAt[j] >= (calls + 1 - j) * Gap
      BY DEF SlotsSpaced, Gap
    <3>2. calls + 1 - j \in Int /\ calls + 2 - j = (calls + 1 - j) + 1
      BY <2>1
    <3>3. (calls + 1 - j) * Gap \in Int /\ (calls + 2 - j) * Gap = (calls + 1 - j) * Gap + Gap
      BY <3>2, GapArithmetic
    <3>4. slot - slotAt[j] >= (calls + 1 - j) * Gap
      BY <2>1, <3>1, <3>3
    <3> QED
      BY <2>1, <3>3, <3>4, GapArithmetic
  <2>3. ASSUME NEW j \in 1 .. calls', NEW k \in 1 .. calls', j < k
        PROVE  slotAt'[k] - slotAt'[j] >= (k - j) * Gap
    <3>1. j \in 1 .. calls
      BY <1>1, <2>1, <2>3, CallRows
    <3>2. CASE k \in 1 .. calls
      BY <1>1, <2>3, <3>1, <3>2, CallRows DEF SlotsSpaced, Gap
    <3>3. CASE k = calls + 1
      <4>1. slotAt'[k] = slot /\ slotAt'[j] = slotAt[j]
        BY <1>1, <3>1, <3>3, CallRows, Zenon
      <4>2. slot - slotAt[j] >= (calls + 1 - j) * Gap
        BY <2>2, <3>1
      <4>3. slotAt'[k] - slotAt'[j] = slot - slotAt[j]
        BY <4>1, Zenon
      <4>4. k - j = calls + 1 - j
        BY <2>1, <3>1, <3>3
      <4> QED
        BY <4>2, <4>3, <4>4, Zenon
    <3> QED
      BY <1>1, <2>3, <3>2, <3>3, CallRows
  <2>4. ASSUME NEW j \in 1 .. calls'
        PROVE  nextSlotAt' - slotAt'[j] >= (calls' + 1 - j) * Gap
    <3>1. CASE j \in 1 .. calls
      <4>1. calls' + 1 - j = calls + 2 - j
        BY <1>1, <2>1, <3>1, CallRows
      <4>2. nextSlotAt' = slot + Gap /\ slotAt'[j] = slotAt[j]
        BY <1>1, <3>1, CallRows, Zenon
      <4>3. slot + Gap - slotAt[j] >= (calls + 2 - j) * Gap
        BY <2>2, <3>1
      <4>4. nextSlotAt' - slotAt'[j] = slot + Gap - slotAt[j]
        BY <2>1, <3>1, <4>2, GapArithmetic
      <4> QED
        BY <4>1, <4>3, <4>4, Zenon
    <3>2. CASE j = calls + 1
      <4>1. calls' + 1 - j = 1 /\ nextSlotAt' - slotAt'[j] = Gap
        BY <1>1, <2>1, <3>2, CallRows, GapArithmetic
      <4>2. 1 * Gap = Gap
        BY GapArithmetic
      <4> QED
        BY <4>1, <4>2, GapArithmetic
    <3> QED
      BY <1>1, <2>4, <3>1, <3>2, CallRows
  <2> QED
    BY <2>3, <2>4 DEF SlotsSpaced, Gap
<1>2. CASE UNCHANGED <<calls, slotAt, nextSlotAt>>
  BY <1>2 DEF SlotsSpaced
<1> QED
  BY <1>1, <1>2 DEF SlotNext, Start, Tick, slotVars

\* Nobody starts before its slot, and the clock waits for who is due.
LEMMA OnTimeStep == SlotTypeOK /\ StartsOnTime /\ [SlotNext]_slotVars => StartsOnTime'
<1> SUFFICES ASSUME SlotTypeOK, StartsOnTime, [SlotNext]_slotVars PROVE StartsOnTime'
  OBVIOUS
<1> USE SlotAssumption
<1>1. CASE waitForResendSlot
  <2>1. DOMAIN startedAt \subseteq 1 .. calls /\ now \in Nat
    BY DEF SlotTypeOK
  <2>2. ASSUME NEW k \in DOMAIN startedAt'
        PROVE  startedAt'[k] >= slotAt'[k] /\ startedAt'[k] <= slotAt'[k] + MaxLate
    BY <1>1, <2>1, <2>2, CallRows DEF StartsOnTime
  <2>3. ASSUME NEW k \in Waiting' PROVE now' <= slotAt'[k] + MaxLate
    <3>1. CASE k = calls + 1
      BY <1>1, <2>1, <3>1, CallRows, SlotTaken
    <3>2. CASE k \in 1 .. calls
      BY <1>1, <2>3, <3>2, CallRows DEF StartsOnTime, Waiting
    <3> QED
      BY <1>1, <2>3, <3>1, <3>2, CallRows DEF Waiting
  <2> QED
    BY <2>2, <2>3 DEF StartsOnTime
<1>2. ASSUME NEW k \in Waiting, Start(k) PROVE StartsOnTime'
  <2>1. now >= slotAt[k] /\ now <= slotAt[k] + MaxLate
    BY <1>2 DEF Start, StartsOnTime
  <2>2. /\ DOMAIN startedAt' = DOMAIN startedAt \cup {k} /\ startedAt'[k] = now
        /\ \A j \in DOMAIN startedAt : j # k => startedAt'[j] = startedAt[j]
    BY <1>2 DEF Start, Insert
  <2>3. now' = now /\ slotAt' = slotAt /\ Waiting' \subseteq Waiting
    BY <1>2, <2>2 DEF Start, Waiting
  <2> QED
    BY <2>1, <2>2, <2>3 DEF StartsOnTime
<1>3. CASE Tick
  <2>1. \A k \in Waiting : now \in Nat /\ slotAt[k] \in Nat
    BY DEF SlotTypeOK, Waiting
  <2>2. \A k \in Waiting : now + 1 <= slotAt[k] + MaxLate
    BY <1>3, <2>1 DEF Tick
  <2> QED
    BY <1>3, <2>2 DEF Tick, StartsOnTime, Waiting
<1>4. CASE UNCHANGED slotVars
  BY <1>4 DEF slotVars, StartsOnTime, Waiting
<1> QED
  BY <1>1, <1>2, <1>3, <1>4 DEF SlotNext

\* Slots are spaced and everybody starts on time, always.
THEOREM SlotInvariant == SlotSpec => []SlotInv
<1>1. SlotInv /\ [SlotNext]_slotVars => SlotInv'
  BY SlotTypeStep, SpacedStep, OnTimeStep DEF SlotInv
<1> QED
  BY <1>1, SlotInvInit, PTL DEF SlotSpec

-----------------------------------------------------------------------------
(* What Resend sees.                                                       *)

\* Requests are apart by their turns, up to one oversleep.
LEMMA InvSpreads == SlotInv => StartsSpread
<1> SUFFICES ASSUME SlotInv, NEW j \in DOMAIN startedAt, NEW k \in DOMAIN startedAt, j < k
             PROVE  startedAt[k] - startedAt[j] >= (k - j) * Gap - MaxLate
  BY DEF StartsSpread, Gap
<1>1. /\ j \in 1 .. calls /\ k \in 1 .. calls
      /\ slotAt[j] \in Nat /\ slotAt[k] \in Nat /\ startedAt[j] \in Nat /\ startedAt[k] \in Nat
  BY DEF SlotInv, SlotTypeOK, IsTable
<1>2. slotAt[k] - slotAt[j] >= (k - j) * Gap
  BY <1>1 DEF SlotInv, SlotsSpaced, Gap
<1>3. startedAt[k] >= slotAt[k] /\ startedAt[j] <= slotAt[j] + MaxLate
  BY DEF SlotInv, StartsOnTime
<1>4. (k - j) * Gap \in Int
  BY <1>1, GapArithmetic
<1> QED
  BY <1>1, <1>2, <1>3, <1>4, SlotAssumption

\* In a second start only callers whose turns lie within Limit of the first
\* of them, so at most Limit.
LEMMA InvKeepsRate == SlotInv => RateKept
<1> SUFFICES ASSUME SlotInv, NEW t \in 0 .. now
             PROVE  Cardinality({k \in DOMAIN startedAt : startedAt[k] \in t .. t + Second - 1}) <= Limit
  BY DEF RateKept
<1> DEFINE S == {k \in DOMAIN startedAt : startedAt[k] \in t .. t + Second - 1}
<1>1. S \in SUBSET Nat /\ \A k \in S : k \in Nat /\ startedAt[k] \in Nat
  BY DEF SlotInv, SlotTypeOK, IsTable
<1>2. CASE S = {}
  BY <1>2, FS_EmptySet, SlotAssumption
<1>3. CASE S # {}
  <2>1. PICK m \in S : \A k \in S : m <= k
    BY <1>1, <1>3, LeastNumber
  <2>2. ASSUME NEW k \in S PROVE k \in m .. m + Limit - 1
    <3>1. startedAt[k] - startedAt[m] < Second
      BY <1>1, SlotAssumption
    <3>2. CASE k >= m + Limit
      <4>1. m < k /\ k - m \in Int /\ Limit <= k - m
        BY <1>1, <3>2, SlotAssumption
      <4>2. startedAt[k] - startedAt[m] >= (k - m) * Gap - MaxLate
        BY <4>1, InvSpreads DEF StartsSpread, Gap
      <4>3. (k - m) * Gap >= Limit * Gap /\ (k - m) * Gap \in Int /\ Limit * Gap \in Int
        BY <4>1, GapArithmetic, SlotAssumption
      <4>4. Limit * Gap - MaxLate >= Second
        BY HeadroomAssumption DEF Gap
      <4> QED
        BY <1>1, <3>1, <4>2, <4>3, <4>4, SlotAssumption
    <3> QED
      BY <1>1, <2>1, <3>2, SlotAssumption
  <2>3. m \in Int /\ m + Limit - 1 \in Int /\ (m + Limit - 1) - m + 1 = Limit /\ ~ (m > m + Limit - 1)
    BY <1>1, SlotAssumption
  <2>4. IsFiniteSet(m .. m + Limit - 1) /\ Cardinality(m .. m + Limit - 1) = Limit
    BY <2>3, FS_Interval
  <2>5. S \in SUBSET (m .. m + Limit - 1)
    BY <2>2
  <2>6. Cardinality(S) <= Cardinality(m .. m + Limit - 1)
    <3> HIDE DEF S
    <3> QED
      BY <2>4, <2>5, FS_Subset
  <2> QED
    BY <2>4, <2>6
<1> QED
  BY <1>2, <1>3

\* However callers arrive, any two requests are apart by the slots between
\* their turns, up to one oversleep.
THEOREM RequestsSpread == SlotSpec => []StartsSpread
BY SlotInvariant, InvSpreads, PTL

\* Within the headroom, Resend never sees more than Limit requests a second.
THEOREM RateLimitKept == SlotSpec => []RateKept
BY SlotInvariant, InvKeepsRate, PTL
=============================================================================
