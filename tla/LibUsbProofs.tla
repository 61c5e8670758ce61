---------------------------- MODULE LibUsbProofs ----------------------------
(***************************************************************************)
(* The theorem of LibUsbSource, for a ring of any size from four slots,    *)
(* slots of any size, and every layout that the options can ask for: the   *)
(* transfers that roll through the ring touch no memory that is another's. *)
(*                                                                         *)
(* Blocks are numbered from the start of the run, and so are the slots     *)
(* they are for: which transfer a block comes in, where in the ring its    *)
(* slot is, and which number the device gives it are all remainders of     *)
(* that number. The invariant is stated over five such counters.           *)
(***************************************************************************)
EXTENDS LibUsbSource, SequenceTheorems, WellFoundedInduction, TLAPS

-----------------------------------------------------------------------------
(* Quotients and remainders *)

\* What \div and % are
LEMMA IntegerDivision ==
  ASSUME NEW x \in Int, NEW d \in Int, d > 0
  PROVE  x = d * (x \div d) + (x % d)
BY SMTT(20)

\* The same for a natural number
LEMMA DivisionExists ==
  ASSUME NEW x \in Nat, NEW d \in Nat \ {0}
  PROVE  /\ x \div d \in Nat /\ x % d \in 0 .. d - 1
         /\ x = d * (x \div d) + (x % d)
<1> QED
  BY IntegerDivision

\* What is left of x above d * k is less than d for one k only
LEMMA OneQuotient ==
  ASSUME NEW d \in Nat \ {0}, NEW k \in Int, NEW l \in Int,
         NEW r \in 0 .. d - 1, NEW s \in 0 .. d - 1, d * k + r = d * l + s
  PROVE  k = l /\ r = s
<1>1. d * (k - l) = s - r
  OBVIOUS
<1>2. CASE k > l
  <2>1. d * (k - l) >= d
    BY <1>2
  <2> QED
    BY <1>1, <2>1
<1>3. CASE k < l
  <2>1. d * (k - l) <= - d
    BY <1>3
  <2> QED
    BY <1>1, <2>1
<1> QED
  BY <1>1, <1>2, <1>3

\* So a number written that way is divided
LEMMA DivisionIs ==
  ASSUME NEW d \in Nat \ {0}, NEW k \in Nat, NEW r \in 0 .. d - 1
  PROVE  /\ (d * k + r) \div d = k
         /\ (d * k + r) % d = r
<1> DEFINE x == d * k + r
<1>1. x \in Nat
  OBVIOUS
<1>2. /\ x \div d \in Nat /\ x % d \in 0 .. d - 1
      /\ x = d * (x \div d) + (x % d)
  BY <1>1, DivisionExists
<1>3. d * k + r = d * (x \div d) + (x % d)
  BY <1>2
<1> DEFINE l == x \div d
           s == x % d
<1> HIDE DEF l, s
<1>4. l \in Int /\ s \in 0 .. d - 1 /\ d * k + r = d * l + s
  BY <1>2, <1>3 DEF l, s
<1>5. k = l /\ r = s
  BY <1>4, OneQuotient
<1> QED
  BY <1>5 DEF l, s

\* A multiple of d more
LEMMA MultiplesAreIgnored ==
  ASSUME NEW d \in Nat \ {0}, NEW x \in Nat, NEW k \in Nat
  PROVE  /\ (x + d * k) % d = x % d
         /\ (x + d * k) \div d = x \div d + k
<1>1. /\ x \div d \in Nat /\ x % d \in 0 .. d - 1
      /\ x = d * (x \div d) + (x % d)
  BY DivisionExists
<1> DEFINE l == x \div d
           r == x % d
<1> HIDE DEF l, r
<1>2. d * (l + k) = d * l + d * k
  BY <1>1 DEF l
<1>3. x + d * k = d * (l + k) + r
  <2>1. x = d * l + r
    BY <1>1 DEF l, r
  <2>2. d * l \in Int /\ d * k \in Int /\ r \in Int
    BY <1>1 DEF l, r
  <2> QED
    BY <1>2, <2>1, <2>2
<1>4. l + k \in Nat /\ r \in 0 .. d - 1
  BY <1>1 DEF l, r
<1>5. (d * (l + k) + r) \div d = l + k /\ (d * (l + k) + r) % d = r
  BY <1>4, DivisionIs
<1> QED
  BY <1>3, <1>5 DEF l, r

\* Taking remainders on the way
LEMMA RemaindersAdd ==
  ASSUME NEW d \in Nat \ {0}, NEW x \in Nat, NEW y \in Nat
  PROVE  ((x % d) + y) % d = (x + y) % d
<1>1. /\ x \div d \in Nat /\ x % d \in 0 .. d - 1
      /\ x = d * (x \div d) + (x % d)
  BY DivisionExists
<1> DEFINE k == x \div d
           z == (x % d) + y
<1>2. k \in Nat /\ z \in Nat /\ x + y = z + d * k
  BY <1>1
<1> HIDE DEF k, z
<1>3. (z + d * k) % d = z % d
  BY <1>2, MultiplesAreIgnored
<1> QED
  BY <1>2, <1>3 DEF z

\* Equal remainders, less than d apart
LEMMA RemaindersDiffer ==
  ASSUME NEW d \in Nat \ {0}, NEW x \in Nat, NEW y \in Nat, x < y, y < x + d
  PROVE  x % d # y % d
<1> SUFFICES ASSUME x % d = y % d PROVE FALSE
  OBVIOUS
<1> DEFINE k == x \div d
           l == y \div d
           r == x % d
<1>1. k \in Nat /\ l \in Nat /\ r \in Nat /\ x = d * k + r /\ y = d * l + r
  <2>1. k \in Nat /\ x % d \in 0 .. d - 1 /\ x = d * k + (x % d)
    BY DivisionExists
  <2>2. l \in Nat /\ y = d * l + (y % d)
    BY DivisionExists
  <2> QED
    BY <2>1, <2>2
<1> HIDE DEF k, l, r
<1>2. d * (l - k) = y - x
  <2>1. d * (l - k) = d * l - d * k
    BY <1>1
  <2> QED
    BY <1>1, <2>1
<1>3. CASE l <= k
  <2>1. d * (l - k) <= 0
    BY <1>1, <1>3
  <2> QED
    BY <1>2, <2>1
<1>4. CASE l > k
  <2>1. d * (l - k) >= d
    BY <1>1, <1>4
  <2> QED
    BY <1>2, <2>1
<1> QED
  BY <1>1, <1>3, <1>4

\* A larger number has no smaller quotient
LEMMA QuotientsGrow ==
  ASSUME NEW d \in Nat \ {0}, NEW x \in Nat, NEW y \in Nat, x <= y
  PROVE  x \div d <= y \div d
<1> DEFINE k == x \div d
           l == y \div d
<1>1. /\ k \in Nat /\ x % d \in 0 .. d - 1 /\ x = d * k + (x % d)
      /\ l \in Nat /\ y % d \in 0 .. d - 1 /\ y = d * l + (y % d)
  BY DivisionExists
<1> HIDE DEF k, l
<1> SUFFICES ASSUME l < k PROVE FALSE
  BY <1>1 DEF k, l
<1>2. d * (k - l) >= d
  BY <1>1
<1>3. d * (k - l) = d * k - d * l
  BY <1>1
<1> QED
  BY <1>1, <1>2, <1>3

\* The next number, and the one that begins the next multiple
LEMMA NextQuotient ==
  ASSUME NEW d \in Nat \ {0}, NEW x \in Nat
  PROVE  /\ x % d = d - 1 => (x + 1) \div d = x \div d + 1 /\ (x + 1) % d = 0
         /\ x % d # d - 1 => (x + 1) \div d = x \div d /\ (x + 1) % d = (x % d) + 1
<1> DEFINE k == x \div d
<1>1. k \in Nat /\ x % d \in 0 .. d - 1 /\ x = d * k + (x % d)
  BY DivisionExists
<1>2. ASSUME x % d = d - 1 PROVE (x + 1) \div d = k + 1 /\ (x + 1) % d = 0
  <2>1. x + 1 = d * (k + 1) + 0
    BY <1>1, <1>2
  <2> HIDE DEF k
  <2>2. (d * (k + 1) + 0) \div d = k + 1 /\ (d * (k + 1) + 0) % d = 0
    <3>1. k + 1 \in Nat /\ 0 \in 0 .. d - 1
      BY <1>1
    <3> QED
      BY <3>1, DivisionIs
  <2> QED
    BY <2>1, <2>2
<1>3. ASSUME x % d # d - 1 PROVE (x + 1) \div d = k /\ (x + 1) % d = (x % d) + 1
  <2>1. x + 1 = d * k + ((x % d) + 1) /\ (x % d) + 1 \in 0 .. d - 1
    BY <1>1, <1>3
  <2> HIDE DEF k
  <2>2. (d * k + ((x % d) + 1)) \div d = k /\ (d * k + ((x % d) + 1)) % d = (x % d) + 1
    BY <1>1, <2>1, DivisionIs
  <2> QED
    BY <2>1, <2>2
<1> QED
  BY <1>2, <1>3

-----------------------------------------------------------------------------
(* The layout of a run *)

\* A set of naturals has a least number, which is what Min chooses
LEMMA MinimalExists ==
  ASSUME NEW R, IsWellFoundedOn(R, Nat)
  PROVE  \A S : S \subseteq Nat /\ S # {} => \E x \in S : \A y \in S : ~ (<<y, x>> \in R)
BY WFMin, Zenon

LEMMA LeastOf ==
  ASSUME NEW R, IsWellFoundedOn(R, Nat), \A x, y \in Nat : x < y => <<x, y>> \in R
  PROVE  \A S : S \subseteq Nat /\ S # {} => Min(S) \in S
<1>1. \A S : S \subseteq Nat /\ S # {} => \E x \in S : \A y \in S : ~ (<<y, x>> \in R)
  BY MinimalExists, Zenon
<1>2. ASSUME NEW S, S \subseteq Nat, NEW x \in S, \A y \in S : ~ (<<y, x>> \in R)
      PROVE  Min(S) \in S
  <2>1. ASSUME NEW y \in S PROVE x <= y
    <3>1. ~ (<<y, x>> \in R) /\ x \in Nat /\ y \in Nat
      BY <1>2
    <3>2. ~ (y < x)
      BY <3>1
    <3> QED
      BY <3>1, <3>2
  <2> QED
    BY <1>2, <2>1 DEF Min
<1> QED
  BY <1>1, <1>2, Zenon

LEMMA LeastExists ==
  ASSUME NEW S, S \subseteq Nat, S # {}
  PROVE  Min(S) \in S
<1>1. \A x, y \in Nat : x < y => <<x, y>> \in OpToRel(<, Nat)
  BY DEF OpToRel
<1> QED
  BY <1>1, NatLessThanWellFounded, LeastOf

\* The nudging loop ends at the slot's own size at the latest
LEMMA SlotsAreDivided ==
  ASSUME NEW slot_packets \in Nat \ {0}, NEW target_packets \in Nat \ {0}
  PROVE  TransfersPerSlot(slot_packets, target_packets) \in Nat \ {0}
<1> DEFINE first == FirstTransfersPerSlot(slot_packets, target_packets)
           S == {n \in first .. slot_packets : slot_packets % n = 0}
<1>1. first \in 1 .. slot_packets
  <2> DEFINE x == slot_packets + target_packets - 1
  <2>1. x \in Nat
    OBVIOUS
  <2> HIDE DEF x
  <2>2. /\ x \div target_packets \in Nat /\ x % target_packets \in 0 .. target_packets - 1
        /\ x = target_packets * (x \div target_packets) + (x % target_packets)
    BY <2>1, DivisionExists
  <2>3. first = x \div target_packets
    BY DEF FirstTransfersPerSlot, x
  <2> DEFINE k == x \div target_packets
             r == x % target_packets
  <2>4. /\ k \in Nat /\ r \in 0 .. target_packets - 1 /\ x = target_packets * k + r
    BY <2>2
  <2> HIDE DEF k, r, first
  <2>5. k # 0
    <3> SUFFICES ASSUME k = 0 PROVE FALSE
      OBVIOUS
    <3>1. target_packets * k = 0
      OBVIOUS
    <3> QED
      BY <2>4, <3>1 DEF x
  <2>6. k <= slot_packets
    <3> SUFFICES ASSUME k >= slot_packets + 1 PROVE FALSE
      BY <2>4
    <3>1. target_packets * k >= target_packets * (slot_packets + 1)
      BY <2>4
    <3>2. target_packets * (slot_packets + 1) = target_packets * slot_packets + target_packets
      OBVIOUS
    <3>3. target_packets * slot_packets >= slot_packets
      OBVIOUS
    <3>4. target_packets * k \in Nat /\ target_packets * slot_packets \in Nat
      BY <2>4
    <3> QED
      BY <2>4, <3>1, <3>2, <3>3, <3>4 DEF x
  <2>7. first = k
    BY <2>3 DEF k
  <2> QED
    BY <2>4, <2>5, <2>6, <2>7
<1>2. slot_packets % slot_packets = 0
  <2>1. slot_packets * 1 + 0 = slot_packets /\ 0 \in 0 .. slot_packets - 1
    OBVIOUS
  <2>2. (slot_packets * 1 + 0) % slot_packets = 0
    BY <2>1, DivisionIs
  <2> QED
    BY <2>1, <2>2
<1>3. slot_packets \in S
  BY <1>1, <1>2
<1>4. S \subseteq Nat \ {0}
  BY <1>1
<1>5. TransfersPerSlot(slot_packets, target_packets) = Min(S)
  BY DEF TransfersPerSlot
<1> HIDE DEF S
<1> QED
  BY <1>3, <1>4, <1>5, LeastExists

\* What Run goes by
Span == layout.slot_span
Held == layout.transfer_count
Skipped == layout.discard_slots

LayoutFits ==
    /\ PerSlot \in Nat \ {0} /\ Span \in 1 .. SlotCount - 1
    /\ Held = PerSlot * Span /\ Held \in Nat \ {0}
    /\ Skipped \in 0 .. SlotCount /\ layout.discard_transfers = Skipped * PerSlot
    /\ layout.first_slot_index \in Nat
    /\ layout.first_slot_index = (SlotCount - Skipped) % SlotCount

\* Every plan covers each slot it spans, leaves one at least to the consumer, and discards
\* whole slots (usb_device.cpp:38)
LEMMA LayoutsFit ==
  ASSUME Init
  PROVE  LayoutFits
<1>1. /\ SlotCount \in Nat /\ SlotCount >= 4
      /\ SlotPackets \in Nat \ {0} /\ TargetPackets \in Nat \ {0}
  BY SlotCountAssumption, LayoutAssumption
<1>2. PICK options \in SourceOptions :
          layout = PlanTransferLayout(SlotPackets, SlotCount, TargetPackets, options)
  BY DEF Init
<1>3. /\ options.small_transfers \in BOOLEAN /\ options.transfer_queue_packets \in Nat
      /\ options.discard_slots \in Nat
  BY LayoutAssumption
<1>4. PerSlot \in Nat \ {0}
  <2>1. PerSlot = IF options.small_transfers THEN TransfersPerSlot(SlotPackets, TargetPackets)
                                             ELSE 1
    BY <1>2 DEF PlanTransferLayout, PerSlot
  <2> QED
    BY <1>1, <2>1, SlotsAreDivided
<1>5. Span \in 1 .. SlotCount - 1
  <2>1. Span = SlotSpan(SlotCount, SlotPackets, options.small_transfers,
                        options.transfer_queue_packets)
    BY <1>2 DEF PlanTransferLayout, Span
  <2>2. options.transfer_queue_packets \div SlotPackets \in Nat
    BY <1>1, <1>3, DivisionExists
  <2> QED
    BY <1>1, <2>1, <2>2 DEF SlotSpan, AtMost, AtLeast
<1>6. Held = PerSlot * Span
  BY <1>2 DEF PlanTransferLayout, PerSlot, Span, Held
<1>7. Held \in Nat \ {0}
  <2> DEFINE p == PerSlot
             s == Span
  <2>1. p \in Nat \ {0} /\ s \in Nat \ {0} /\ Held = p * s
    BY <1>1, <1>4, <1>5, <1>6
  <2> HIDE DEF p, s
  <2> QED
    BY <2>1
<1>8. Skipped = AtMost(options.discard_slots, SlotCount)
  BY <1>2 DEF PlanTransferLayout, Skipped
<1>9. Skipped \in 0 .. SlotCount
  BY <1>1, <1>3, <1>8 DEF AtMost
<1>10. layout.discard_transfers = Skipped * PerSlot
  BY <1>2 DEF PlanTransferLayout, Skipped, PerSlot
<1>11. layout.first_slot_index = (SlotCount - Skipped) % SlotCount
  BY <1>2 DEF PlanTransferLayout, Skipped, FirstSlot
<1>12. SlotCount - Skipped \in Nat
  BY <1>1, <1>9
<1>13. layout.first_slot_index \in Nat
  BY <1>1, <1>11, <1>12, DivisionExists
<1> QED
  BY <1>4, <1>5, <1>6, <1>7, <1>9, <1>10, <1>11, <1>13 DEF LayoutFits

-----------------------------------------------------------------------------
(* Blocks, transfers, slots and places in the ring *)

\* Transfers, blocks and slots are numbered from the start of the run. SlotOf: the slot
\* the m-th block is for; Nth: which transfer is submitted m-th; InRing: where the k-th
\* slot is in the ring; BlockNumber: what the model keeps of a number
SlotOf(m) == m \div PerSlot
Nth(m) == m % Held
InRing(k) == (layout.first_slot_index + k) % SlotCount
BlockNumber(m) == m % Laps
FirstOf(k) == k * PerSlot

\* A block is somewhere in its slot
LEMMA SlotOfType ==
  ASSUME LayoutFits, NEW m \in Nat
  PROVE  /\ SlotOf(m) \in Nat /\ IndexInSlot(m) \in 0 .. PerSlot - 1
         /\ m = FirstOf(SlotOf(m)) + IndexInSlot(m) /\ FirstOf(SlotOf(m)) \in Nat
<1> DEFINE p == PerSlot
<1>1. p \in Nat \ {0}
  BY DEF LayoutFits
<1> HIDE DEF p
<1>2. m \div p \in Nat /\ m % p \in 0 .. p - 1 /\ m = p * (m \div p) + (m % p)
  BY <1>1, DivisionExists
<1>3. (m \div p) * p = p * (m \div p) /\ p * (m \div p) \in Nat
  BY <1>1, <1>2
<1> QED
  BY <1>2, <1>3 DEF SlotOf, IndexInSlot, FirstOf, p

\* The blocks of a slot
LEMMA FirstOfSlot ==
  ASSUME LayoutFits, NEW k \in Nat, NEW i \in 0 .. PerSlot - 1
  PROVE  /\ FirstOf(k) \in Nat /\ FirstOf(k + 1) = FirstOf(k) + PerSlot
         /\ SlotOf(FirstOf(k) + i) = k /\ IndexInSlot(FirstOf(k) + i) = i
<1> DEFINE p == PerSlot
<1>1. p \in Nat \ {0} /\ i \in 0 .. p - 1
  BY DEF LayoutFits
<1> HIDE DEF p
<1>2. k * p = p * k /\ p * k \in Nat /\ (k + 1) * p = k * p + p
  BY <1>1
<1>3. (p * k + i) \div p = k /\ (p * k + i) % p = i
  BY <1>1, DivisionIs
<1> QED
  BY <1>2, <1>3 DEF SlotOf, IndexInSlot, FirstOf, p

\* The last block of a slot is followed by the first of the next
LEMMA SlotOfNext ==
  ASSUME LayoutFits, NEW m \in Nat
  PROVE  /\ LastInSlot(m) => SlotOf(m + 1) = SlotOf(m) + 1 /\ IndexInSlot(m + 1) = 0
         /\ ~LastInSlot(m) => /\ SlotOf(m + 1) = SlotOf(m)
                              /\ IndexInSlot(m + 1) = IndexInSlot(m) + 1
<1> DEFINE p == PerSlot
<1>1. p \in Nat \ {0}
  BY DEF LayoutFits
<1> HIDE DEF p
<1>2. /\ m % p = p - 1 => (m + 1) \div p = m \div p + 1 /\ (m + 1) % p = 0
      /\ m % p # p - 1 => (m + 1) \div p = m \div p /\ (m + 1) % p = (m % p) + 1
  BY <1>1, NextQuotient
<1> QED
  BY <1>2 DEF SlotOf, IndexInSlot, LastInSlot, p

\* A later block is for no earlier slot
LEMMA SlotOfGrows ==
  ASSUME LayoutFits, NEW l \in Nat, NEW m \in Nat, l <= m
  PROVE  SlotOf(l) <= SlotOf(m)
BY QuotientsGrow DEF SlotOf, LayoutFits

\* The slots before that of m are over
LEMMA EarlierSlot ==
  ASSUME LayoutFits, NEW k \in Nat, NEW m \in Nat, k < SlotOf(m)
  PROVE  FirstOf(k) + PerSlot <= m
<1>0. /\ SlotOf(m) \in Nat /\ IndexInSlot(m) \in 0 .. PerSlot - 1
      /\ m = FirstOf(SlotOf(m)) + IndexInSlot(m) /\ FirstOf(SlotOf(m)) \in Nat
  BY SlotOfType
<1>1. SlotOf(m) \in Nat /\ PerSlot \in Nat \ {0} /\ FirstOf(SlotOf(m)) <= m
  BY <1>0 DEF LayoutFits
<1> DEFINE p == PerSlot
           s == SlotOf(m)
<1>2. p \in Nat \ {0} /\ s \in Nat /\ k + 1 <= s /\ s * p <= m
  BY <1>1 DEF FirstOf
<1> HIDE DEF p, s
<1>3. (k + 1) * p <= s * p
  BY <1>2
<1>4. (k + 1) * p = k * p + p /\ k * p \in Nat /\ s * p \in Nat
  BY <1>2
<1> QED
  BY <1>2, <1>3, <1>4 DEF FirstOf, p

\* From the first block of a slot on, none is for a slot before it
LEMMA LaterSlot ==
  ASSUME LayoutFits, NEW k \in Nat, NEW m \in Nat, FirstOf(k) <= m
  PROVE  k <= SlotOf(m)
<1>1. 0 \in 0 .. PerSlot - 1 /\ FirstOf(k) \in Nat
  BY FirstOfSlot DEF LayoutFits
<1>2. SlotOf(FirstOf(k) + 0) = k
  BY <1>1, FirstOfSlot
<1>3. FirstOf(k) + 0 = FirstOf(k)
  BY <1>1
<1> QED
  BY <1>1, <1>2, <1>3, SlotOfGrows

\* Each place in a slot is one block's
LEMMA OneOfSlot ==
  ASSUME LayoutFits, NEW l \in Nat, NEW m \in Nat,
         SlotOf(l) = SlotOf(m), IndexInSlot(l) = IndexInSlot(m)
  PROVE  l = m
<1>1. l = FirstOf(SlotOf(l)) + IndexInSlot(l)
  BY SlotOfType
<1>2. m = FirstOf(SlotOf(m)) + IndexInSlot(m)
  BY SlotOfType
<1> QED
  BY <1>1, <1>2

\* A transfer that is submitted again is a span further on
LEMMA NextLap ==
  ASSUME LayoutFits, NEW m \in Nat
  PROVE  SlotOf(m + Held) = SlotOf(m) + Span /\ Nth(m + Held) = Nth(m)
<1> DEFINE p == PerSlot
           s == Span
           h == Held
<1>1. p \in Nat \ {0} /\ s \in Nat /\ h = p * s /\ h \in Nat \ {0}
  BY SlotCountAssumption DEF LayoutFits
<1> HIDE DEF p, s, h
<1>2. (m + p * s) \div p = m \div p + s
  BY <1>1, MultiplesAreIgnored
<1>3. (m + h * 1) % h = m % h
  BY <1>1, MultiplesAreIgnored
<1>4. h * 1 = h
  BY <1>1
<1> QED
  BY <1>1, <1>2, <1>3, <1>4 DEF SlotOf, Nth, p, s, h

\* The first submissions are of each transfer in turn
LEMMA NthType ==
  ASSUME LayoutFits, NEW m \in Nat
  PROVE  /\ Nth(m) \in Transfers
         /\ m < Held => Nth(m) = m
<1> DEFINE h == Held
<1>1. h \in Nat \ {0} /\ Transfers = 0 .. h - 1
  BY DEF LayoutFits, Held, Transfers
<1> HIDE DEF h
<1>2. m % h \in 0 .. h - 1
  BY <1>1, DivisionExists
<1>3. ASSUME m < h PROVE m % h = m
  <2>1. m \in 0 .. h - 1 /\ h * 0 + m = m
    BY <1>1, <1>3
  <2>2. (h * 0 + m) % h = m
    BY <1>1, <2>1, DivisionIs
  <2> QED
    BY <2>1, <2>2
<1> QED
  BY <1>1, <1>2, <1>3 DEF Nth, h

\* No transfer is in flight twice
LEMMA NthDiffers ==
  ASSUME LayoutFits, NEW l \in Nat, NEW m \in Nat, l < m, m < l + Held
  PROVE  Nth(l) # Nth(m)
BY RemaindersDiffer DEF LayoutFits, Nth

\* A transfer keeps its place in the slot
LEMMA NthIndex ==
  ASSUME LayoutFits, NEW m \in Nat
  PROVE  IndexInSlot(Nth(m)) = IndexInSlot(m)
<1> DEFINE p == PerSlot
           s == Span
           h == Held
           r == m % h
           l == m \div h
<1>1. p \in Nat \ {0} /\ s \in Nat /\ h = p * s /\ h \in Nat \ {0}
  BY SlotCountAssumption DEF LayoutFits
<1>2. l \in Nat /\ r \in Nat /\ m = h * l + r
  <2> HIDE DEF h
  <2>1. m \div h \in Nat /\ m % h \in 0 .. h - 1 /\ m = h * (m \div h) + (m % h)
    BY <1>1, DivisionExists
  <2> QED
    BY <1>1, <2>1
<1> HIDE DEF p, s, h, r, l
<1>3. s * l \in Nat /\ h * l = p * (s * l)
  BY <1>1, <1>2
<1>4. (r + p * (s * l)) % p = r % p
  BY <1>1, <1>2, <1>3, MultiplesAreIgnored
<1>5. m = r + p * (s * l)
  BY <1>1, <1>2, <1>3
<1>6. m % p = r % p
  BY <1>4, <1>5
<1> QED
  BY <1>6 DEF Nth, IndexInSlot, p, r, h

\* The ring as the counters see it: slot_span is the stride (libusb_source.cpp:438), and the
\* consumer starts at slot 0, past the discarded ones
LEMMA RingPlaces ==
  ASSUME LayoutFits, NEW k \in Nat
  PROVE  /\ InRing(k) \in Slots
         /\ InRing(k + SlotCount) = InRing(k)
         /\ InRing(k + 1) = NextSlot(InRing(k))
         /\ (InRing(k) + Span) % SlotCount = InRing(k + Span)
         /\ InRing(Skipped) = 0
<1> DEFINE f == layout.first_slot_index
           s == Span
<1>1. SlotCount \in Nat \ {0} /\ f \in Nat /\ s \in Nat /\ f + k \in Nat
  BY SlotCountAssumption DEF LayoutFits
<1> HIDE DEF f, s
<1>2. (f + k) % SlotCount \in 0 .. SlotCount - 1
  BY <1>1, DivisionExists
<1>3. (f + (k + SlotCount)) % SlotCount = (f + k) % SlotCount
  <2>1. (f + k + SlotCount * 1) % SlotCount = (f + k) % SlotCount
    BY <1>1, MultiplesAreIgnored
  <2>2. f + k + SlotCount * 1 = f + (k + SlotCount)
    BY <1>1
  <2> QED
    BY <2>1, <2>2
<1>4. (f + (k + 1)) % SlotCount = NextSlot((f + k) % SlotCount)
  <2>1. f + (k + 1) = (f + k) + 1
    BY <1>1
  <2>2. /\ (f + k) % SlotCount = SlotCount - 1 => ((f + k) + 1) % SlotCount = 0
        /\ (f + k) % SlotCount # SlotCount - 1 =>
              ((f + k) + 1) % SlotCount = ((f + k) % SlotCount) + 1
    BY <1>1, NextQuotient
  <2> QED
    BY <1>2, <2>1, <2>2 DEF NextSlot
<1>5. (((f + k) % SlotCount) + s) % SlotCount = (f + (k + s)) % SlotCount
  <2>1. (((f + k) % SlotCount) + s) % SlotCount = ((f + k) + s) % SlotCount
    BY <1>1, RemaindersAdd
  <2>2. (f + k) + s = f + (k + s)
    BY <1>1
  <2> QED
    BY <2>1, <2>2
<1>6. (f + Skipped) % SlotCount = 0
  <2> DEFINE d == Skipped
  <2>1. d \in 0 .. SlotCount /\ f = (SlotCount - d) % SlotCount
    BY DEF LayoutFits, f
  <2> HIDE DEF d
  <2>2. SlotCount - d \in Nat /\ d \in Nat /\ (SlotCount - d) + d = SlotCount
    BY <1>1, <2>1
  <2>3. (((SlotCount - d) % SlotCount) + d) % SlotCount = ((SlotCount - d) + d) % SlotCount
    BY <1>1, <2>2, RemaindersAdd
  <2>4. SlotCount * 1 + 0 = SlotCount /\ 0 \in 0 .. SlotCount - 1
    BY <1>1
  <2>5. (SlotCount * 1 + 0) % SlotCount = 0
    BY <1>1, <2>4, DivisionIs
  <2> QED
    BY <2>1, <2>2, <2>3, <2>4, <2>5 DEF d
<1> QED
  BY <1>2, <1>3, <1>4, <1>5, <1>6 DEF InRing, Slots, f, s

\* Slots less than a lap apart are different ones
LEMMA RingPlacesDiffer ==
  ASSUME LayoutFits, NEW k \in Nat, NEW l \in Nat, k < l, l < k + SlotCount
  PROVE  InRing(k) # InRing(l)
<1> DEFINE f == layout.first_slot_index
<1>1. SlotCount \in Nat \ {0} /\ f \in Nat
  BY SlotCountAssumption DEF LayoutFits
<1> HIDE DEF f
<1>2. f + k \in Nat /\ f + l \in Nat /\ f + k < f + l /\ f + l < (f + k) + SlotCount
  BY <1>1
<1>3. (f + k) % SlotCount # (f + l) % SlotCount
  BY <1>1, <1>2, RemaindersDiffer
<1> QED
  BY <1>3 DEF InRing, f

\* Two laps are more than what is discarded
LEMMA LapsType ==
  ASSUME LayoutFits
  PROVE  /\ Laps \in Nat /\ Laps > PerSlot /\ layout.discard_transfers \in 0 .. Laps - 1
         /\ layout.discard_transfers = FirstOf(Skipped)
<1> DEFINE p == PerSlot
           d == Skipped
<1>1. /\ SlotCount \in Nat \ {0} /\ p \in Nat \ {0} /\ d \in 0 .. SlotCount
      /\ Laps = 2 * SlotCount * p /\ layout.discard_transfers = d * p
  BY SlotCountAssumption DEF LayoutFits, Laps
<1>2. FirstOf(Skipped) = d * p
  BY DEF FirstOf
<1>3. p > 0 /\ PerSlot = p
  BY <1>1
<1> HIDE DEF p, d
<1>4. d * p <= SlotCount * p /\ d * p \in Nat
  BY <1>1
<1>5. SlotCount * p >= p /\ SlotCount * p \in Nat
  BY <1>1
<1>6. 2 * SlotCount * p = SlotCount * p + SlotCount * p
  BY <1>1
<1> QED
  BY <1>1, <1>2, <1>3, <1>4, <1>5, <1>6

\* A block number wraps as counting does
LEMMA BlockNumbers ==
  ASSUME LayoutFits, NEW m \in Nat, NEW i \in Nat
  PROVE  /\ BlockNumber(m) \in 0 .. Laps - 1
         /\ (BlockNumber(m) + i) % Laps = BlockNumber(m + i)
         /\ m < Laps => BlockNumber(m) = m
<1>1. Laps \in Nat \ {0}
  BY LapsType DEF LayoutFits
<1> DEFINE l == Laps
<1>2. l \in Nat \ {0}
  BY <1>1
<1> HIDE DEF l
<1>3. m % l \in 0 .. l - 1 /\ ((m % l) + i) % l = (m + i) % l
  BY <1>2, DivisionExists, RemaindersAdd
<1>4. ASSUME m < l PROVE m % l = m
  <2>1. m \in 0 .. l - 1 /\ l * 0 + m = m
    BY <1>2, <1>4
  <2>2. (l * 0 + m) % l = m
    BY <1>2, <2>1, DivisionIs
  <2> QED
    BY <2>1, <2>2
<1> QED
  BY <1>3, <1>4 DEF BlockNumber, l

\* How far two numbers less than a slot apart are
LEMMA BlocksBetween ==
  ASSUME LayoutFits, NEW m \in Nat, NEW i \in 0 .. PerSlot - 1
  PROVE  (BlockNumber(m + i) - BlockNumber(m)) % Laps = i
<1>1. Laps \in Nat \ {0} /\ i \in 0 .. Laps - 1 /\ m + i \in Nat
  BY LapsType DEF LayoutFits
<1> DEFINE l == Laps
           k == m \div l
           r == m % l
           K == (m + i) \div l
           R == (m + i) % l
<1>2. l \in Nat \ {0} /\ i \in 0 .. l - 1
  BY <1>1
<1> HIDE DEF l
<1>3. k \in Nat /\ r \in 0 .. l - 1 /\ m = l * k + r
  BY <1>2, DivisionExists
<1>4. K \in Nat /\ R \in 0 .. l - 1 /\ m + i = l * K + R
  BY <1>1, <1>2, DivisionExists
<1>5. R = (r + i) % l
  <2>1. i \in Nat
    BY <1>2
  <2>2. ((m % l) + i) % l = (m + i) % l
    BY <1>2, <2>1, RemaindersAdd
  <2> QED
    BY <2>2
<1> HIDE DEF k, r, K, R
<1>6. R = IF r + i < l THEN r + i ELSE r + i - l
  <2>1. CASE r + i < l
    <3>1. r + i \in 0 .. l - 1 /\ l * 0 + (r + i) = r + i
      BY <1>2, <1>3, <2>1
    <3>2. (l * 0 + (r + i)) % l = r + i
      BY <1>2, <3>1, DivisionIs
    <3> QED
      BY <1>5, <2>1, <3>1, <3>2
  <2>2. CASE r + i >= l
    <3>1. r + i - l \in 0 .. l - 1 /\ l * 1 + (r + i - l) = r + i
      BY <1>2, <1>3, <2>2
    <3>2. (l * 1 + (r + i - l)) % l = r + i - l
      BY <1>2, <3>1, DivisionIs
    <3> QED
      BY <1>2, <1>3, <1>5, <2>2, <3>1, <3>2
  <2> QED
    BY <1>2, <1>3, <2>1, <2>2
<1>7. (R - r) % l = i
  <2>1. CASE r + i < l
    <3>1. R - r = i /\ l * 0 + i = i
      BY <1>2, <1>3, <1>6, <2>1
    <3>2. (l * 0 + i) % l = i
      BY <1>2, DivisionIs
    <3> QED
      BY <3>1, <3>2
  <2>2. CASE r + i >= l
    <3>1. R - r = i - l
      BY <1>2, <1>3, <1>6, <2>2
    <3>2. (i - l) % l = i
      BY <1>2, SMTT(30)
    <3> QED
      BY <3>1, <3>2
  <2> QED
    BY <1>2, <1>3, <2>1, <2>2
<1> QED
  BY <1>7 DEF BlockNumber, l, r, R

-----------------------------------------------------------------------------
(* The inductive invariant *)

Statuses == {"completed", "error", "noDevice", "cancelled"}
Endings == [transfer : Transfers, status : Statuses]
Results == {"success", "usbTransferFailure", "usbMemoryLimit", "connectionFailure", "forcedAbort"}

\* What each variable may hold: programError is none of the results
UsbTypes ==
    /\ slotState \in [Slots -> SlotStates] /\ place \in [Transfers -> Slots]
    /\ sPc \in {"submit", "loop", "events", "secure", "returned"} /\ sweeping \in BOOLEAN
    /\ submitted \subseteq Transfers /\ cancelled \subseteq Transfers
    /\ discarded_transfers \in 0 .. layout.discard_transfers
    /\ capture_complete \in BOOLEAN /\ failed \in BOOLEAN /\ result \in Results
    /\ telemetry \in {"idle", "in flight", "cancelled"} /\ telemetry_failures \in 0 .. 2
    /\ wire \in Seq(Transfers) /\ reaped \in Seq(Endings)
    /\ data \in [Slots -> [0 .. PerSlot - 1 -> Int]]
    /\ cPc \in {"wait", "hold", "left"}
    /\ stop_requested \in BOOLEAN /\ abort_requested \in BOOLEAN /\ ring_abort \in BOOLEAN

\* Where the transfer thread is: N transfers were dealt with, K have ended, M were
\* submitted. Until something ends the run, each is submitted again as it completes
Thread(N, M) ==
    /\ sPc \in {"submit", "secure"} =>
        /\ ~failed /\ ~capture_complete /\ ~sweeping
        /\ entry = Nth(M) /\ place[entry] = InRing(SlotOf(M))
    /\ sPc = "submit" => N = 0 /\ M < Held
    /\ sPc = "secure" => M + 1 = N + Held
    /\ sPc \in {"loop", "events"} /\ ~failed /\ ~capture_complete => M = N + Held
    /\ sPc = "loop" => ~sweeping
    /\ sPc = "returned" => M = N /\ telemetry = "idle"
    /\ sweeping => failed \/ M = N
    /\ cancelled # {} => failed
    /\ telemetry = "in flight" => telemetry_failures < 2

\* The transfers in flight are the N-th to the last, in that order
Queue(N, K, M) ==
    /\ N <= K /\ K <= M /\ M <= N + Held
    /\ Len(reaped) = K - N /\ Len(wire) = M - K
    /\ \A m \in N .. K - 1 : reaped[m - N + 1].transfer = Nth(m)
    /\ \A m \in K .. M - 1 : wire[m - K + 1] = Nth(m)
    /\ \A m \in N .. M - 1 : place[Nth(m)] = InRing(SlotOf(m))
    /\ submitted = {Nth(m) : m \in N .. M - 1}
    /\ sPc = "submit" => \A t \in Transfers : place[t] = InRing(SlotOf(t))

\* An abort is of all slots at once, and a slot is dumped once Run has returned
Aborts ==
    /\ abort_requested = ring_abort
    /\ \A i \in Slots : slotState[i] = "aborted" <=> abort_requested
    /\ \A i \in Slots : slotState[i] = "dumped" => sPc = "returned"

Discards(N) ==
    /\ discarded_transfers <= N
    /\ ~failed => discarded_transfers = AtMost(N, layout.discard_transfers)

\* The consumer is at the c-th slot. A full slot is one that was filled since, and until
\* something goes wrong those that were filled are full; nothing is in flight for a slot
\* the consumer has not freed
Consumed(N, M, c) ==
    /\ cSlot = InRing(c) /\ taken = BlockNumber(FirstOf(c))
    /\ c >= Skipped /\ (c = Skipped \/ c <= SlotOf(N))
    /\ \A m \in 0 .. M - 1 : SlotOf(m) < c + SlotCount
    /\ cPc = "hold" => c < SlotOf(N)
    /\ cPc = "left" /\ ~abort_requested => slotState[cSlot] = "dumped" /\ sPc = "returned"
    /\ \A k \in c .. c + SlotCount - 1 : slotState[InRing(k)] = "full" => k < SlotOf(N)
    /\ ~failed /\ ~abort_requested =>
        \A k \in c .. SlotOf(N) - 1 : slotState[InRing(k)] = "full"

\* The q-th transfer is the first that did not complete: up to it, what the consumer has
\* still to see is the stream
Content(N, K, c, q) ==
    /\ q <= K
    /\ \A m \in N .. K - 1 : /\ m < q => reaped[m - N + 1].status = "completed"
                             /\ m = q => reaped[m - N + 1].status # "completed"
                             /\ reaped[m - N + 1].status = "cancelled" => failed
    /\ q < N => failed /\ discarded_transfers < N
    /\ q = K => sent = BlockNumber(K)
    /\ sent \in 0 .. Laps - 1
    /\ \A m \in FirstOf(c) .. q - 1 :
          data[InRing(SlotOf(m))][IndexInSlot(m)] = BlockNumber(m)

\* Where a transfer is a slot, the slot of one that failed, or was discarded for one that
\* failed before, is never filled: the consumer gets no further
Barred(c, b) ==
    /\ c <= b /\ (cPc = "hold" => c < b)
    /\ b \in c .. c + SlotCount - 1 => slotState[InRing(b)] # "full"

UsbInv(N, K, M, c, q) ==
    /\ LayoutFits /\ UsbTypes /\ Thread(N, M) /\ Queue(N, K, M) /\ Aborts /\ Discards(N)
    /\ Consumed(N, M, c) /\ Content(N, K, c, q)
    /\ PerSlot = 1 => Barred(c, AtLeast(q, Skipped))

LibUsbInv == \E N, K, M, c, q \in Nat : UsbInv(N, K, M, c, q)

\* A run starts with nothing submitted and every slot empty
LEMMA UsbStarts ==
  ASSUME Init
  PROVE  LibUsbInv
<1>1. LayoutFits
  BY LayoutsFit
<1>2. /\ SlotCount \in Nat /\ SlotCount >= 4 /\ PerSlot \in Nat \ {0} /\ Held \in Nat \ {0}
      /\ Skipped \in 0 .. SlotCount /\ Skipped \in Nat
  BY <1>1, SlotCountAssumption, LayoutAssumption DEF LayoutFits
<1>3. \A t \in Transfers :
          place[t] = InRing(SlotOf(t)) /\ place[t] \in Slots /\ t \in Nat /\ SlotOf(t) \in Nat
  <2> SUFFICES ASSUME NEW t \in Transfers
               PROVE  /\ place[t] = InRing(SlotOf(t)) /\ place[t] \in Slots /\ t \in Nat
                      /\ SlotOf(t) \in Nat
    OBVIOUS
  <2>1. t \in Nat
    BY <1>2 DEF Transfers, Held
  <2>2. SlotOf(t) \in Nat
    BY <1>1, <2>1, SlotOfType
  <2>3. InRing(SlotOf(t)) \in Slots
    BY <1>1, <2>2, RingPlaces
  <2>4. place[t] = InRing(SlotOf(t))
    BY DEF Init, InRing, SlotOf
  <2> QED
    BY <2>1, <2>2, <2>3, <2>4
<1>4. /\ Laps \in Nat /\ Laps > PerSlot /\ layout.discard_transfers \in 0 .. Laps - 1
      /\ layout.discard_transfers = FirstOf(Skipped)
  BY <1>1, LapsType
<1>5. UsbTypes
  <2>1. place \in [Transfers -> Slots]
    BY <1>3 DEF Init
  <2>2. data \in [Slots -> [0 .. PerSlot - 1 -> Int]]
    BY DEF Init, Junk
  <2>3. wire \in Seq(Transfers) /\ reaped \in Seq(Endings)
    BY DEF Init
  <2>4. slotState \in [Slots -> SlotStates]
    BY DEF Init, RingInit, SlotStates
  <2>5. /\ sPc = "submit" /\ sweeping = FALSE /\ submitted = {} /\ cancelled = {}
        /\ discarded_transfers = 0 /\ capture_complete = FALSE
        /\ failed = FALSE /\ result = "success"
        /\ telemetry = "idle" /\ telemetry_failures = 0 /\ cPc = "wait"
        /\ stop_requested = FALSE /\ abort_requested = FALSE /\ ring_abort = FALSE
    BY DEF Init
  <2>6. discarded_transfers \in 0 .. layout.discard_transfers
    BY <1>4, <2>5
  <2>7. /\ sPc \in {"submit", "loop", "events", "secure", "returned"} /\ sweeping \in BOOLEAN
        /\ submitted \subseteq Transfers /\ cancelled \subseteq Transfers
        /\ capture_complete \in BOOLEAN /\ failed \in BOOLEAN /\ result \in Results
    BY <2>5 DEF Results
  <2>8. /\ telemetry \in {"idle", "in flight", "cancelled"} /\ cPc \in {"wait", "hold", "left"}
        /\ stop_requested \in BOOLEAN /\ abort_requested \in BOOLEAN /\ ring_abort \in BOOLEAN
    BY <2>5
  <2>9. telemetry_failures \in 0 .. 2
    <3>1. telemetry_failures = 0
      BY <2>5
    <3> QED
      BY <3>1
  <2> QED
    BY <2>1, <2>2, <2>3, <2>4, <2>6, <2>7, <2>8, <2>9 DEF UsbTypes
<1>6. 0 \in Transfers /\ Nth(0) = 0 /\ 0 \in Nat
  BY <1>1, <1>2, NthType DEF Transfers, Held
<1>7. Thread(0, 0)
  BY <1>2, <1>3, <1>6 DEF Thread, Init
<1>8. Queue(0, 0, 0)
  BY <1>2, <1>3 DEF Queue, Init
<1>9. Aborts
  BY DEF Aborts, Init, RingInit
<1>10. Discards(0)
  BY <1>4 DEF Discards, Init, AtMost
<1>11. \A k \in Nat : InRing(k) \in Slots
  BY <1>1, RingPlaces
<1>12. SlotOf(0) = 0
  <2>1. 0 \in 0 .. PerSlot - 1 /\ FirstOf(0) + 0 = 0
    BY <1>2 DEF FirstOf
  <2>2. SlotOf(FirstOf(0) + 0) = 0
    BY <1>1, <2>1, FirstOfSlot
  <2> QED
    BY <2>1, <2>2
<1>13. Consumed(0, 0, Skipped)
  <2>1. cSlot = InRing(Skipped)
    BY <1>1, <1>2, RingPlaces DEF Init
  <2>2. taken = BlockNumber(FirstOf(Skipped))
    BY <1>1, <1>4, BlockNumbers DEF Init
  <2>3. \A k \in Skipped .. Skipped + SlotCount - 1 : slotState[InRing(k)] # "full"
    BY <1>2, <1>11 DEF Init, RingInit
  <2> QED
    BY <1>2, <1>12, <2>1, <2>2, <2>3 DEF Consumed, Init
<1>14. Content(0, 0, Skipped, 0)
  <2>1. BlockNumber(0) = 0
    BY <1>1, <1>4, BlockNumbers DEF LayoutFits
  <2>2. FirstOf(Skipped) \in Nat
    BY <1>4
  <2> QED
    BY <1>2, <1>4, <2>1, <2>2 DEF Content, Init
<1>15. Barred(Skipped, AtLeast(0, Skipped))
  BY <1>2, <1>11 DEF Barred, Init, RingInit, AtLeast
<1> QED
  BY <1>1, <1>2, <1>5, <1>7, <1>8, <1>9, <1>10, <1>13, <1>14, <1>15 DEF LibUsbInv, UsbInv

\* Where a transfer is a slot, blocks and slots are one thing
LEMMA WholeTransfers ==
  ASSUME LayoutFits, PerSlot = 1, NEW m \in Nat
  PROVE  SlotOf(m) = m /\ FirstOf(m) = m /\ IndexInSlot(m) = 0 /\ LastInSlot(m)
<1>1. FirstOf(m) = m /\ FirstOf(SlotOf(m)) = SlotOf(m)
  BY SlotOfType DEF FirstOf
<1>2. IndexInSlot(m) = 0 /\ m = SlotOf(m) + 0
  BY <1>1, SlotOfType
<1> QED
  BY <1>1, <1>2, SlotOfType DEF LastInSlot

\* The invariant gives each part of BuffersAreSafe
LEMMA UsbIsSafe ==
  ASSUME LibUsbInv
  PROVE  BuffersAreSafe
<1>1. PICK N, K, M, c, q \in Nat : UsbInv(N, K, M, c, q)
  BY DEF LibUsbInv
<1>2. LayoutFits /\ UsbTypes
  BY <1>1 DEF UsbInv
<1>3. SlotCount \in Nat /\ SlotCount >= 4 /\ PerSlot \in Nat \ {0} /\ Held \in Nat \ {0}
  BY <1>2, LayoutAssumption, SlotCountAssumption DEF LayoutFits
<1>4. N <= K /\ K <= M /\ M <= N + Held /\ Len(reaped) = K - N /\ Len(wire) = M - K
  BY <1>1 DEF UsbInv, Queue
<1>5. cSlot = InRing(c) /\ taken = BlockNumber(FirstOf(c))
  BY <1>1 DEF UsbInv, Consumed
<1>6. FirstOf(c) \in Nat /\ SlotOf(N) \in Nat
  <2>1. 0 \in 0 .. PerSlot - 1
    BY <1>3
  <2> QED
    BY <1>2, <2>1, FirstOfSlot, SlotOfType
<1>7. TypeOK
  <2>1. cSlot \in Slots
    BY <1>2, <1>5, RingPlaces
  <2>2. taken \in 0 .. Laps - 1
    BY <1>2, <1>5, <1>6, BlockNumbers
  <2>3. sent \in 0 .. Laps - 1
    BY <1>1 DEF UsbInv, Content
  <2>4. Len(wire) + Len(reaped) <= layout.transfer_count
    BY <1>3, <1>4 DEF Held
  <2> QED
    BY <1>2, <2>1, <2>2, <2>3, <2>4 DEF TypeOK, UsbTypes, Results
<1>8. NoWriteUnderConsumer
  <2> SUFFICES ASSUME NEW n \in 1 .. Len(wire)
               PROVE  /\ slotState[place[wire[n]]] # "full"
                      /\ cPc = "hold" => place[wire[n]] # cSlot
    BY DEF NoWriteUnderConsumer
  <2> DEFINE m == K + n - 1
             k == SlotOf(m)
  <2>1. m \in K .. M - 1 /\ m \in N .. M - 1 /\ m \in 0 .. M - 1 /\ m \in Nat
    BY <1>4
  <2>2. k \in Nat /\ SlotOf(N) <= k
    <3>1. N <= m
      BY <2>1
    <3> HIDE DEF m
    <3> QED
      BY <1>2, <2>1, <3>1, SlotOfType, SlotOfGrows
  <2>3. k < c + SlotCount
    BY <1>1, <2>1 DEF UsbInv, Consumed
  <2>4. wire[n] = Nth(m)
    <3>1. wire[m - K + 1] = Nth(m)
      BY <1>1, <2>1 DEF UsbInv, Queue
    <3> QED
      BY <1>4, <3>1
  <2>5. place[wire[n]] = InRing(k)
    BY <1>1, <2>1, <2>4 DEF UsbInv, Queue
  <2> HIDE DEF m, k
  <2>6. slotState[InRing(k)] # "full"
    <3>1. CASE c <= k
      BY <1>1, <1>3, <1>6, <2>2, <2>3, <3>1 DEF UsbInv, Consumed
    <3>2. CASE c > k
      <4>1. c = Skipped /\ Skipped <= SlotCount
        BY <1>1, <1>2, <1>6, <2>2, <3>2 DEF UsbInv, Consumed, LayoutFits
      <4>2. k + SlotCount \in c .. c + SlotCount - 1 /\ ~(k + SlotCount < SlotOf(N))
        BY <1>3, <1>6, <2>2, <3>2, <4>1
      <4>3. InRing(k + SlotCount) = InRing(k)
        BY <1>2, <2>2, RingPlaces
      <4> QED
        BY <1>1, <4>2, <4>3 DEF UsbInv, Consumed
    <3> QED
      BY <2>2, <3>1, <3>2
  <2>7. ASSUME cPc = "hold" PROVE InRing(k) # InRing(c)
    <3>1. c < SlotOf(N)
      BY <1>1, <2>7 DEF UsbInv, Consumed
    <3> QED
      BY <1>2, <1>6, <2>2, <2>3, <3>1, RingPlacesDiffer
  <2> QED
    BY <1>5, <2>5, <2>6, <2>7
<1>9. NeverOverflows
  BY <1>2 DEF NeverOverflows, UsbTypes, Results
<1>10. NothingOutstanding
  <2> SUFFICES ASSUME sPc = "returned"
               PROVE  wire = <<>> /\ reaped = <<>> /\ telemetry = "idle"
    BY DEF NothingOutstanding
  <2>1. M = N /\ telemetry = "idle"
    BY <1>1 DEF UsbInv, Thread
  <2>2. Len(wire) = 0 /\ Len(reaped) = 0
    BY <1>4, <2>1
  <2> QED
    BY <1>2, <2>1, <2>2, EmptySeq DEF UsbTypes
<1>11. StreamUnbroken
  <2> SUFFICES ASSUME cPc = "hold", ~failed \/ PerSlot = 1
               PROVE  SlotFollows
    BY DEF StreamUnbroken
  <2>1. c < SlotOf(N)
    BY <1>1 DEF UsbInv, Consumed
  <2>2. FirstOf(c) + PerSlot <= q
    <3>1. CASE ~failed
      <4>1. q >= N
        BY <1>1, <3>1 DEF UsbInv, Content
      <4>2. FirstOf(c) + PerSlot <= N
        BY <1>2, <2>1, EarlierSlot
      <4> QED
        BY <1>3, <1>6, <4>1, <4>2
    <3>2. CASE PerSlot = 1
      <4>1. c < AtLeast(q, Skipped) /\ c >= Skipped
        BY <1>1, <3>2 DEF UsbInv, Barred, Consumed
      <4>2. Skipped \in Nat
        BY <1>2, <1>3 DEF LayoutFits
      <4>3. c < q
        BY <4>1, <4>2 DEF AtLeast
      <4>4. FirstOf(c) = c
        BY <1>2, <3>2, WholeTransfers
      <4> QED
        BY <3>2, <4>3, <4>4
    <3> QED
      BY <3>1, <3>2
  <2>3. ASSUME NEW i \in 0 .. PerSlot - 1
        PROVE  data[cSlot][i] = (taken + i) % Laps
    <3>1. i \in Nat /\ FirstOf(c) + i \in FirstOf(c) .. q - 1
      BY <1>3, <1>6, <2>2
    <3>2. SlotOf(FirstOf(c) + i) = c /\ IndexInSlot(FirstOf(c) + i) = i
      BY <1>2, FirstOfSlot
    <3>3. data[InRing(c)][i] = BlockNumber(FirstOf(c) + i)
      <4>1. data[InRing(SlotOf(FirstOf(c) + i))][IndexInSlot(FirstOf(c) + i)]
               = BlockNumber(FirstOf(c) + i)
        BY <1>1, <3>1 DEF UsbInv, Content
      <4> QED
        BY <3>2, <4>1
    <3>4. (BlockNumber(FirstOf(c)) + i) % Laps = BlockNumber(FirstOf(c) + i)
      BY <1>2, <1>6, <3>1, BlockNumbers
    <3> QED
      BY <1>5, <3>3, <3>4
  <2>4. data[cSlot] \in [0 .. PerSlot - 1 -> Int]
    BY <1>2, <1>7 DEF UsbTypes, TypeOK
  <2> HIDE DEF UsbInv
  <2> QED
    BY <2>3, <2>4 DEF SlotFollows
<1>12. StopKeepsWholeSlots
  <2> SUFFICES ASSUME sPc = "returned", cPc = "left", ~failed, ~abort_requested, ~Discarding
               PROVE  (sent - taken) % Laps < PerSlot
    BY DEF StopKeepsWholeSlots
  <2>1. M = N /\ K = N
    BY <1>1, <1>4 DEF UsbInv, Thread
  <2>2. q = N
    BY <1>1, <2>1 DEF UsbInv, Content
  <2>3. sent = BlockNumber(N)
    BY <1>1, <2>1, <2>2 DEF UsbInv, Content
  <2>4. c <= SlotOf(N)
    <3>1. layout.discard_transfers = FirstOf(Skipped) /\ layout.discard_transfers \in Nat
      BY <1>2, LapsType
    <3>2. FirstOf(Skipped) <= N
      <4>1. discarded_transfers <= N
        BY <1>1 DEF UsbInv, Discards
      <4>2. discarded_transfers \in 0 .. layout.discard_transfers
        BY <1>2 DEF UsbTypes
      <4>3. ~(discarded_transfers < layout.discard_transfers)
        BY DEF Discarding
      <4> QED
        BY <3>1, <4>1, <4>2, <4>3
    <3>3. Skipped \in Nat /\ Skipped <= SlotOf(N)
      BY <1>2, <1>3, <3>2, LaterSlot DEF LayoutFits
    <3> QED
      BY <1>1, <3>3 DEF UsbInv, Consumed
  <2>5. slotState[InRing(c)] = "dumped"
    BY <1>1, <1>5 DEF UsbInv, Consumed
  <2>6. ~(c < SlotOf(N))
    <3> SUFFICES ASSUME c < SlotOf(N) PROVE FALSE
      OBVIOUS
    <3>1. c \in c .. SlotOf(N) - 1
      BY <1>6
    <3>2. slotState[InRing(c)] = "full"
      BY <1>1, <3>1 DEF UsbInv, Consumed
    <3> QED
      BY <2>5, <3>2
  <2>7. c = SlotOf(N)
    BY <1>6, <2>4, <2>6
  <2>8. N = FirstOf(c) + IndexInSlot(N) /\ IndexInSlot(N) \in 0 .. PerSlot - 1
    BY <1>2, <2>7, SlotOfType
  <2>9. (BlockNumber(FirstOf(c) + IndexInSlot(N)) - BlockNumber(FirstOf(c))) % Laps
            = IndexInSlot(N)
    BY <1>2, <1>6, <2>8, BlocksBetween
  <2> QED
    BY <1>3, <1>5, <2>3, <2>8, <2>9
<1> QED
  BY <1>7, <1>8, <1>9, <1>10, <1>11, <1>12 DEF BuffersAreSafe

-----------------------------------------------------------------------------
(* What a step leaves alone, and the queue of transfers *)

\* The layout is fixed for the run, and with it what the numbers mean
LEMMA LayoutKept ==
  ASSUME layout' = layout
  PROVE  /\ (LayoutFits' <=> LayoutFits) /\ PerSlot' = PerSlot /\ Held' = Held /\ Span' = Span
         /\ Skipped' = Skipped /\ Laps' = Laps /\ Transfers' = Transfers
         /\ Endings' = Endings
         /\ layout'.discard_transfers = layout.discard_transfers
         /\ \A m : /\ SlotOf(m)' = SlotOf(m) /\ Nth(m)' = Nth(m) /\ InRing(m)' = InRing(m)
                   /\ BlockNumber(m)' = BlockNumber(m) /\ FirstOf(m)' = FirstOf(m)
                   /\ IndexInSlot(m)' = IndexInSlot(m)
BY DEF LayoutFits, PerSlot, Held, Span, Skipped, Laps, Transfers, Endings, SlotOf, Nth, InRing,
       BlockNumber, FirstOf, IndexInSlot

LEMMA LayoutTypes ==
  ASSUME layout' = layout
  PROVE  /\ PerSlot' = PerSlot /\ Transfers' = Transfers /\ Endings' = Endings
         /\ layout'.discard_transfers = layout.discard_transfers
BY DEF PerSlot, Transfers, Endings

\* What each part of the invariant depends on
LEMMA ThreadKept ==
  ASSUME NEW N \in Nat, NEW M \in Nat, Thread(N, M), layout' = layout,
         UNCHANGED <<sPc, entry, failed, sweeping, capture_complete, place, cancelled,
                     telemetryVars>>
  PROVE  Thread(N, M)'
BY LayoutKept DEF Thread, telemetryVars

LEMMA QueueKept ==
  ASSUME NEW N \in Nat, NEW K \in Nat, NEW M \in Nat, Queue(N, K, M), layout' = layout,
         UNCHANGED <<wire, reaped, place, submitted>>, sPc' = "submit" => sPc = "submit"
  PROVE  Queue(N, K, M)'
BY LayoutKept DEF Queue

LEMMA ConsumedKept ==
  ASSUME NEW N \in Nat, NEW M \in Nat, NEW L \in Nat, NEW c \in Nat, Consumed(N, M, c),
         layout' = layout, UNCHANGED <<slotState, cSlot, taken, cPc, abort_requested>>,
         failed => failed', sPc = "returned" => sPc' = "returned",
         \A m \in M .. L - 1 : SlotOf(m) < c + SlotCount
  PROVE  Consumed(N, L, c)'
<1>1. \A m \in 0 .. L - 1 : SlotOf(m) < c + SlotCount
  BY DEF Consumed
<1> QED
  BY <1>1, LayoutKept DEF Consumed

LEMMA AbortsKept ==
  ASSUME Aborts, UNCHANGED <<slotState, abort_requested, ring_abort>>,
         sPc = "returned" => sPc' = "returned"
  PROVE  Aborts'
BY DEF Aborts

LEMMA ContentKept ==
  ASSUME NEW N \in Nat, NEW K \in Nat, NEW c \in Nat, NEW q \in Nat, Content(N, K, c, q),
         layout' = layout,
         UNCHANGED <<reaped, discarded_transfers, sent, data>>, failed => failed'
  PROVE  Content(N, K, c, q)'
BY LayoutKept DEF Content

LEMMA BarredKept ==
  ASSUME NEW c \in Nat, NEW b \in Nat, Barred(c, b), layout' = layout,
         UNCHANGED <<slotState, cPc>>
  PROVE  Barred(c, b)'
BY LayoutKept DEF Barred

\* What the steps need of the counters
LEMMA Counters ==
  ASSUME NEW N \in Nat, NEW K \in Nat, NEW M \in Nat, NEW c \in Nat, NEW q \in Nat,
         UsbInv(N, K, M, c, q)
  PROVE  /\ SlotCount \in Nat /\ SlotCount >= 4 /\ PerSlot \in Nat \ {0}
         /\ Held \in Nat \ {0} /\ Skipped \in Nat /\ Skipped <= SlotCount
         /\ Span \in 1 .. SlotCount - 1
         /\ N <= K /\ K <= M /\ M <= N + Held /\ q <= K
         /\ SlotOf(N) \in Nat /\ SlotOf(M) \in Nat /\ SlotOf(N) <= SlotOf(M)
         /\ SlotOf(N) <= c + SlotCount /\ InRing(c) \in Slots /\ cSlot = InRing(c)
<1>1. LayoutFits
  BY DEF UsbInv
<1>2. /\ SlotCount \in Nat /\ SlotCount >= 4 /\ PerSlot \in Nat \ {0}
      /\ Held \in Nat \ {0} /\ Skipped \in Nat /\ Skipped <= SlotCount
      /\ Span \in 1 .. SlotCount - 1
  BY <1>1, LayoutAssumption, SlotCountAssumption DEF LayoutFits
<1>3. N <= K /\ K <= M /\ M <= N + Held /\ q <= K
  BY DEF UsbInv, Queue, Content
<1>4. SlotOf(N) \in Nat /\ SlotOf(M) \in Nat /\ SlotOf(N) <= SlotOf(M)
  <2>1. N <= M
    BY <1>3
  <2> QED
    BY <1>1, <2>1, SlotOfType, SlotOfGrows
<1>5. SlotOf(N) <= c + SlotCount
  <2>1. CASE N = 0
    <3>1. 0 \in 0 .. PerSlot - 1 /\ FirstOf(0) + 0 = 0
      BY <1>2 DEF FirstOf
    <3>2. SlotOf(FirstOf(0) + 0) = 0
      BY <1>1, <3>1, FirstOfSlot
    <3> QED
      BY <1>2, <2>1, <3>1, <3>2
  <2>2. CASE N # 0
    <3> DEFINE m == N - 1
    <3>1. m \in Nat /\ m \in 0 .. M - 1 /\ m + 1 = N
      BY <1>3, <2>2
    <3>2. SlotOf(m) < c + SlotCount
      BY <3>1 DEF UsbInv, Consumed
    <3> HIDE DEF m
    <3>3. SlotOf(m) \in Nat /\ SlotOf(m + 1) <= SlotOf(m) + 1
      <4>1. SlotOf(m) \in Nat
        BY <1>1, <3>1, SlotOfType
      <4>2. SlotOf(m + 1) \in {SlotOf(m), SlotOf(m) + 1}
        BY <1>1, <3>1, SlotOfNext
      <4> QED
        BY <4>1, <4>2
    <3> QED
      BY <1>2, <1>4, <3>1, <3>2, <3>3
  <2> QED
    BY <2>1, <2>2
<1>6. InRing(c) \in Slots /\ cSlot = InRing(c)
  BY <1>1, RingPlaces DEF UsbInv, Consumed
<1> QED
  BY <1>2, <1>3, <1>4, <1>5, <1>6

\* The two ends of a queue
LEMMA TailOf ==
  ASSUME NEW S, NEW s \in Seq(S), s # <<>>
  PROVE  /\ Tail(s) \in Seq(S) /\ Len(s) >= 1 /\ Len(s) \in Nat /\ Len(Tail(s)) = Len(s) - 1
         /\ Head(s) = s[1] /\ Head(s) \in S
         /\ \A i \in 1 .. Len(s) - 1 : Tail(s)[i] = s[i + 1]
BY HeadTailProperties, LenProperties, EmptySeq

LEMMA AppendOf ==
  ASSUME NEW S, NEW s \in Seq(S), NEW e \in S
  PROVE  /\ Append(s, e) \in Seq(S) /\ Len(s) \in Nat /\ Len(Append(s, e)) = Len(s) + 1
         /\ \A i \in 1 .. Len(s) : Append(s, e)[i] = s[i]
         /\ Append(s, e)[Len(s) + 1] = e
BY AppendProperties, LenProperties

\* One more is submitted
LEMMA Submitted ==
  ASSUME NEW N \in Nat, NEW K \in Nat, NEW M \in Nat, Queue(N, K, M), LayoutFits,
         M < N + Held, entry = Nth(M), place[entry] = InRing(SlotOf(M)),
         wire \in Seq(Transfers), layout' = layout,
         wire' = Append(wire, entry), submitted' = submitted \cup {entry},
         UNCHANGED <<reaped, place>>, sPc' = "submit" => sPc = "submit"
  PROVE  Queue(N, K, M + 1)' /\ wire' \in Seq(Transfers)
<1>1. /\ N <= K /\ K <= M /\ Len(reaped) = K - N /\ Len(wire) = M - K
      /\ \A m \in N .. K - 1 : reaped[m - N + 1].transfer = Nth(m)
      /\ \A m \in K .. M - 1 : wire[m - K + 1] = Nth(m)
      /\ \A m \in N .. M - 1 : place[Nth(m)] = InRing(SlotOf(m))
      /\ submitted = {Nth(m) : m \in N .. M - 1}
      /\ sPc = "submit" => \A t \in Transfers : place[t] = InRing(SlotOf(t))
  BY DEF Queue
<1>2. Nth(M) \in Transfers /\ Held \in Nat
  BY NthType DEF LayoutFits
<1>3. /\ wire' \in Seq(Transfers) /\ Len(wire') = M - K + 1
      /\ \A i \in 1 .. Len(wire) : wire'[i] = wire[i]
      /\ wire'[Len(wire) + 1] = Nth(M)
  BY <1>1, <1>2, AppendOf
<1>4. \A m \in K .. M : wire'[m - K + 1] = Nth(m)
  <2> SUFFICES ASSUME NEW m \in K .. M PROVE wire'[m - K + 1] = Nth(m)
    OBVIOUS
  <2>1. CASE m = M
    BY <1>1, <1>3, <2>1
  <2>2. CASE m # M
    <3>1. m \in K .. M - 1 /\ m - K + 1 \in 1 .. Len(wire)
      BY <1>1, <2>2
    <3> QED
      BY <1>1, <1>3, <3>1
  <2> QED
    BY <2>1, <2>2
<1>5. N .. M = (N .. M - 1) \cup {M} /\ (M + 1) - 1 = M
  BY <1>1
<1>6. submitted' = {Nth(m) : m \in N .. M}
  BY <1>1, <1>5
<1>7. \A m \in N .. M : place[Nth(m)] = InRing(SlotOf(m))
  BY <1>1, <1>5
<1>8. /\ M + 1 <= N + Held /\ K <= M + 1 /\ Len(wire') = (M + 1) - K
  BY <1>1, <1>2, <1>3
<1> QED
  BY <1>1, <1>3, <1>4, <1>5, <1>6, <1>7, <1>8, LayoutKept DEF Queue

\* The first of those that ended is dealt with, and may be given its next place
LEMMA Reaped ==
  ASSUME NEW N \in Nat, NEW K \in Nat, NEW M \in Nat, Queue(N, K, M), LayoutFits,
         reaped # <<>>, reaped \in Seq(Endings), layout' = layout, sPc' # "submit",
         reaped' = Tail(reaped), submitted' = submitted \ {Head(reaped).transfer}, wire' = wire,
         \A t \in Transfers \ {Nth(N)} : place'[t] = place[t]
  PROVE  /\ Queue(N + 1, K, M)' /\ reaped' \in Seq(Endings)
         /\ N < K /\ N < M /\ Head(reaped) = reaped[1] /\ Head(reaped) \in Endings
         /\ Head(reaped).transfer = Nth(N) /\ place[Nth(N)] = InRing(SlotOf(N))
         /\ \A m \in N + 1 .. K - 1 : reaped'[m - (N + 1) + 1] = reaped[m - N + 1]
<1>1. /\ N <= K /\ K <= M /\ M <= N + Held /\ Len(reaped) = K - N /\ Len(wire) = M - K
      /\ \A m \in N .. K - 1 : reaped[m - N + 1].transfer = Nth(m)
      /\ \A m \in K .. M - 1 : wire[m - K + 1] = Nth(m)
      /\ \A m \in N .. M - 1 : place[Nth(m)] = InRing(SlotOf(m))
      /\ submitted = {Nth(m) : m \in N .. M - 1}
  BY DEF Queue
<1>2. /\ reaped' \in Seq(Endings) /\ Len(reaped) >= 1 /\ Len(reaped') = Len(reaped) - 1
      /\ Head(reaped) = reaped[1] /\ Head(reaped) \in Endings
      /\ \A i \in 1 .. Len(reaped) - 1 : reaped'[i] = reaped[i + 1]
  BY TailOf
<1>3. N < K /\ N < M /\ N + 1 <= K /\ Held \in Nat
  BY <1>1, <1>2 DEF LayoutFits
<1>4. Head(reaped).transfer = Nth(N) /\ place[Nth(N)] = InRing(SlotOf(N))
  <2>1. N \in N .. K - 1 /\ N \in N .. M - 1 /\ N - N + 1 = 1
    BY <1>3
  <2>2. reaped[N - N + 1].transfer = Nth(N)
    BY <1>1, <2>1
  <2> QED
    BY <1>1, <1>2, <2>1, <2>2
<1>5. \A m \in N + 1 .. K - 1 : reaped'[m - (N + 1) + 1] = reaped[m - N + 1]
  <2> SUFFICES ASSUME NEW m \in N + 1 .. K - 1
               PROVE  reaped'[m - (N + 1) + 1] = reaped[m - N + 1]
    OBVIOUS
  <2>1. m - N \in 1 .. Len(reaped) - 1 /\ m - (N + 1) + 1 = m - N
    BY <1>1, <1>3
  <2> QED
    BY <1>2, <2>1
<1>6. \A m \in N + 1 .. K - 1 : reaped'[m - (N + 1) + 1].transfer = Nth(m)
  BY <1>1, <1>5
<1>7. \A m \in N + 1 .. M - 1 : Nth(m) # Nth(N) /\ Nth(m) \in Transfers
  <2> SUFFICES ASSUME NEW m \in N + 1 .. M - 1
               PROVE  Nth(m) # Nth(N) /\ Nth(m) \in Transfers
    OBVIOUS
  <2>1. m \in Nat /\ N < m /\ m < N + Held
    BY <1>1, <1>3
  <2> QED
    BY <2>1, NthDiffers, NthType
<1>8. \A m \in N + 1 .. M - 1 : place'[Nth(m)] = InRing(SlotOf(m))
  BY <1>1, <1>7
<1>9. submitted' = {Nth(m) : m \in N + 1 .. M - 1}
  <2>1. N .. M - 1 = (N + 1 .. M - 1) \cup {N}
    BY <1>3
  <2> QED
    BY <1>1, <1>4, <1>7, <2>1
<1>10. /\ M <= (N + 1) + Held /\ Len(reaped') = K - (N + 1)
  BY <1>1, <1>2, <1>3
<1>11. Queue(N + 1, K, M)'
  <2>1. Len(wire') = M - K /\ \A m \in K .. M - 1 : wire'[m - K + 1] = Nth(m)
    BY <1>1
  <2>2. /\ Held' = Held
        /\ \A m : Nth(m)' = Nth(m) /\ InRing(m)' = InRing(m) /\ SlotOf(m)' = SlotOf(m)
    BY LayoutKept
  <2>3. submitted' = {Nth(m)' : m \in N + 1 .. M - 1}
    BY <1>9, <2>2
  <2>4. N + 1 <= K /\ K <= M /\ M <= (N + 1) + Held'
    BY <1>1, <1>3, <1>10, <2>2
  <2>5. \A m \in N + 1 .. M - 1 : place'[Nth(m)'] = InRing(SlotOf(m))'
    BY <1>8, <2>2
  <2>6. /\ \A m \in N + 1 .. K - 1 : reaped'[m - (N + 1) + 1].transfer = Nth(m)'
        /\ \A m \in K .. M - 1 : wire'[m - K + 1] = Nth(m)'
    BY <1>6, <2>1, <2>2
  <2> QED
    BY <1>10, <2>1, <2>3, <2>4, <2>5, <2>6 DEF Queue
<1> QED
  BY <1>2, <1>3, <1>4, <1>5, <1>11

-----------------------------------------------------------------------------
(* The transfer thread *)

\* What the N-th transfer held is the consumer's to see, or the run has failed
LEMMA ReapedContent ==
  ASSUME NEW N \in Nat, NEW K \in Nat, NEW M \in Nat, NEW c \in Nat, NEW q \in Nat,
         UsbInv(N, K, M, c, q), N < K, layout' = layout,
         \A m \in N + 1 .. K - 1 : reaped'[m - (N + 1) + 1] = reaped[m - N + 1],
         UNCHANGED <<data, sent>>, failed => failed',
         discarded_transfers' \in {discarded_transfers, discarded_transfers + 1},
         q = N => failed' /\ discarded_transfers' = discarded_transfers
  PROVE  Content(N + 1, K, c, q)'
<1>1. /\ q <= K
      /\ \A m \in N .. K - 1 : /\ m < q => reaped[m - N + 1].status = "completed"
                               /\ m = q => reaped[m - N + 1].status # "completed"
                               /\ reaped[m - N + 1].status = "cancelled" => failed
      /\ q < N => failed /\ discarded_transfers < N
      /\ q = K => sent = BlockNumber(K)
      /\ sent \in 0 .. Laps - 1
      /\ \A m \in FirstOf(c) .. q - 1 :
            data[InRing(SlotOf(m))][IndexInSlot(m)] = BlockNumber(m)
  BY DEF UsbInv, Content
<1>2. discarded_transfers <= N /\ discarded_transfers \in Int
  <2>1. layout.discard_transfers \in 0 .. Laps - 1 /\ Laps \in Nat
    BY LapsType DEF UsbInv
  <2>2. discarded_transfers \in 0 .. layout.discard_transfers
    BY DEF UsbInv, UsbTypes
  <2>3. discarded_transfers <= N
    BY DEF UsbInv, Discards
  <2> QED
    BY <2>1, <2>2, <2>3
<1>3. q < N + 1 => failed' /\ discarded_transfers' < N + 1
  BY <1>1, <1>2
<1>4. \A m \in N + 1 .. K - 1 :
          /\ m < q => reaped'[m - (N + 1) + 1].status = "completed"
          /\ m = q => reaped'[m - (N + 1) + 1].status # "completed"
          /\ reaped'[m - (N + 1) + 1].status = "cancelled" => failed'
  BY <1>1
<1> QED
  BY <1>1, <1>3, <1>4, LayoutKept DEF Content

\* A transfer that ends no slot changes nothing for the consumer
LEMMA ReapedConsumed ==
  ASSUME NEW N \in Nat, NEW K \in Nat, NEW M \in Nat, NEW c \in Nat, NEW q \in Nat,
         UsbInv(N, K, M, c, q), sPc # "returned", layout' = layout,
         UNCHANGED <<slotState, cSlot, taken, cPc, abort_requested>>, failed => failed',
         failed' \/ SlotOf(N + 1) = SlotOf(N) \/ SlotOf(N + 1) <= c
  PROVE  Consumed(N + 1, M, c)'
<1>1. LayoutFits /\ Consumed(N, M, c)
  BY DEF UsbInv
<1>2. SlotOf(N) \in Nat /\ SlotOf(N + 1) \in Nat /\ SlotOf(N) <= SlotOf(N + 1)
  <2>1. N + 1 \in Nat /\ N <= N + 1
    OBVIOUS
  <2> QED
    BY <1>1, <2>1, SlotOfType, SlotOfGrows
<1>3. /\ c = Skipped \/ c <= SlotOf(N + 1)
      /\ cPc = "hold" => c < SlotOf(N + 1)
      /\ \A k \in c .. c + SlotCount - 1 : slotState[InRing(k)] = "full" => k < SlotOf(N + 1)
  BY <1>1, <1>2, SlotCountAssumption DEF Consumed
<1>4. ~failed' /\ ~abort_requested =>
          \A k \in c .. SlotOf(N + 1) - 1 : slotState[InRing(k)] = "full"
  <2>1. CASE SlotOf(N + 1) = SlotOf(N)
    BY <1>1, <2>1 DEF Consumed
  <2>2. CASE SlotOf(N + 1) <= c
    BY <1>2, <2>2
  <2> QED
    BY <2>1, <2>2
<1> QED
  BY <1>1, <1>3, <1>4, LayoutKept DEF Consumed

\* The first submissions, each transfer in its own place
LEMMA SubmitNextKeeps ==
  ASSUME LibUsbInv, SubmitNext
  PROVE  LibUsbInv'
<1>1. PICK N, K, M, c, q \in Nat : UsbInv(N, K, M, c, q)
  BY DEF LibUsbInv
<1>2. /\ LayoutFits /\ UsbTypes /\ Thread(N, M) /\ Queue(N, K, M) /\ Aborts /\ Discards(N)
      /\ Consumed(N, M, c) /\ Content(N, K, c, q)
      /\ PerSlot = 1 => Barred(c, AtLeast(q, Skipped))
  BY <1>1 DEF UsbInv
<1>3. /\ SlotCount \in Nat /\ SlotCount >= 4 /\ Held \in Nat \ {0} /\ PerSlot \in Nat \ {0}
      /\ Span \in 1 .. SlotCount - 1 /\ N <= K /\ K <= M
  BY <1>1, Counters
<1>4. /\ sPc = "submit" /\ N = 0 /\ M < Held /\ entry = Nth(M) /\ entry = M
      /\ place[entry] = InRing(SlotOf(M)) /\ ~failed /\ ~capture_complete /\ ~sweeping
  BY <1>2, NthType DEF SubmitNext, Thread
<1>5. /\ layout' = layout /\ entry' = entry + 1
      /\ UNCHANGED <<slotState, sweeping, place, discarded_transfers, capture_complete,
                     telemetry, telemetry_failures, reaped, device, polling, data, sent,
                     cPc, cSlot, taken, stop_requested, abort_requested, ring_abort>>
  BY DEF SubmitNext, SourceFrame, telemetryVars, consumerVars, flagVars
<1>6. LayoutFits'
  BY <1>2, <1>5, LayoutKept
<1>7. Transfers = 0 .. Held - 1 /\ entry \in Transfers
  BY <1>3, <1>4 DEF Transfers, Held
<1>8. SlotOf(M) < c + SlotCount
  <2>1. M <= Held /\ 0 + Held = Held /\ 0 \in Nat /\ SlotOf(M) \in Nat
    BY <1>2, <1>3, <1>4, SlotOfType
  <2>2. 0 \in 0 .. PerSlot - 1 /\ FirstOf(0) + 0 = 0
    BY <1>3 DEF FirstOf
  <2>3. SlotOf(0) = 0
    <3>1. SlotOf(FirstOf(0) + 0) = 0
      BY <1>2, <2>2, FirstOfSlot
    <3> QED
      BY <2>2, <3>1
  <2>4. SlotOf(0 + Held) = SlotOf(0) + Span
    BY <1>2, NextLap
  <2>5. SlotOf(M) <= SlotOf(Held)
    BY <1>2, <1>3, <2>1, SlotOfGrows
  <2> QED
    BY <1>3, <2>1, <2>3, <2>4, <2>5
<1>9. Discards(N)' /\ Aborts'
  <2>1. failed => failed'
    BY <1>4
  <2>2. sPc # "returned"
    BY <1>4
  <2> QED
    BY <1>2, <1>4, <1>5, <2>2, LayoutKept, AbortsKept DEF Discards
<1>10. Content(N, K, c, q)'
  BY <1>2, <1>4, <1>5, ContentKept
<1>11. PerSlot' = 1 => Barred(c, AtLeast(q, Skipped))'
  BY <1>2, <1>5, LayoutKept DEF Barred, AtLeast
<1>12. CASE /\ wire' = Append(wire, entry)
            /\ submitted' = submitted \cup {entry} /\ cancelled' = cancelled \ {entry}
            /\ sPc' = IF entry + 1 \in Transfers THEN "submit" ELSE "loop"
            /\ UNCHANGED <<failed, result, faults>>
  <2> DEFINE L == M + 1
  <2>1. L \in Nat /\ entry' = L
    BY <1>4, <1>5
  <2>2. Queue(N, K, M + 1)' /\ wire' \in Seq(Transfers)
    <3>1. M < N + Held /\ wire \in Seq(Transfers)
      <4>1. wire \in Seq(Transfers)
        BY <1>2 DEF UsbTypes
      <4>2. M < Held /\ N = 0 /\ Held \in Nat
        BY <1>3, <1>4
      <4> QED
        BY <4>1, <4>2
    <3> QED
      BY <1>2, <1>4, <1>5, <1>12, <3>1, Submitted
  <2>3. sPc' = IF M + 1 < Held THEN "submit" ELSE "loop"
    BY <1>3, <1>4, <1>7, <1>12
  <2>4. Thread(N, M + 1)'
    <3>1. ASSUME M + 1 < Held
          PROVE  entry' = Nth(M + 1) /\ place'[entry'] = InRing(SlotOf(M + 1))
      <4>1. Nth(M + 1) = M + 1 /\ M + 1 \in Transfers
        BY <1>2, <1>3, <1>7, <3>1, NthType
      <4>2. place[M + 1] = InRing(SlotOf(M + 1))
        BY <1>2, <1>4, <4>1 DEF Queue
      <4> QED
        BY <1>4, <1>5, <4>1, <4>2
    <3>2. M + 1 >= Held => M + 1 = N + Held
      BY <1>3, <1>4
    <3>3. cancelled' = {}
      BY <1>2, <1>4, <1>12 DEF Thread
    <3>4. /\ layout' = layout /\ ~failed' /\ ~capture_complete' /\ ~sweeping'
          /\ telemetry' = telemetry /\ telemetry_failures' = telemetry_failures
      BY <1>4, <1>5, <1>12
    <3>5. telemetry' = "in flight" => telemetry_failures' < 2
      BY <1>2, <3>4 DEF Thread
    <3>6. /\ Held' = Held
          /\ \A m : Nth(m)' = Nth(m) /\ InRing(m)' = InRing(m) /\ SlotOf(m)' = SlotOf(m)
      BY <1>5, LayoutKept
    <3>7. (sPc' = "submit" /\ M + 1 < Held) \/ (sPc' = "loop" /\ M + 1 = N + Held)
      BY <1>3, <1>4, <2>3, <3>2
    <3>8. CASE sPc' = "submit" /\ M + 1 < Held
      BY <1>4, <3>1, <3>3, <3>4, <3>5, <3>6, <3>8 DEF Thread
    <3>9. CASE sPc' = "loop" /\ M + 1 = N + Held
      BY <3>3, <3>4, <3>5, <3>6, <3>9 DEF Thread
    <3> QED
      BY <3>7, <3>8, <3>9
  <2>5. Consumed(N, M + 1, c)'
    <3>1. \A m \in M .. (M + 1) - 1 : SlotOf(m) < c + SlotCount
      BY <1>8
    <3>2. M + 1 \in Nat /\ (failed => failed') /\ sPc # "returned"
      BY <1>4
    <3> QED
      BY <1>2, <1>5, <3>1, <3>2, ConsumedKept
  <2>6. UsbTypes'
    <3>1. submitted' \subseteq Transfers /\ cancelled' \subseteq Transfers
      BY <1>2, <1>7, <1>12 DEF UsbTypes
    <3>2. sPc' \in {"submit", "loop", "events", "secure", "returned"}
      BY <2>3
    <3> QED
      BY <1>2, <1>5, <1>12, <2>2, <3>1, <3>2, LayoutTypes DEF UsbTypes
  <2>7. UsbInv(N, K, M + 1, c, q)'
    BY <1>6, <1>9, <1>10, <1>11, <2>2, <2>4, <2>5, <2>6 DEF UsbInv
  <2> QED
    BY <2>1, <2>7 DEF LibUsbInv
<1>13. CASE /\ failed' /\ result' \in Results /\ sPc' = "loop"
            /\ UNCHANGED <<wire, submitted, cancelled>>
  <2>1. Queue(N, K, M)'
    BY <1>2, <1>5, <1>13, QueueKept
  <2>2. Thread(N, M)'
    BY <1>2, <1>4, <1>5, <1>13, LayoutKept DEF Thread
  <2>3. Consumed(N, M, c)'
    BY <1>2, <1>4, <1>5, <1>13, ConsumedKept
  <2>4. UsbTypes'
    BY <1>2, <1>5, <1>13, LayoutTypes DEF UsbTypes
  <2>5. UsbInv(N, K, M, c, q)'
    BY <1>6, <1>9, <1>10, <1>11, <1>13, <2>1, <2>2, <2>3, <2>4 DEF UsbInv, Discards
  <2> QED
    BY <2>5 DEF LibUsbInv
<1>14. result \in Results
  BY <1>2 DEF UsbTypes
<1> QED
  BY <1>4, <1>12, <1>13, <1>14 DEF SubmitNext, Submit, Fail, Results

\* Nothing is submitted that is not in flight
LEMMA NoneInFlight ==
  ASSUME NEW N \in Nat, NEW K \in Nat, NEW M \in Nat, Queue(N, K, M), submitted = {}
  PROVE  M = N
<1> SUFFICES ASSUME M # N PROVE FALSE
  OBVIOUS
<1>1. N \in N .. M - 1 /\ submitted = {Nth(m) : m \in N .. M - 1}
  BY DEF Queue
<1>2. Nth(N) \in submitted
  BY <1>1
<1> QED
  BY <1>2

\* The sweep cancels only in a run that has failed or has nothing in flight
LEMMA RunLoopKeeps ==
  ASSUME LibUsbInv, RunLoop
  PROVE  LibUsbInv'
<1>1. PICK N, K, M, c, q \in Nat : UsbInv(N, K, M, c, q)
  BY DEF LibUsbInv
<1>2. /\ LayoutFits /\ UsbTypes /\ Thread(N, M) /\ Queue(N, K, M) /\ Aborts /\ Discards(N)
      /\ Consumed(N, M, c) /\ Content(N, K, c, q)
      /\ PerSlot = 1 => Barred(c, AtLeast(q, Skipped))
  BY <1>1 DEF UsbInv
<1>3. /\ sPc = "loop" /\ sPc' = "events" /\ layout' = layout
      /\ UNCHANGED <<slotState, entry, place, submitted, discarded_transfers,
                     capture_complete, failed, result, wire, reaped, data, sent,
                     cPc, cSlot, taken, stop_requested, abort_requested, ring_abort>>
  BY DEF RunLoop, SourceFrame, consumerVars, flagVars
<1>4. /\ sweeping' \in BOOLEAN /\ (sweeping' => failed \/ M = N)
      /\ cancelled' \subseteq Transfers /\ (cancelled' # {} => failed)
  <2>1. CASE ~failed /\ submitted # {}
    <3>1. UNCHANGED <<sweeping, cancelled>>
      BY <2>1 DEF RunLoop
    <3> QED
      BY <1>2, <3>1 DEF UsbTypes, Thread
  <2>2. CASE ~(~failed /\ submitted # {})
    <3>1. sweeping' = TRUE /\ cancelled' = submitted
      BY <2>2 DEF RunLoop
    <3>2. failed \/ M = N
      BY <1>2, <2>2, NoneInFlight
    <3> QED
      BY <1>2, <2>2, <3>1, <3>2 DEF UsbTypes
  <2> QED
    BY <2>1, <2>2
<1>5. /\ telemetry' \in {"idle", "in flight", "cancelled"} /\ telemetry_failures' \in 0 .. 2
      /\ telemetry' = "in flight" => telemetry_failures' < 2
  <2>1. /\ telemetry \in {"idle", "in flight", "cancelled"} /\ telemetry_failures \in 0 .. 2
        /\ telemetry = "in flight" => telemetry_failures < 2
    BY <1>2 DEF UsbTypes, Thread
  <2>2. CASE ~failed /\ submitted # {}
    <3>1. PollTelemetry
      BY <2>2 DEF RunLoop
    <3>2. CASE telemetry' = telemetry /\ telemetry_failures' = telemetry_failures
      BY <2>1, <3>2
    <3>3. CASE telemetry' = "in flight" /\ telemetry_failures' = telemetry_failures
                /\ telemetry_failures < 2
      BY <2>1, <3>3
    <3>4. CASE /\ telemetry = "idle" /\ telemetry' = telemetry
                /\ telemetry_failures' = telemetry_failures + 1 /\ telemetry_failures < 2
      BY <2>1, <3>4
    <3> QED
      BY <3>1, <3>2, <3>3, <3>4 DEF PollTelemetry, telemetryVars
  <2>3. CASE ~(~failed /\ submitted # {})
    <3>1. /\ telemetry' = IF telemetry = "in flight" THEN "cancelled" ELSE telemetry
          /\ UNCHANGED telemetry_failures
      BY <2>3 DEF RunLoop
    <3> QED
      BY <2>1, <3>1
  <2> QED
    BY <2>2, <2>3
<1>6. Thread(N, M)'
  <2>1. ~failed /\ ~capture_complete => M = N + Held
    BY <1>2, <1>3 DEF Thread
  <2> QED
    BY <1>3, <1>4, <1>5, <2>1, LayoutKept DEF Thread
<1>7. Queue(N, K, M)'
  BY <1>2, <1>3, QueueKept
<1>8. Consumed(N, M, c)' /\ Aborts'
  BY <1>2, <1>3, ConsumedKept, AbortsKept
<1>9. Content(N, K, c, q)'
  BY <1>2, <1>3, ContentKept
<1>10. UsbTypes'
  BY <1>2, <1>3, <1>4, <1>5, LayoutTypes DEF UsbTypes
<1>11. UsbInv(N, K, M, c, q)'
  BY <1>2, <1>3, <1>6, <1>7, <1>8, <1>9, <1>10, LayoutKept DEF UsbInv, Discards, Barred, AtLeast
<1> QED
  BY <1>11 DEF LibUsbInv

\* Back at the top of the loop, an abort seen or not
LEMMA EventsReturnKeeps ==
  ASSUME LibUsbInv, EventsReturn
  PROVE  LibUsbInv'
<1>1. PICK N, K, M, c, q \in Nat : UsbInv(N, K, M, c, q)
  BY DEF LibUsbInv
<1>2. /\ LayoutFits /\ UsbTypes /\ Thread(N, M) /\ Queue(N, K, M) /\ Aborts /\ Discards(N)
      /\ Consumed(N, M, c) /\ Content(N, K, c, q)
      /\ PerSlot = 1 => Barred(c, AtLeast(q, Skipped))
  BY <1>1 DEF UsbInv
<1>3. /\ sPc = "events" /\ ~sweeping /\ sPc' = "loop" /\ layout' = layout
      /\ UNCHANGED <<slotState, sweeping, entry, place, submitted, cancelled,
                     discarded_transfers, capture_complete, telemetry, telemetry_failures,
                     wire, reaped, data, sent, cPc, cSlot, taken, stop_requested,
                     abort_requested, ring_abort>>
  BY DEF EventsReturn, SourceFrame, consumerVars, flagVars, telemetryVars
<1>4. failed' \in BOOLEAN /\ (failed => failed') /\ result' \in Results
  <2>1. failed \in BOOLEAN /\ result \in Results
    BY <1>2 DEF UsbTypes
  <2> QED
    BY <2>1 DEF EventsReturn, Fail, Results
<1>5. Thread(N, M)'
  BY <1>2, <1>3, <1>4, LayoutKept DEF Thread
<1>6. Queue(N, K, M)'
  BY <1>2, <1>3, QueueKept
<1>7. Consumed(N, M, c)' /\ Aborts'
  BY <1>2, <1>3, <1>4, ConsumedKept, AbortsKept
<1>8. Content(N, K, c, q)'
  BY <1>2, <1>3, <1>4, ContentKept
<1>9. UsbTypes'
  BY <1>2, <1>3, <1>4, LayoutTypes DEF UsbTypes
<1>10. UsbInv(N, K, M, c, q)'
  BY <1>2, <1>3, <1>4, <1>5, <1>6, <1>7, <1>8, <1>9, LayoutKept
     DEF UsbInv, Discards, Barred, AtLeast
<1> QED
  BY <1>10 DEF LibUsbInv

\* Run returns with nothing submitted, so with nothing in flight
LEMMA RunReturnsKeeps ==
  ASSUME LibUsbInv, RunReturns
  PROVE  LibUsbInv'
<1>1. PICK N, K, M, c, q \in Nat : UsbInv(N, K, M, c, q)
  BY DEF LibUsbInv
<1>2. /\ LayoutFits /\ UsbTypes /\ Thread(N, M) /\ Queue(N, K, M) /\ Aborts /\ Discards(N)
      /\ Consumed(N, M, c) /\ Content(N, K, c, q)
      /\ PerSlot = 1 => Barred(c, AtLeast(q, Skipped))
  BY <1>1 DEF UsbInv
<1>3. /\ sPc = "events" /\ submitted = {} /\ telemetry = "idle" /\ sPc' = "returned"
      /\ layout' = layout
      /\ UNCHANGED <<slotState, sweeping, entry, place, submitted, cancelled,
                     discarded_transfers, capture_complete, failed, result, telemetry,
                     telemetry_failures, wire, reaped, data, sent, cPc, cSlot, taken,
                     stop_requested, abort_requested, ring_abort>>
  BY DEF RunReturns, SourceFrame, consumerVars, flagVars, telemetryVars
<1>4. M = N
  BY <1>2, <1>3, NoneInFlight
<1>5. Thread(N, M)'
  BY <1>2, <1>3, <1>4, LayoutKept DEF Thread
<1>6. Queue(N, K, M)'
  BY <1>2, <1>3, QueueKept
<1>7. Consumed(N, M, c)' /\ Aborts'
  BY <1>2, <1>3, ConsumedKept, AbortsKept
<1>8. Content(N, K, c, q)'
  BY <1>2, <1>3, ContentKept
<1>9. UsbTypes'
  BY <1>2, <1>3, LayoutTypes DEF UsbTypes
<1>10. UsbInv(N, K, M, c, q)'
  BY <1>2, <1>3, <1>5, <1>6, <1>7, <1>8, <1>9, LayoutKept DEF UsbInv, Discards, Barred, AtLeast
<1> QED
  BY <1>10 DEF LibUsbInv

\* The control transfer, the device, and a request to stop leave the blocks alone
LEMMA AsideKeeps ==
  ASSUME LibUsbInv, TelemetryEnds \/ DeviceFails \/ RequestStop \/ UNCHANGED vars
  PROVE  LibUsbInv'
<1>1. PICK N, K, M, c, q \in Nat : UsbInv(N, K, M, c, q)
  BY DEF LibUsbInv
<1>2. /\ LayoutFits /\ UsbTypes /\ Thread(N, M) /\ Queue(N, K, M) /\ Aborts /\ Discards(N)
      /\ Consumed(N, M, c) /\ Content(N, K, c, q)
      /\ PerSlot = 1 => Barred(c, AtLeast(q, Skipped))
  BY <1>1 DEF UsbInv
<1>3. /\ layout' = layout
      /\ UNCHANGED <<slotState, sPc, sweeping, entry, place, submitted, cancelled,
                     discarded_transfers, capture_complete, failed, result, wire, reaped,
                     data, sent, cPc, cSlot, taken, abort_requested, ring_abort>>
  BY DEF TelemetryEnds, DeviceFails, RequestStop, UsbFrame, EnvFrame, runVars, usbVars,
         consumerVars, flagVars, vars
<1>4. stop_requested' \in BOOLEAN
  <2>1. stop_requested \in BOOLEAN
    BY <1>2 DEF UsbTypes
  <2> QED
    BY <2>1 DEF TelemetryEnds, DeviceFails, RequestStop, UsbFrame, flagVars, vars
<1>5. /\ telemetry' \in {"idle", "in flight", "cancelled"} /\ telemetry_failures' \in 0 .. 2
      /\ telemetry' = "in flight" => telemetry_failures' < 2
      /\ telemetry = "idle" => telemetry' = "idle"
  <2>1. /\ telemetry \in {"idle", "in flight", "cancelled"} /\ telemetry_failures \in 0 .. 2
        /\ telemetry = "in flight" => telemetry_failures < 2
    BY <1>2 DEF UsbTypes, Thread
  <2>2. CASE TelemetryEnds
    <3>1. /\ telemetry' = "idle"
          /\ \/ telemetry_failures' = telemetry_failures
             \/ /\ telemetry = "in flight" /\ telemetry_failures' = telemetry_failures + 1
      BY <2>2 DEF TelemetryEnds
    <3>2. telemetry_failures' \in 0 .. 2
      <4>1. telemetry_failures \in 0 .. 2
        BY <2>1
      <4>2. CASE telemetry_failures' = telemetry_failures
        BY <4>1, <4>2
      <4>3. CASE telemetry_failures < 2 /\ telemetry_failures' = telemetry_failures + 1
        BY <4>1, <4>3
      <4> QED
        BY <2>1, <3>1, <4>2, <4>3
    <3> QED
      BY <3>1, <3>2
  <2>3. CASE DeviceFails \/ RequestStop \/ UNCHANGED vars
    <3>1. telemetry' = telemetry /\ telemetry_failures' = telemetry_failures
      BY <2>3 DEF DeviceFails, RequestStop, UsbFrame, EnvFrame, telemetryVars, vars
    <3> QED
      BY <2>1, <3>1
  <2> QED
    BY <2>2, <2>3
<1>6. Thread(N, M)'
  BY <1>2, <1>3, <1>5, LayoutKept DEF Thread
<1>7. Queue(N, K, M)'
  BY <1>2, <1>3, QueueKept
<1>8. Consumed(N, M, c)' /\ Aborts'
  BY <1>2, <1>3, ConsumedKept, AbortsKept
<1>9. Content(N, K, c, q)'
  BY <1>2, <1>3, ContentKept
<1>10. UsbTypes'
  BY <1>2, <1>3, <1>4, <1>5, LayoutTypes DEF UsbTypes
<1>11. UsbInv(N, K, M, c, q)'
  BY <1>2, <1>3, <1>6, <1>7, <1>8, <1>9, <1>10, LayoutKept DEF UsbInv, Discards, Barred, AtLeast
<1> QED
  BY <1>11 DEF LibUsbInv

\* The first transfer of a slot waits for it to be free, and the rest rely on that
LEMMA SecureSlotKeeps ==
  ASSUME LibUsbInv, SecureSlot
  PROVE  LibUsbInv'
<1>1. PICK N, K, M, c, q \in Nat : UsbInv(N, K, M, c, q)
  BY DEF LibUsbInv
<1>2. /\ LayoutFits /\ UsbTypes /\ Thread(N, M) /\ Queue(N, K, M) /\ Aborts /\ Discards(N)
      /\ Consumed(N, M, c) /\ Content(N, K, c, q)
      /\ PerSlot = 1 => Barred(c, AtLeast(q, Skipped))
  BY <1>1 DEF UsbInv
<1>3. /\ SlotCount \in Nat /\ SlotCount >= 4 /\ Held \in Nat \ {0} /\ PerSlot \in Nat \ {0}
      /\ Span \in 1 .. SlotCount - 1 /\ N <= K /\ K <= M /\ SlotOf(N) \in Nat
  BY <1>1, Counters
<1>4. /\ sPc = "secure" /\ M + 1 = N + Held /\ entry = Nth(M)
      /\ place[entry] = InRing(SlotOf(M)) /\ ~failed /\ ~capture_complete /\ ~sweeping
      /\ cancelled = {}
  BY <1>2 DEF SecureSlot, Thread
<1>5. /\ layout' = layout
      /\ UNCHANGED <<slotState, sweeping, entry, place, discarded_transfers, capture_complete,
                     telemetry, telemetry_failures, reaped, data, sent,
                     cPc, cSlot, taken, stop_requested, abort_requested, ring_abort>>
  BY DEF SecureSlot, SourceFrame, telemetryVars, consumerVars, flagVars
<1>6. LayoutFits' /\ Aborts'
  BY <1>2, <1>4, <1>5, LayoutKept, AbortsKept
<1>7. Content(N, K, c, q)' /\ Discards(N)'
  BY <1>2, <1>4, <1>5, ContentKept, LayoutKept DEF Discards
<1>8. PerSlot' = 1 => Barred(c, AtLeast(q, Skipped))'
  BY <1>2, <1>5, LayoutKept DEF Barred, AtLeast
<1>9. entry \in Transfers /\ IndexInSlot(entry) = IndexInSlot(M)
  BY <1>2, <1>4, NthType, NthIndex
<1>10. CASE /\ IndexInSlot(entry) # 0 \/ SlotIsFree(place[entry])
            /\ wire' = Append(wire, entry)
            /\ submitted' = submitted \cup {entry} /\ cancelled' = cancelled \ {entry}
            /\ sPc' = "events"
            /\ UNCHANGED <<failed, result, faults>>
  <2>1. Queue(N, K, M + 1)' /\ wire' \in Seq(Transfers)
    <3>1. wire \in Seq(Transfers)
      BY <1>2 DEF UsbTypes
    <3>2. M < N + Held
      BY <1>3, <1>4
    <3> QED
      BY <1>2, <1>4, <1>5, <1>10, <3>1, <3>2, Submitted
  <2>2. SlotOf(M) < c + SlotCount
    <3>1. CASE IndexInSlot(M) # 0
      <4> DEFINE m == M - 1
      <4>1. M # 0
        <5>1. 0 \in 0 .. PerSlot - 1 /\ FirstOf(0) + 0 = 0
          BY <1>3 DEF FirstOf
        <5>2. IndexInSlot(FirstOf(0) + 0) = 0
          BY <1>2, <5>1, FirstOfSlot
        <5> QED
          BY <3>1, <5>1, <5>2
      <4>2. m \in Nat /\ m \in 0 .. M - 1 /\ m + 1 = M
        BY <4>1
      <4>3. SlotOf(m) < c + SlotCount
        BY <1>2, <4>2 DEF Consumed
      <4> HIDE DEF m
      <4>4. SlotOf(m + 1) = SlotOf(m)
        BY <1>2, <3>1, <4>2, SlotOfNext
      <4> QED
        BY <4>2, <4>3, <4>4
    <3>2. CASE IndexInSlot(M) = 0
      <4>1. slotState[InRing(SlotOf(M))] = "empty"
        BY <1>4, <1>9, <1>10, <3>2 DEF SlotIsFree
      <4>2. M = N - 1 + Held /\ SlotOf(M) \in Nat
        BY <1>2, <1>3, <1>4, SlotOfType
      <4> SUFFICES ASSUME SlotOf(M) >= c + SlotCount PROVE FALSE
        BY <1>3, <4>2
      <4>3. M # 0
        <5>1. 0 \in 0 .. PerSlot - 1 /\ FirstOf(0) + 0 = 0
          BY <1>3 DEF FirstOf
        <5>2. SlotOf(FirstOf(0) + 0) = 0
          BY <1>2, <5>1, FirstOfSlot
        <5> QED
          BY <1>3, <5>1, <5>2
      <4>4. SlotOf(M) = c + SlotCount
        <5> DEFINE m == M - 1
        <5>1. m \in Nat /\ m \in 0 .. M - 1 /\ m + 1 = M
          BY <4>3
        <5>2. SlotOf(m) < c + SlotCount
          BY <1>2, <5>1 DEF Consumed
        <5> HIDE DEF m
        <5>3. SlotOf(m + 1) \in {SlotOf(m), SlotOf(m) + 1} /\ SlotOf(m) \in Nat
          <6>1. SlotOf(m) \in Nat
            BY <1>2, <5>1, SlotOfType
          <6> QED
            BY <1>2, <5>1, <6>1, SlotOfNext
        <5> QED
          BY <1>3, <4>2, <5>1, <5>2, <5>3
      <4>5. c < SlotOf(N)
        <5>1. N <= M + 1 /\ M <= N + Held
          BY <1>3, <4>2
        <5>2. SlotOf(N + Held) = SlotOf(N) + Span /\ N + Held \in Nat
          BY <1>2, <1>3, NextLap
        <5>3. SlotOf(M) <= SlotOf(N + Held)
          BY <1>2, <5>1, <5>2, SlotOfGrows
        <5> QED
          BY <1>3, <4>4, <5>2, <5>3
      <4>6. slotState[InRing(c)] = "full"
        <5>1. ~abort_requested
          <6>1. InRing(SlotOf(M)) \in Slots
            BY <1>2, <4>2, RingPlaces
          <6> QED
            BY <1>2, <4>1, <6>1 DEF Aborts
        <5>2. c \in c .. SlotOf(N) - 1
          BY <1>3, <4>5
        <5> QED
          BY <1>2, <1>4, <5>1, <5>2 DEF Consumed
      <4>7. InRing(c + SlotCount) = InRing(c)
        BY <1>2, RingPlaces
      <4> QED
        BY <4>1, <4>4, <4>6, <4>7
    <3> QED
      BY <3>1, <3>2
  <2>3. Consumed(N, M + 1, c)'
    <3>1. \A m \in M .. (M + 1) - 1 : SlotOf(m) < c + SlotCount
      BY <2>2
    <3>2. M + 1 \in Nat /\ (failed => failed') /\ sPc # "returned"
      BY <1>4
    <3> QED
      BY <1>2, <1>5, <3>1, <3>2, ConsumedKept
  <2>4. Thread(N, M + 1)'
    <3>1. cancelled' = {}
      BY <1>4, <1>10
    <3>2. telemetry' = "in flight" => telemetry_failures' < 2
      BY <1>2, <1>5 DEF Thread
    <3> QED
      BY <1>4, <1>5, <1>10, <3>1, <3>2, LayoutKept DEF Thread
  <2>5. UsbTypes'
    <3>1. submitted' \subseteq Transfers /\ cancelled' \subseteq Transfers
      BY <1>2, <1>9, <1>10 DEF UsbTypes
    <3> QED
      BY <1>2, <1>5, <1>10, <2>1, <3>1, LayoutTypes DEF UsbTypes
  <2> DEFINE L == M + 1
  <2>6. UsbInv(N, K, L, c, q)'
    BY <1>6, <1>7, <1>8, <2>1, <2>3, <2>4, <2>5 DEF UsbInv
  <2>7. L \in Nat
    OBVIOUS
  <2> QED
    BY <2>6, <2>7 DEF LibUsbInv
<1>11. CASE /\ failed' /\ result' \in Results /\ sPc' = "events"
            /\ UNCHANGED <<wire, submitted, cancelled>>
  <2>1. Queue(N, K, M)'
    BY <1>2, <1>4, <1>5, <1>11, QueueKept
  <2>2. Thread(N, M)'
    BY <1>2, <1>4, <1>5, <1>11, LayoutKept DEF Thread
  <2>3. Consumed(N, M, c)'
    BY <1>2, <1>4, <1>5, <1>11, ConsumedKept
  <2>4. UsbTypes'
    BY <1>2, <1>5, <1>11, LayoutTypes DEF UsbTypes
  <2>5. UsbInv(N, K, M, c, q)'
    BY <1>6, <1>7, <1>8, <2>1, <2>2, <2>3, <2>4 DEF UsbInv
  <2> QED
    BY <2>5 DEF LibUsbInv
<1>12. result \in Results
  BY <1>2 DEF UsbTypes
<1> QED
  BY <1>4, <1>10, <1>11, <1>12 DEF SecureSlot, Submit, Fail, Results

\* A transfer that is not submitted again, for the run has failed
LEMMA FailedKeeps ==
  ASSUME NEW N \in Nat, NEW K \in Nat, NEW M \in Nat, NEW c \in Nat, NEW q \in Nat,
         UsbInv(N, K, M, c, q), sPc = "events", sPc' = "events", reaped # <<>>,
         layout' = layout, failed', result' \in Results, capture_complete' \in BOOLEAN,
         submitted' = submitted \ {Head(reaped).transfer}, reaped' = Tail(reaped),
         UNCHANGED <<slotState, sweeping, entry, place, cancelled, discarded_transfers,
                     telemetry, telemetry_failures, wire, data, sent, cPc, cSlot, taken,
                     stop_requested, abort_requested, ring_abort>>
  PROVE  LibUsbInv'
<1>2. /\ LayoutFits /\ UsbTypes /\ Thread(N, M) /\ Queue(N, K, M) /\ Aborts /\ Discards(N)
      /\ Consumed(N, M, c) /\ Content(N, K, c, q)
      /\ PerSlot = 1 => Barred(c, AtLeast(q, Skipped))
  BY DEF UsbInv
<1>4. reaped \in Seq(Endings)
  BY <1>2 DEF UsbTypes
<1>5. /\ Queue(N + 1, K, M)' /\ reaped' \in Seq(Endings)
      /\ N < K /\ N < M /\ Head(reaped) = reaped[1]
      /\ \A m \in N + 1 .. K - 1 : reaped'[m - (N + 1) + 1] = reaped[m - N + 1]
  BY <1>2, <1>4, Reaped
<1>8. Thread(N + 1, M)'
  <2>1. telemetry' = "in flight" => telemetry_failures' < 2
    BY <1>2 DEF Thread
  <2> QED
    BY <2>1 DEF Thread
<1>9. Consumed(N + 1, M, c)'
  BY ReapedConsumed
<1>10. Content(N + 1, K, c, q)'
  BY <1>5, ReapedContent
<1>11. Discards(N + 1)'
  <2>1. discarded_transfers <= N /\ discarded_transfers \in Int
    <3>1. layout.discard_transfers \in 0 .. Laps - 1 /\ Laps \in Nat
      BY <1>2, LapsType
    <3>2. discarded_transfers \in 0 .. layout.discard_transfers
      BY <1>2 DEF UsbTypes
    <3> QED
      BY <1>2, <3>1, <3>2 DEF Discards
  <2>2. discarded_transfers' <= N + 1
    BY <2>1
  <2> QED
    BY <2>2 DEF Discards
<1>12. Aborts' /\ LayoutFits'
  BY <1>2, AbortsKept, LayoutKept
<1>13. UsbTypes'
  <2>1. submitted' \subseteq Transfers
    BY <1>2 DEF UsbTypes
  <2> QED
    BY <1>2, <1>5, <2>1, LayoutTypes DEF UsbTypes
<1>14. PerSlot' = 1 => Barred(c, AtLeast(q, Skipped))'
  BY <1>2, LayoutKept DEF Barred, AtLeast
<1> DEFINE L == N + 1
<1>15. UsbInv(L, K, M, c, q)' /\ L \in Nat
  BY <1>5, <1>8, <1>9, <1>10, <1>11, <1>12, <1>13, <1>14 DEF UsbInv
<1> QED
  BY <1>15 DEF LibUsbInv

\* A transfer that failed, was cancelled, or completed when the run was aborted already
LEMMA FailureKeeps ==
  ASSUME LibUsbInv, OnFailure \/ OnCompletionAborted
  PROVE  LibUsbInv'
<1>1. PICK N, K, M, c, q \in Nat : UsbInv(N, K, M, c, q)
  BY DEF LibUsbInv
<1>2. UsbTypes /\ Queue(N, K, M) /\ Content(N, K, c, q)
  BY <1>1 DEF UsbInv
<1>3. /\ sPc = "events" /\ sPc' = "events" /\ reaped # <<>> /\ layout' = layout
      /\ submitted' = submitted \ {Head(reaped).transfer} /\ reaped' = Tail(reaped)
      /\ UNCHANGED <<slotState, sweeping, entry, place, cancelled, discarded_transfers,
                     capture_complete, telemetry, telemetry_failures, wire, data, sent,
                     cPc, cSlot, taken, stop_requested, abort_requested, ring_abort>>
  BY DEF OnFailure, OnCompletionAborted, Reap, SourceFrame, telemetryVars, consumerVars, flagVars
<1>4. failed \in BOOLEAN /\ result \in Results /\ capture_complete' \in BOOLEAN
  BY <1>2, <1>3 DEF UsbTypes
<1>5. Head(reaped).status = "cancelled" => failed
  <2>1. Len(reaped) >= 1 /\ Len(reaped) = K - N /\ Head(reaped) = reaped[1]
    BY <1>2, <1>3, TailOf DEF UsbTypes, Queue
  <2>2. N \in N .. K - 1 /\ N - N + 1 = 1
    BY <2>1
  <2>3. reaped[N - N + 1].status = "cancelled" => failed
    BY <1>2, <2>2 DEF Content
  <2> QED
    BY <2>1, <2>2, <2>3
<1>6. failed' /\ result' \in Results
  <2>1. CASE OnCompletionAborted
    BY <1>4, <2>1 DEF OnCompletionAborted, Fail, Results
  <2>2. CASE OnFailure
    <3>1. CASE Head(reaped).status = "cancelled"
      <4>1. UNCHANGED <<failed, result>>
        BY <2>2, <3>1 DEF OnFailure
      <4> QED
        BY <1>4, <1>5, <3>1, <4>1
    <3>2. CASE Head(reaped).status = "noDevice"
      BY <1>4, <2>2, <3>2 DEF OnFailure, Fail, Results
    <3>3. CASE Head(reaped).status = "error"
      BY <1>4, <2>2, <3>3 DEF OnFailure, Fail, Results
    <3> QED
      BY <2>2, <3>1, <3>2, <3>3 DEF OnFailure, Reap
  <2> QED
    BY <2>1, <2>2
<1> QED
  BY <1>1, <1>3, <1>4, <1>6, FailedKeeps

\* The end of a completion: the transfer goes on to its next place, or the run is over
LEMMA ResubmitKeeps ==
  ASSUME NEW N \in Nat, NEW K \in Nat, NEW M \in Nat, NEW c \in Nat, NEW q \in Nat,
         UsbInv(N, K, M, c, q), sPc = "events", reaped # <<>>, layout' = layout,
         submitted' = submitted \ {Head(reaped).transfer}, reaped' = Tail(reaped),
         UNCHANGED <<sweeping, cancelled, failed, telemetry, telemetry_failures, wire>>,
         capture_complete' \in BOOLEAN, capture_complete => capture_complete',
         Resubmit(Head(reaped).transfer, capture_complete')
  PROVE  /\ Thread(N + 1, M)' /\ Queue(N + 1, K, M)' /\ reaped' \in Seq(Endings)
         /\ N < K /\ N < M /\ Head(reaped) = reaped[1]
         /\ Head(reaped).transfer = Nth(N) /\ place[Nth(N)] = InRing(SlotOf(N))
         /\ \A m \in N + 1 .. K - 1 : reaped'[m - (N + 1) + 1] = reaped[m - N + 1]
         /\ place' \in [Transfers -> Slots] /\ sPc' \in {"events", "secure"}
         /\ submitted' \subseteq Transfers
<1>1. /\ LayoutFits /\ UsbTypes /\ Thread(N, M) /\ Queue(N, K, M)
  BY DEF UsbInv
<1>2. reaped \in Seq(Endings) /\ place \in [Transfers -> Slots] /\ submitted' \subseteq Transfers
  BY <1>1 DEF UsbTypes
<1>3. Head(reaped).transfer = Nth(N) /\ Nth(N) \in Transfers
  <2>1. N \in N .. K - 1 /\ N - N + 1 = 1
    <3>1. Len(reaped) >= 1 /\ Len(reaped) = K - N /\ N <= K
      BY <1>1, <1>2, TailOf DEF Queue
    <3> QED
      BY <3>1
  <2>2. reaped[N - N + 1].transfer = Nth(N)
    BY <1>1, <2>1 DEF Queue
  <2> QED
    BY <1>1, <1>2, <2>1, <2>2, TailOf, NthType
<1>4. /\ sPc' = "events" \/ sPc' = "secure"
      /\ sPc' = "events" => place' = place
      /\ sPc' = "secure" => /\ ~capture_complete' /\ ~failed /\ entry' = Nth(N)
                            /\ place' = [place EXCEPT ![Nth(N)] = (@ + Span) % SlotCount]
      /\ sPc' = "events" => capture_complete' \/ failed
  <2>1. CASE capture_complete' \/ failed
    BY <1>3, <2>1 DEF Resubmit
  <2>2. CASE ~(capture_complete' \/ failed)
    BY <1>3, <2>2 DEF Resubmit, Span
  <2> QED
    BY <2>1, <2>2
<1>5. \A t \in Transfers \ {Nth(N)} : place'[t] = place[t]
  BY <1>2, <1>4
<1>6. /\ Queue(N + 1, K, M)' /\ reaped' \in Seq(Endings)
      /\ N < K /\ N < M /\ Head(reaped) = reaped[1] /\ place[Nth(N)] = InRing(SlotOf(N))
      /\ \A m \in N + 1 .. K - 1 : reaped'[m - (N + 1) + 1] = reaped[m - N + 1]
  BY <1>1, <1>2, <1>4, <1>5, Reaped
<1>7. /\ SlotOf(N) \in Nat /\ SlotOf(N) + Span \in Nat
      /\ (InRing(SlotOf(N)) + Span) % SlotCount = InRing(SlotOf(N) + Span)
      /\ SlotOf(N + Held) = SlotOf(N) + Span /\ Nth(N + Held) = Nth(N)
      /\ InRing(SlotOf(N) + Span) \in Slots
  <2>1. SlotOf(N) \in Nat /\ Span \in Nat
    BY <1>1, SlotOfType, SlotCountAssumption DEF LayoutFits
  <2>2. SlotOf(N) + Span \in Nat
    BY <2>1
  <2> QED
    BY <1>1, <2>1, <2>2, RingPlaces, NextLap
<1>8. sPc' = "secure" => place'[Nth(N)] = InRing(SlotOf(N) + Span)
  BY <1>2, <1>3, <1>4, <1>6, <1>7
<1>9. place' \in [Transfers -> Slots]
  <2>1. CASE sPc' = "events"
    BY <1>2, <1>4, <2>1
  <2>2. CASE sPc' = "secure"
    <3>1. place' = [place EXCEPT ![Nth(N)] = InRing(SlotOf(N) + Span)]
      BY <1>4, <1>6, <1>7, <2>2
    <3> QED
      BY <1>2, <1>7, <3>1
  <2> QED
    BY <1>4, <2>1, <2>2
<1>10. Thread(N + 1, M)'
  <2>1. telemetry' = "in flight" => telemetry_failures' < 2
    BY <1>1 DEF Thread
  <2>2. sweeping => failed
    <3>1. sweeping => failed \/ M = N
      BY <1>1 DEF Thread
    <3>2. M # N
      BY <1>6
    <3> QED
      BY <3>1, <3>2
  <2>3. cancelled' # {} => failed'
    BY <1>1 DEF Thread
  <2>4. CASE sPc' = "events"
    BY <1>4, <2>1, <2>2, <2>3, <2>4 DEF Thread
  <2>5. CASE sPc' = "secure"
    <3>1. M = N + Held
      BY <1>1, <1>4, <2>5 DEF Thread
    <3>2. M + 1 = (N + 1) + Held
      BY <1>1, <3>1 DEF LayoutFits
    <3>3. entry' = Nth(M) /\ place'[entry'] = InRing(SlotOf(M))
      BY <1>4, <1>7, <1>8, <2>5, <3>1
    <3> QED
      BY <1>4, <2>1, <2>2, <2>3, <2>5, <3>2, <3>3, LayoutKept DEF Thread
  <2> QED
    BY <1>4, <2>4, <2>5
<1> QED
  BY <1>2, <1>3, <1>4, <1>6, <1>9, <1>10

\* The discards go to the slots the consumer does not look at
LEMMA DiscardedKeeps ==
  ASSUME LibUsbInv, OnCompletionDiscarded
  PROVE  LibUsbInv'
<1>1. PICK N, K, M, c, q \in Nat : UsbInv(N, K, M, c, q)
  BY DEF LibUsbInv
<1>2. /\ LayoutFits /\ UsbTypes /\ Thread(N, M) /\ Queue(N, K, M) /\ Aborts /\ Discards(N)
      /\ Consumed(N, M, c) /\ Content(N, K, c, q)
      /\ PerSlot = 1 => Barred(c, AtLeast(q, Skipped))
  BY <1>1 DEF UsbInv
<1>3. /\ sPc = "events" /\ reaped # <<>> /\ Head(reaped).status = "completed"
      /\ layout' = layout /\ discarded_transfers < layout.discard_transfers
      /\ discarded_transfers' = discarded_transfers + 1
      /\ submitted' = submitted \ {Head(reaped).transfer} /\ reaped' = Tail(reaped)
      /\ capture_complete' = (capture_complete \/ Complete(Head(reaped).transfer))
      /\ Resubmit(Head(reaped).transfer, capture_complete')
      /\ UNCHANGED <<slotState, sweeping, cancelled, failed, result, telemetry,
                     telemetry_failures, wire, data, sent,
                     cPc, cSlot, taken, stop_requested, abort_requested, ring_abort>>
  BY DEF OnCompletionDiscarded, Reap, Discarding, SourceFrame, telemetryVars, consumerVars,
         flagVars
<1>4. capture_complete' \in BOOLEAN /\ (capture_complete => capture_complete')
  <2>1. capture_complete \in BOOLEAN
    BY <1>2 DEF UsbTypes
  <2>2. capture_complete' = (capture_complete \/ Complete(Head(reaped).transfer))
    BY <1>3
  <2> QED
    BY <2>1, <2>2
<1>5. /\ Thread(N + 1, M)' /\ Queue(N + 1, K, M)' /\ reaped' \in Seq(Endings)
      /\ N < K /\ N < M /\ Head(reaped) = reaped[1]
      /\ \A m \in N + 1 .. K - 1 : reaped'[m - (N + 1) + 1] = reaped[m - N + 1]
      /\ place' \in [Transfers -> Slots] /\ sPc' \in {"events", "secure"}
      /\ submitted' \subseteq Transfers
  BY <1>1, <1>3, <1>4, ResubmitKeeps
<1>6. q # N
  <2>1. N \in N .. K - 1 /\ N - N + 1 = 1
    BY <1>5
  <2>2. q = N => reaped[N - N + 1].status # "completed"
    BY <1>2, <2>1 DEF Content
  <2> QED
    BY <1>3, <1>5, <2>1, <2>2
<1>7. Content(N + 1, K, c, q)'
  BY <1>1, <1>3, <1>5, <1>6, ReapedContent
<1>8. /\ layout.discard_transfers = FirstOf(Skipped) /\ layout.discard_transfers \in Nat
      /\ discarded_transfers <= N /\ discarded_transfers \in Nat
      /\ ~failed => discarded_transfers = AtMost(N, layout.discard_transfers)
  <2>1. /\ layout.discard_transfers = FirstOf(Skipped) /\ Laps \in Nat
        /\ layout.discard_transfers \in 0 .. Laps - 1
    BY <1>2, LapsType
  <2>2. discarded_transfers \in 0 .. layout.discard_transfers
    BY <1>2 DEF UsbTypes
  <2> QED
    BY <1>2, <2>1, <2>2 DEF Discards
<1>9. ~failed => discarded_transfers = N /\ N < FirstOf(Skipped)
  BY <1>3, <1>8 DEF AtMost
<1>10. Consumed(N + 1, M, c)'
  <2>1. ASSUME ~failed PROVE SlotOf(N + 1) <= c
    <3>1. N + 1 <= FirstOf(Skipped) /\ Skipped \in Nat /\ c >= Skipped /\ N + 1 \in Nat
      BY <1>2, <1>8, <1>9, <2>1, Counters, <1>1 DEF Consumed
    <3>2. 0 \in 0 .. PerSlot - 1 /\ FirstOf(Skipped) \in Nat
      BY <1>2, <1>8 DEF LayoutFits
    <3>3. SlotOf(FirstOf(Skipped) + 0) = Skipped
      BY <1>2, <3>1, <3>2, FirstOfSlot
    <3>4. FirstOf(Skipped) + 0 = FirstOf(Skipped)
      BY <3>2
    <3>5. SlotOf(N + 1) <= Skipped
      BY <1>2, <3>1, <3>2, <3>3, <3>4, SlotOfGrows
    <3>6. SlotOf(N + 1) \in Nat
      BY <1>2, <3>1, SlotOfType
    <3> QED
      BY <3>1, <3>5, <3>6
  <2> QED
    BY <1>1, <1>3, <2>1, ReapedConsumed
<1>11. Discards(N + 1)'
  <2>1. ~failed' => discarded_transfers' = AtMost(N + 1, layout.discard_transfers)
    BY <1>3, <1>8, <1>9 DEF AtMost
  <2>2. discarded_transfers' <= N + 1
    BY <1>3, <1>8
  <2> QED
    BY <1>3, <2>1, <2>2 DEF Discards
<1>12. Aborts' /\ LayoutFits'
  BY <1>2, <1>3, AbortsKept, LayoutKept
<1>13. UsbTypes'
  <2>1. discarded_transfers' \in 0 .. layout.discard_transfers
    BY <1>3, <1>8
  <2> QED
    BY <1>2, <1>3, <1>4, <1>5, <2>1, LayoutTypes DEF UsbTypes
<1>14. PerSlot' = 1 => Barred(c, AtLeast(q, Skipped))'
  BY <1>2, <1>3, LayoutKept DEF Barred, AtLeast
<1> DEFINE L == N + 1
<1>15. UsbInv(L, K, M, c, q)' /\ L \in Nat
  BY <1>5, <1>7, <1>10, <1>11, <1>12, <1>13, <1>14 DEF UsbInv
<1> QED
  BY <1>15 DEF LibUsbInv

\* No slot that is being filled is full, or was when the N-th transfer ended
LEMMA InFlightNotFull ==
  ASSUME NEW N \in Nat, NEW K \in Nat, NEW M \in Nat, NEW c \in Nat, NEW q \in Nat,
         UsbInv(N, K, M, c, q), NEW m \in N .. M - 1
  PROVE  slotState[InRing(SlotOf(m))] # "full"
<1> DEFINE k == SlotOf(m)
<1>1. LayoutFits /\ Consumed(N, M, c) /\ m \in Nat /\ m \in 0 .. M - 1 /\ N <= m
  BY DEF UsbInv
<1>2. SlotCount \in Nat /\ SlotOf(N) \in Nat /\ Skipped <= SlotCount /\ Skipped \in Nat
  BY Counters
<1>3. k \in Nat /\ SlotOf(N) <= k /\ k < c + SlotCount
  BY <1>1, SlotOfType, SlotOfGrows DEF Consumed
<1> HIDE DEF k
<1>4. CASE c <= k
  BY <1>1, <1>2, <1>3, <1>4 DEF Consumed, k
<1>5. CASE c > k
  <2>1. c = Skipped
    BY <1>1, <1>2, <1>3, <1>5 DEF Consumed
  <2>2. k + SlotCount \in c .. c + SlotCount - 1 /\ ~(k + SlotCount < SlotOf(N))
    BY <1>2, <1>3, <1>5, <2>1
  <2>3. InRing(k + SlotCount) = InRing(k)
    BY <1>1, <1>3, RingPlaces
  <2> QED
    BY <1>1, <2>2, <2>3 DEF Consumed, k
<1> QED
  BY <1>3, <1>4, <1>5

\* A slot that is filled is the next for the consumer to see
LEMMA FillKeeps ==
  ASSUME NEW N \in Nat, NEW K \in Nat, NEW M \in Nat, NEW c \in Nat, NEW q \in Nat,
         UsbInv(N, K, M, c, q), N < M, sPc = "events", layout' = layout,
         ~Discarding, LastInSlot(N), q # N,
         slotState[InRing(SlotOf(N))] = "empty",
         slotState' = [slotState EXCEPT ![InRing(SlotOf(N))] = "full"],
         UNCHANGED <<cSlot, taken, cPc, abort_requested, ring_abort, failed>>
  PROVE  /\ Consumed(N + 1, M, c)' /\ Aborts'
         /\ slotState' \in [Slots -> SlotStates]
         /\ PerSlot' = 1 => Barred(c, AtLeast(q, Skipped))'
<1>1. /\ LayoutFits /\ UsbTypes /\ Aborts /\ Discards(N)
      /\ Consumed(N, M, c) /\ Content(N, K, c, q)
      /\ PerSlot = 1 => Barred(c, AtLeast(q, Skipped))
  BY DEF UsbInv
<1> DEFINE s == SlotOf(N)
<1>2. SlotCount \in Nat /\ Skipped \in Nat /\ s \in Nat /\ SlotOf(N + 1) = s + 1
  BY <1>1, Counters, SlotOfNext
<1>3. InRing(s) \in Slots
  BY <1>1, <1>2, RingPlaces
<1>4. /\ discarded_transfers <= N /\ FirstOf(Skipped) <= N
      /\ layout.discard_transfers = FirstOf(Skipped)
      /\ discarded_transfers = FirstOf(Skipped) /\ FirstOf(Skipped) \in Nat
  <2>1. /\ layout.discard_transfers = FirstOf(Skipped) /\ Laps \in Nat
        /\ layout.discard_transfers \in 0 .. Laps - 1
    BY <1>1, LapsType
  <2>2. discarded_transfers \in 0 .. layout.discard_transfers
    BY <1>1 DEF UsbTypes
  <2>3. ~(discarded_transfers < layout.discard_transfers)
    BY DEF Discarding
  <2>4. discarded_transfers <= N
    BY <1>1 DEF Discards
  <2> QED
    BY <2>1, <2>2, <2>3, <2>4
<1>5. c <= s /\ s < c + SlotCount
  <2>1. Skipped <= s
    BY <1>1, <1>2, <1>4, LaterSlot
  <2>2. c = Skipped \/ c <= s
    BY <1>1 DEF Consumed
  <2>3. N \in 0 .. M - 1
    OBVIOUS
  <2>4. s < c + SlotCount
    BY <1>1, <2>3 DEF Consumed
  <2> QED
    BY <2>1, <2>2, <2>4
<1>6. slotState \in [Slots -> SlotStates]
  BY <1>1 DEF UsbTypes
<1>7. \A k \in c .. c + SlotCount - 1 : k # s => slotState'[InRing(k)] = slotState[InRing(k)]
  <2> SUFFICES ASSUME NEW k \in c .. c + SlotCount - 1, k # s
               PROVE  slotState'[InRing(k)] = slotState[InRing(k)]
    OBVIOUS
  <2> HIDE DEF s
  <2>1. k \in Nat /\ InRing(k) \in Slots
    BY <1>1, <1>2, RingPlaces
  <2>2. InRing(k) # InRing(s)
    <3>1. CASE k < s
      <4>1. s < k + SlotCount
        BY <1>2, <1>5
      <4> QED
        BY <1>1, <1>2, <2>1, <3>1, <4>1, RingPlacesDiffer
    <3>2. CASE k > s
      <4>1. k < s + SlotCount
        BY <1>2, <1>5
      <4> QED
        BY <1>1, <1>2, <2>1, <3>2, <4>1, RingPlacesDiffer
    <3> QED
      BY <1>2, <2>1, <3>1, <3>2
  <2>3. slotState' = [slotState EXCEPT ![InRing(s)] = "full"]
    BY DEF s
  <2> QED
    BY <1>6, <2>1, <2>2, <2>3
<1>8. slotState'[InRing(s)] = "full" /\ slotState' \in [Slots -> SlotStates]
  BY <1>3, <1>6 DEF SlotStates
<1>9. Aborts'
  BY <1>1, <1>3, <1>6 DEF Aborts
<1>10. Consumed(N + 1, M, c)'
  <2>1. c = Skipped \/ c <= SlotOf(N + 1)
    BY <1>2, <1>5
  <2>2. cPc = "hold" => c < SlotOf(N + 1)
    BY <1>2, <1>5
  <2>3. ~(cPc = "left" /\ ~abort_requested)
    BY <1>1 DEF Consumed
  <2>4. \A k \in c .. c + SlotCount - 1 :
            slotState'[InRing(k)] = "full" => k < SlotOf(N + 1)
    <3> SUFFICES ASSUME NEW k \in c .. c + SlotCount - 1, slotState'[InRing(k)] = "full", k # s
                 PROVE  k < s + 1
      BY <1>2
    <3>1. slotState[InRing(k)] = "full"
      BY <1>7
    <3>2. k < s
      BY <1>1, <3>1 DEF Consumed
    <3> QED
      BY <1>2, <3>2
  <2>5. ~failed /\ ~abort_requested =>
            \A k \in c .. SlotOf(N + 1) - 1 : slotState'[InRing(k)] = "full"
    <3> SUFFICES ASSUME ~failed, ~abort_requested, NEW k \in c .. s
                 PROVE  slotState'[InRing(k)] = "full"
      BY <1>2
    <3>1. CASE k = s
      BY <1>8, <3>1
    <3>2. CASE k # s
      <4>1. k \in c .. s - 1 /\ k \in c .. c + SlotCount - 1
        BY <1>2, <1>5, <3>2
      <4>2. slotState[InRing(k)] = "full"
        BY <1>1, <4>1 DEF Consumed
      <4> QED
        BY <1>7, <3>2, <4>1, <4>2
    <3> QED
      BY <3>1, <3>2
  <2>6. /\ cSlot = InRing(c) /\ taken = BlockNumber(FirstOf(c)) /\ c >= Skipped
        /\ \A m \in 0 .. M - 1 : SlotOf(m) < c + SlotCount
    BY <1>1 DEF Consumed
  <2> QED
    BY <2>1, <2>2, <2>3, <2>4, <2>5, <2>6, LayoutKept DEF Consumed
<1>11. ASSUME PerSlot = 1 PROVE Barred(c, AtLeast(q, Skipped))'
  <2> DEFINE b == AtLeast(q, Skipped)
  <2>1. b # s
    <3>1. s = N /\ FirstOf(Skipped) = Skipped
      BY <1>1, <1>2, <1>11, WholeTransfers
    <3>2. q < N => discarded_transfers < N
      BY <1>1 DEF Content
    <3>3. q < N => Skipped < N
      BY <1>4, <3>1, <3>2
    <3> QED
      BY <1>2, <3>1, <3>3 DEF AtLeast
  <2>2. b \in c .. c + SlotCount - 1 => slotState'[InRing(b)] # "full"
    BY <1>1, <1>7, <1>11, <2>1 DEF Barred
  <2>3. b' = b
    BY LayoutKept DEF AtLeast
  <2>4. c <= b /\ (cPc' = "hold" => c < b)
    BY <1>1, <1>11 DEF Barred
  <2> HIDE DEF b
  <2>5. Barred(c, b)'
    BY <2>2, <2>3, <2>4, LayoutKept DEF Barred
  <2> QED
    BY <2>5 DEF b
<1> QED
  BY <1>8, <1>9, <1>10, <1>11, LayoutKept

\* A transfer that completed: the last of its slot hands it over
LEMMA KeptKeeps ==
  ASSUME LibUsbInv, OnCompletionKept
  PROVE  LibUsbInv'
<1>1. PICK N, K, M, c, q \in Nat : UsbInv(N, K, M, c, q)
  BY DEF LibUsbInv
<1>2. /\ LayoutFits /\ UsbTypes /\ Thread(N, M) /\ Queue(N, K, M) /\ Aborts /\ Discards(N)
      /\ Consumed(N, M, c) /\ Content(N, K, c, q)
      /\ PerSlot = 1 => Barred(c, AtLeast(q, Skipped))
  BY <1>1 DEF UsbInv
<1>3. /\ sPc = "events" /\ reaped # <<>> /\ Head(reaped).status = "completed"
      /\ layout' = layout /\ ~Discarding
      /\ submitted' = submitted \ {Head(reaped).transfer} /\ reaped' = Tail(reaped)
      /\ UNCHANGED <<sweeping, cancelled, discarded_transfers, telemetry,
                     telemetry_failures, wire, data, sent,
                     cPc, cSlot, taken, stop_requested, abort_requested, ring_abort>>
  BY DEF OnCompletionKept, Reap, SourceFrame, telemetryVars, consumerVars, flagVars
<1>4. /\ N < K /\ N < M /\ Head(reaped) = reaped[1]
      /\ Head(reaped).transfer = Nth(N) /\ place[Nth(N)] = InRing(SlotOf(N))
  <2>1. /\ Len(reaped) >= 1 /\ Len(reaped) = K - N /\ K <= M /\ Head(reaped) = reaped[1]
    BY <1>2, <1>3, TailOf DEF UsbTypes, Queue
  <2>2. N < K /\ N < M /\ N \in N .. K - 1 /\ N \in N .. M - 1 /\ N - N + 1 = 1
    BY <2>1
  <2>3. reaped[N - N + 1].transfer = Nth(N) /\ place[Nth(N)] = InRing(SlotOf(N))
    BY <1>2, <2>2 DEF Queue
  <2> QED
    BY <2>1, <2>2, <2>3
<1>5. q # N
  <2>1. N \in N .. K - 1 /\ N - N + 1 = 1
    BY <1>4
  <2>2. q = N => reaped[N - N + 1].status # "completed"
    BY <1>2, <2>1 DEF Content
  <2> QED
    BY <1>3, <1>4, <2>1, <2>2
<1>6. LastInSlot(Nth(N)) <=> LastInSlot(N)
  BY <1>2, NthIndex DEF LastInSlot
<1>7. failed \in BOOLEAN /\ result \in Results /\ capture_complete \in BOOLEAN
  BY <1>2 DEF UsbTypes
<1>8. Discards(N + 1)' \/ ~(failed' = failed)
  <2>1. /\ layout.discard_transfers = FirstOf(Skipped) /\ Laps \in Nat
        /\ layout.discard_transfers \in 0 .. Laps - 1
    BY <1>2, LapsType
  <2>2. discarded_transfers \in 0 .. layout.discard_transfers
    BY <1>2 DEF UsbTypes
  <2>3. ~(discarded_transfers < layout.discard_transfers)
    BY <1>3 DEF Discarding
  <2>4. discarded_transfers <= N
    BY <1>2 DEF Discards
  <2>5. discarded_transfers = AtMost(N + 1, layout.discard_transfers)
    BY <2>1, <2>2, <2>3, <2>4 DEF AtMost
  <2>6. discarded_transfers <= N + 1
    BY <2>1, <2>2, <2>4
  <2> QED
    BY <1>3, <2>5, <2>6 DEF Discards
<1>9. CASE /\ ~LastInSlot(N) \/ FillResult(InRing(SlotOf(N))) = "handedOver"
           /\ IF LastInSlot(N) THEN CasEmptyToFull(InRing(SlotOf(N))) ELSE UNCHANGED slotState
           /\ capture_complete' = (capture_complete \/ Complete(Nth(N)))
           /\ Resubmit(Nth(N), capture_complete') /\ UNCHANGED <<failed, result>>
  <2>1. capture_complete' \in BOOLEAN /\ (capture_complete => capture_complete')
    BY <1>7, <1>9
  <2>2. /\ Thread(N + 1, M)' /\ Queue(N + 1, K, M)' /\ reaped' \in Seq(Endings)
        /\ \A m \in N + 1 .. K - 1 : reaped'[m - (N + 1) + 1] = reaped[m - N + 1]
        /\ place' \in [Transfers -> Slots] /\ sPc' \in {"events", "secure"}
        /\ submitted' \subseteq Transfers
    BY <1>1, <1>3, <1>4, <1>9, <2>1, ResubmitKeeps
  <2>3. Content(N + 1, K, c, q)'
    BY <1>1, <1>3, <1>4, <1>5, <1>9, <2>2, ReapedContent
  <2>4. /\ Consumed(N + 1, M, c)' /\ Aborts' /\ slotState' \in [Slots -> SlotStates]
        /\ PerSlot' = 1 => Barred(c, AtLeast(q, Skipped))'
    <3>1. CASE LastInSlot(N)
      <4>1. slotState[InRing(SlotOf(N))] = "empty"
        BY <1>9, <3>1 DEF FillResult
      <4>2. slotState' = [slotState EXCEPT ![InRing(SlotOf(N))] = "full"]
        BY <1>9, <3>1, <4>1 DEF CasEmptyToFull
      <4> QED
        BY <1>1, <1>3, <1>4, <1>5, <1>9, <3>1, <4>1, <4>2, FillKeeps
    <3>2. CASE ~LastInSlot(N)
      <4>1. slotState' = slotState
        BY <1>9, <3>2
      <4>2. SlotOf(N + 1) = SlotOf(N)
        BY <1>2, <3>2, SlotOfNext
      <4>3. Consumed(N + 1, M, c)'
        BY <1>1, <1>3, <1>9, <4>1, <4>2, ReapedConsumed
      <4>4. Aborts'
        BY <1>2, <1>3, <4>1, AbortsKept
      <4>5. PerSlot' = 1 => Barred(c, AtLeast(q, Skipped))'
        BY <1>2, <1>3, <4>1, LayoutKept DEF Barred, AtLeast
      <4> QED
        BY <1>2, <4>1, <4>3, <4>4, <4>5 DEF UsbTypes
    <3> QED
      BY <3>1, <3>2
  <2>5. UsbTypes'
    BY <1>2, <1>3, <1>9, <2>1, <2>2, <2>4, LayoutTypes DEF UsbTypes
  <2>6. LayoutFits' /\ Discards(N + 1)'
    BY <1>2, <1>3, <1>8, <1>9, LayoutKept
  <2> DEFINE L == N + 1
  <2>7. UsbInv(L, K, M, c, q)' /\ L \in Nat
    BY <2>2, <2>3, <2>4, <2>5, <2>6 DEF UsbInv
  <2> QED
    BY <2>7 DEF LibUsbInv
<1>10. CASE /\ LastInSlot(N) /\ FillResult(InRing(SlotOf(N))) # "handedOver"
            /\ Fail(IF FillResult(InRing(SlotOf(N))) = "overflow" THEN "programError"
                                                                  ELSE "forcedAbort")
            /\ UNCHANGED <<slotState, capture_complete, sPc, entry, place>>
  <2>1. slotState[InRing(SlotOf(N))] # "full"
    <3>1. N \in N .. M - 1
      BY <1>4
    <3> QED
      BY <1>1, <3>1, InFlightNotFull
  <2>2. slotState[InRing(SlotOf(N))] # "dumped" /\ slotState[InRing(SlotOf(N))] \in SlotStates
    <3>1. SlotOf(N) \in Nat
      BY <1>2, SlotOfType
    <3>2. InRing(SlotOf(N)) \in Slots
      BY <1>2, <3>1, RingPlaces
    <3> QED
      BY <1>2, <1>3, <3>2 DEF Aborts, UsbTypes
  <2>3. FillResult(InRing(SlotOf(N))) # "overflow"
    BY <2>1, <2>2 DEF FillResult, SlotStates
  <2>4. failed' /\ result' \in Results
    BY <1>7, <1>10, <2>3 DEF Fail, Results
  <2> QED
    BY <1>1, <1>3, <1>7, <1>10, <2>4, FailedKeeps
<1> QED
  BY <1>4, <1>6, <1>9, <1>10 DEF OnCompletionKept

-----------------------------------------------------------------------------
(* The host controller *)

\* The first in flight is the K-th
LEMMA FirstInFlight ==
  ASSUME NEW N \in Nat, NEW K \in Nat, NEW M \in Nat, NEW c \in Nat, NEW q \in Nat,
         UsbInv(N, K, M, c, q), wire # <<>>
  PROVE  /\ K < M /\ Head(wire) = Nth(K) /\ Nth(K) \in Transfers
         /\ place[Head(wire)] = InRing(SlotOf(K))
         /\ SlotOf(K) \in Nat /\ SlotOf(K) < c + SlotCount
<1>1. LayoutFits /\ wire \in Seq(Transfers) /\ Queue(N, K, M) /\ Consumed(N, M, c)
  BY DEF UsbInv, UsbTypes
<1>2. Len(wire) >= 1 /\ Head(wire) = wire[1]
  BY <1>1, TailOf
<1>3. N <= K /\ Len(wire) = M - K
  BY <1>1 DEF Queue
<1>4. K < M /\ K \in K .. M - 1 /\ K \in N .. M - 1 /\ K \in 0 .. M - 1 /\ K - K + 1 = 1
  BY <1>2, <1>3
<1>5. wire[K - K + 1] = Nth(K) /\ place[Nth(K)] = InRing(SlotOf(K))
  BY <1>1, <1>4 DEF Queue
<1>6. SlotOf(K) < c + SlotCount
  BY <1>1, <1>4 DEF Consumed
<1> QED
  BY <1>1, <1>2, <1>4, <1>5, <1>6, SlotOfType, NthType

\* The first in flight ends, and the data are the stream up to the r-th block
EndsAt(status, r, K, c, q) ==
    /\ UsbFrame /\ Ends(status) /\ (status = "cancelled" => failed)
    /\ r = IF status = "completed" /\ q = K THEN K + 1 ELSE q
    /\ data' \in [Slots -> [0 .. PerSlot - 1 -> Int]] /\ sent' \in 0 .. Laps - 1
    /\ r = K + 1 => sent' = BlockNumber(K + 1)
    /\ \A m \in FirstOf(c) .. r - 1 :
          data'[InRing(SlotOf(m))][IndexInSlot(m)] = BlockNumber(m)

LEMMA EndsKeeps ==
  ASSUME NEW N \in Nat, NEW K \in Nat, NEW M \in Nat, NEW c \in Nat, NEW q \in Nat,
         UsbInv(N, K, M, c, q),
         NEW status \in Statuses, NEW r \in Nat, EndsAt(status, r, K, c, q)
  PROVE  LibUsbInv'
<1>0. /\ layout' = layout
      /\ UNCHANGED <<slotState, sPc, sweeping, entry, place, submitted, cancelled,
                     discarded_transfers, capture_complete, failed, result, telemetry,
                     telemetry_failures, cPc, cSlot, taken, stop_requested, abort_requested,
                     ring_abort>>
      /\ wire # <<>> /\ Ends(status) /\ (status = "cancelled" => failed)
      /\ r = IF status = "completed" /\ q = K THEN K + 1 ELSE q
      /\ data' \in [Slots -> [0 .. PerSlot - 1 -> Int]] /\ sent' \in 0 .. Laps - 1
      /\ r = K + 1 => sent' = BlockNumber(K + 1)
      /\ \A m \in FirstOf(c) .. r - 1 :
            data'[InRing(SlotOf(m))][IndexInSlot(m)] = BlockNumber(m)
  BY DEF EndsAt, Ends, UsbFrame, runVars, telemetryVars, consumerVars, flagVars
<1> USE <1>0
<1>1. /\ LayoutFits /\ UsbTypes /\ Thread(N, M) /\ Queue(N, K, M) /\ Aborts /\ Discards(N)
      /\ Consumed(N, M, c) /\ Content(N, K, c, q)
      /\ PerSlot = 1 => Barred(c, AtLeast(q, Skipped))
  BY DEF UsbInv
<1>2. /\ K < M /\ Head(wire) = Nth(K) /\ Nth(K) \in Transfers
  BY FirstInFlight
<1>3. /\ N <= K /\ K <= M /\ M <= N + Held /\ q <= K /\ Held \in Nat
      /\ Len(reaped) = K - N /\ Len(wire) = M - K
      /\ \A m \in N .. K - 1 : reaped[m - N + 1].transfer = Nth(m)
      /\ \A m \in K .. M - 1 : wire[m - K + 1] = Nth(m)
  <2>1. N <= K /\ K <= M /\ M <= N + Held /\ q <= K /\ Held \in Nat
    BY Counters
  <2>2. /\ Len(reaped) = K - N /\ Len(wire) = M - K
        /\ \A m \in N .. K - 1 : reaped[m - N + 1].transfer = Nth(m)
        /\ \A m \in K .. M - 1 : wire[m - K + 1] = Nth(m)
    BY <1>1 DEF Queue
  <2> QED
    BY <2>1, <2>2
<1> DEFINE e == [transfer |-> Head(wire), status |-> status]
<1>4. /\ wire' \in Seq(Transfers) /\ Len(wire') = M - (K + 1)
      /\ \A m \in K + 1 .. M - 1 : wire'[m - (K + 1) + 1] = Nth(m)
  <2>1. wire' = Tail(wire) /\ wire \in Seq(Transfers)
    BY <1>1 DEF Ends, UsbTypes
  <2>2. /\ wire' \in Seq(Transfers) /\ Len(wire') = Len(wire) - 1
        /\ \A i \in 1 .. Len(wire) - 1 : wire'[i] = wire[i + 1]
    BY <2>1, TailOf
  <2>3. ASSUME NEW m \in K + 1 .. M - 1 PROVE wire'[m - (K + 1) + 1] = Nth(m)
    <3>1. m - K \in 1 .. Len(wire) - 1 /\ m - (K + 1) + 1 = m - K /\ m \in K .. M - 1
      BY <1>3
    <3>2. wire'[m - K] = wire[(m - K) + 1] /\ wire[m - K + 1] = Nth(m)
      BY <1>3, <2>2, <3>1
    <3> QED
      BY <3>1, <3>2
  <2>4. Len(wire') = M - (K + 1)
    BY <1>3, <2>2
  <2> QED
    BY <2>2, <2>3, <2>4
<1>5. /\ reaped' \in Seq(Endings) /\ Len(reaped') = (K + 1) - N
      /\ \A m \in N .. K - 1 : reaped'[m - N + 1] = reaped[m - N + 1]
      /\ reaped'[K - N + 1] = e
  <2>1. reaped' = Append(reaped, e) /\ reaped \in Seq(Endings) /\ e \in Endings
    BY <1>1, <1>2 DEF Ends, UsbTypes, Endings
  <2> HIDE DEF e
  <2>2. /\ reaped' \in Seq(Endings) /\ Len(reaped') = Len(reaped) + 1
        /\ \A i \in 1 .. Len(reaped) : reaped'[i] = reaped[i]
        /\ reaped'[Len(reaped) + 1] = e
    BY <2>1, AppendOf
  <2>3. \A m \in N .. K - 1 : m - N + 1 \in 1 .. Len(reaped)
    BY <1>3
  <2>4. Len(reaped) + 1 = K - N + 1 /\ Len(reaped') = (K + 1) - N
    BY <1>3, <2>2
  <2> QED
    BY <2>2, <2>3, <2>4
<1>6. e.transfer = Nth(K) /\ e.status = status
  BY <1>2
<1> HIDE DEF e
<1>7. \A m \in N .. K : m = K \/ m \in N .. K - 1
  BY <1>3
<1>8. Queue(N, K + 1, M)'
  <2>1. \A m \in N .. K : reaped'[m - N + 1].transfer = Nth(m)
    BY <1>3, <1>5, <1>6, <1>7
  <2>2. /\ Held' = Held
        /\ \A m : Nth(m)' = Nth(m) /\ InRing(m)' = InRing(m) /\ SlotOf(m)' = SlotOf(m)
    BY LayoutKept
  <2>3. /\ \A m \in N .. M - 1 : place[Nth(m)] = InRing(SlotOf(m))
        /\ submitted = {Nth(m) : m \in N .. M - 1}
        /\ sPc = "submit" => \A t \in Transfers : place[t] = InRing(SlotOf(t))
    BY <1>1 DEF Queue
  <2>4. /\ N <= K + 1 /\ K + 1 <= M /\ M <= N + Held' /\ (K + 1) - 1 = K
    BY <1>2, <1>3, <2>2
  <2>5. /\ Len(reaped') = (K + 1) - N /\ Len(wire') = M - (K + 1)
        /\ \A m \in N .. (K + 1) - 1 : reaped'[m - N + 1].transfer = Nth(m)'
        /\ \A m \in K + 1 .. M - 1 : wire'[m - (K + 1) + 1] = Nth(m)'
    BY <1>4, <1>5, <2>1, <2>2, <2>4
  <2>6. /\ \A m \in N .. M - 1 : place'[Nth(m)'] = InRing(SlotOf(m))'
        /\ submitted' = {Nth(m)' : m \in N .. M - 1}
        /\ sPc' = "submit" => \A t \in Transfers' : place'[t] = InRing(SlotOf(t))'
    BY <2>2, <2>3, LayoutKept
  <2> QED
    BY <2>4, <2>5, <2>6 DEF Queue
<1>9. Content(N, K + 1, c, r)'
  <2>1. /\ \A m \in N .. K - 1 : /\ m < q => reaped[m - N + 1].status = "completed"
                                 /\ m = q => reaped[m - N + 1].status # "completed"
                                 /\ reaped[m - N + 1].status = "cancelled" => failed
        /\ q < N => failed /\ discarded_transfers < N
    BY <1>1 DEF Content
  <2>2. /\ r <= K + 1 /\ (r < N => q < N) /\ (r # q => r = K + 1 /\ q = K)
        /\ (K < r => status = "completed") /\ (K = r => status # "completed")
    BY <1>3
  <2>3. \A m \in N .. K : /\ m < r => reaped'[m - N + 1].status = "completed"
                          /\ m = r => reaped'[m - N + 1].status # "completed"
                          /\ reaped'[m - N + 1].status = "cancelled" => failed'
    <3>1. ASSUME NEW m \in N .. K - 1
          PROVE  /\ m < r => reaped'[m - N + 1].status = "completed"
                 /\ m = r => reaped'[m - N + 1].status # "completed"
                 /\ reaped'[m - N + 1].status = "cancelled" => failed'
      <4>1. (m < r => m < q) /\ (m = r => m = q)
        BY <1>3
      <4>2. reaped'[m - N + 1] = reaped[m - N + 1]
        BY <1>5
      <4>3. /\ m < q => reaped[m - N + 1].status = "completed"
            /\ m = q => reaped[m - N + 1].status # "completed"
            /\ reaped[m - N + 1].status = "cancelled" => failed
        BY <2>1
      <4> QED
        BY <4>1, <4>2, <4>3
    <3> QED
      BY <1>5, <1>6, <1>7, <2>2, <3>1
  <2>4. (K + 1) - 1 = K
    OBVIOUS
  <2>5. r < N => failed' /\ discarded_transfers' < N
    BY <2>1, <2>2
  <2> QED
    BY <2>2, <2>3, <2>4, <2>5, LayoutKept DEF Content
<1>10. PerSlot' = 1 => Barred(c, AtLeast(r, Skipped))'
  <2> SUFFICES ASSUME PerSlot = 1 PROVE Barred(c, AtLeast(r, Skipped))'
    BY LayoutKept
  <2> DEFINE a == AtLeast(q, Skipped)
             b == AtLeast(r, Skipped)
  <2>1. /\ c <= a /\ (cPc = "hold" => c < a)
        /\ a \in c .. c + SlotCount - 1 => slotState[InRing(a)] # "full"
    BY <1>1 DEF Barred
  <2>2. Skipped \in Nat /\ SlotCount \in Nat
    BY Counters
  <2>3. a \in Nat /\ b \in Nat /\ a <= b /\ (b # a => b = K + 1)
    BY <1>3, <2>2 DEF AtLeast
  <2>4. b \in c .. c + SlotCount - 1 => slotState[InRing(b)] # "full"
    <3> SUFFICES ASSUME b \in c .. c + SlotCount - 1, b = K + 1, slotState[InRing(b)] = "full"
                 PROVE  FALSE
      BY <2>1, <2>3
    <3> HIDE DEF b
    <3>1. b < SlotOf(N)
      BY <1>1 DEF Consumed
    <3>2. SlotOf(N) = N
      BY <1>1, WholeTransfers
    <3> QED
      BY <1>3, <3>1, <3>2
  <2>5. b' = b
    BY LayoutKept DEF AtLeast
  <2>6. c <= b /\ (cPc = "hold" => c < b)
    BY <2>1, <2>3
  <2> HIDE DEF b
  <2>7. Barred(c, b)'
    BY <2>4, <2>5, <2>6, LayoutKept DEF Barred
  <2> QED
    BY <2>7 DEF b
<1>11. LayoutFits' /\ Thread(N, M)' /\ Aborts' /\ Discards(N)' /\ Consumed(N, M, c)'
  <2>1. Thread(N, M)'
    BY <1>1, ThreadKept DEF telemetryVars
  <2>2. Aborts' /\ Discards(N)'
    BY <1>1, AbortsKept, LayoutKept DEF Discards
  <2>3. Consumed(N, M, c)'
    <3>1. \A m \in M .. M - 1 : SlotOf(m) < c + SlotCount
      OBVIOUS
    <3> QED
      BY <1>1, <3>1, ConsumedKept
  <2> QED
    BY <1>1, <2>1, <2>2, <2>3, LayoutKept
<1>12. UsbTypes'
  <2>1. /\ PerSlot' = PerSlot /\ Transfers' = Transfers /\ Endings' = Endings
        /\ layout'.discard_transfers = layout.discard_transfers
    BY LayoutTypes
  <2>2. /\ slotState' \in [Slots -> SlotStates] /\ place' \in [Transfers' -> Slots]
        /\ submitted' \subseteq Transfers' /\ cancelled' \subseteq Transfers'
        /\ wire' \in Seq(Transfers') /\ reaped' \in Seq(Endings')
        /\ data' \in [Slots -> [0 .. PerSlot' - 1 -> Int]]
    BY <1>1, <1>4, <1>5, <2>1 DEF UsbTypes
  <2>3. discarded_transfers' \in 0 .. layout'.discard_transfers /\ telemetry_failures' \in 0 .. 2
    BY <1>1, <2>1 DEF UsbTypes
  <2>4. /\ sPc' \in {"submit", "loop", "events", "secure", "returned"} /\ sweeping' \in BOOLEAN
        /\ capture_complete' \in BOOLEAN /\ failed' \in BOOLEAN /\ result' \in Results
        /\ telemetry' \in {"idle", "in flight", "cancelled"}
        /\ cPc' \in {"wait", "hold", "left"} /\ stop_requested' \in BOOLEAN
        /\ abort_requested' \in BOOLEAN /\ ring_abort' \in BOOLEAN
    BY <1>1 DEF UsbTypes
  <2> QED
    BY <2>2, <2>3, <2>4 DEF UsbTypes
<1> DEFINE L == K + 1
<1>13. UsbInv(N, L, M, c, r)' /\ L \in Nat
  BY <1>8, <1>9, <1>10, <1>11, <1>12 DEF UsbInv
<1> QED
  BY <1>13 DEF LibUsbInv

\* The device's number wraps after two laps
LEMMA SentNext ==
  ASSUME NEW N \in Nat, NEW K \in Nat, NEW M \in Nat, NEW c \in Nat, NEW q \in Nat,
         UsbInv(N, K, M, c, q)
  PROVE  /\ (sent + 1) % Laps \in 0 .. Laps - 1
         /\ q = K => (sent + 1) % Laps = BlockNumber(K + 1)
<1> DEFINE l == Laps
<1>1. LayoutFits /\ Content(N, K, c, q) /\ l \in Nat \ {0}
  BY LapsType DEF UsbInv, LayoutFits
<1>2. sent \in 0 .. l - 1 /\ (q = K => sent = BlockNumber(K))
  BY <1>1 DEF Content
<1>3. (BlockNumber(K) + 1) % Laps = BlockNumber(K + 1)
  BY <1>1, BlockNumbers
<1> HIDE DEF l
<1>4. sent + 1 \in Nat
  BY <1>1, <1>2
<1>5. (sent + 1) % l \in 0 .. l - 1
  BY <1>1, <1>4, DivisionExists
<1> QED
  BY <1>2, <1>3, <1>5 DEF l

\* A block is written where it belongs, and over nothing the consumer has still to see
LEMMA ArrivesWhole ==
  ASSUME NEW N \in Nat, NEW K \in Nat, NEW M \in Nat, NEW c \in Nat, NEW q \in Nat,
         UsbInv(N, K, M, c, q), wire # <<>>, sent \in Int,
         data' = [data EXCEPT ![place[Head(wire)]][IndexInSlot(Head(wire))] = sent]
  PROVE  /\ data' \in [Slots -> [0 .. PerSlot - 1 -> Int]]
         /\ \A m \in FirstOf(c) .. q - 1 :
               data'[InRing(SlotOf(m))][IndexInSlot(m)] = BlockNumber(m)
         /\ q = K => data'[InRing(SlotOf(K))][IndexInSlot(K)] = BlockNumber(K)
<1> DEFINE k == SlotOf(K)
           i == IndexInSlot(K)
<1>1. LayoutFits /\ Content(N, K, c, q) /\ data \in [Slots -> [0 .. PerSlot - 1 -> Int]]
  BY DEF UsbInv, UsbTypes
<1>2. /\ Head(wire) = Nth(K) /\ place[Head(wire)] = InRing(k) /\ k \in Nat /\ k < c + SlotCount
  BY FirstInFlight
<1>3. IndexInSlot(Head(wire)) = i /\ i \in 0 .. PerSlot - 1
  BY <1>1, <1>2, NthIndex, SlotOfType
<1>4. InRing(k) \in Slots
  BY <1>1, <1>2, RingPlaces
<1> HIDE DEF k, i
<1>5. data' = [data EXCEPT ![InRing(k)][i] = sent]
  BY <1>2, <1>3
<1>6. data' \in [Slots -> [0 .. PerSlot - 1 -> Int]] /\ data'[InRing(k)][i] = sent
  <2>1. data[InRing(k)] \in [0 .. PerSlot - 1 -> Int]
    BY <1>1, <1>4
  <2> DEFINE row == [data[InRing(k)] EXCEPT ![i] = sent]
  <2>2. row \in [0 .. PerSlot - 1 -> Int] /\ row[i] = sent
    BY <1>3, <2>1
  <2>3. data' = [data EXCEPT ![InRing(k)] = row]
    BY <1>5
  <2> HIDE DEF row
  <2> QED
    BY <1>1, <1>4, <2>2, <2>3
<1>7. \A s \in Slots, n \in 0 .. PerSlot - 1 :
          s # InRing(k) \/ n # i => data'[s][n] = data[s][n]
  <2> SUFFICES ASSUME NEW s \in Slots, NEW n \in 0 .. PerSlot - 1, s # InRing(k) \/ n # i
               PROVE  data'[s][n] = data[s][n]
    OBVIOUS
  <2>1. CASE s # InRing(k)
    BY <1>1, <1>5, <2>1
  <2>2. CASE s = InRing(k) /\ n # i
    <3>1. data[s] \in [0 .. PerSlot - 1 -> Int] /\ data'[s] = [data[s] EXCEPT ![i] = sent]
      BY <1>1, <1>5, <2>2
    <3> QED
      BY <2>2, <3>1
  <2> QED
    BY <2>1, <2>2
<1>8. ASSUME NEW m \in FirstOf(c) .. q - 1
      PROVE  data'[InRing(SlotOf(m))][IndexInSlot(m)] = BlockNumber(m)
  <2> DEFINE l == SlotOf(m)
  <2>1. FirstOf(c) \in Nat /\ q <= K
    <3>1. q <= K /\ PerSlot \in Nat \ {0}
      BY Counters
    <3>2. 0 \in 0 .. PerSlot - 1
      BY <3>1
    <3> QED
      BY <1>1, <3>1, <3>2, FirstOfSlot
  <2>2. m \in Nat /\ FirstOf(c) <= m /\ m < K /\ m <= K
    BY <2>1
  <2>3. c <= l /\ l <= k /\ l \in Nat /\ IndexInSlot(m) \in 0 .. PerSlot - 1
    BY <1>1, <2>2, LaterSlot, SlotOfGrows, SlotOfType DEF k
  <2>4. InRing(l) \in Slots
    BY <1>1, <2>3, RingPlaces
  <2>5. data[InRing(l)][IndexInSlot(m)] = BlockNumber(m)
    BY <1>1 DEF Content
  <2>6. InRing(l) # InRing(k) \/ IndexInSlot(m) # i
    <3>1. CASE l = k
      BY <1>1, <2>2, <3>1, OneOfSlot DEF k, i
    <3>2. CASE l # k
      <4> HIDE DEF l
      <4>1. SlotCount \in Nat
        BY Counters
      <4>2. l < k /\ k < l + SlotCount
        BY <1>2, <2>3, <3>2, <4>1
      <4> QED
        BY <1>1, <1>2, <2>3, <4>2, RingPlacesDiffer
    <3> QED
      BY <3>1, <3>2
  <2> QED
    BY <1>7, <2>3, <2>4, <2>5, <2>6
<1>9. q = K => sent = BlockNumber(K)
  BY <1>1 DEF Content
<1> QED
  BY <1>6, <1>8, <1>9 DEF k, i

\* A block arrives in the first transfer in flight
LEMMA BlockArrivesKeeps ==
  ASSUME LibUsbInv, BlockArrives
  PROVE  LibUsbInv'
<1>1. PICK N, K, M, c, q \in Nat : UsbInv(N, K, M, c, q)
  BY DEF LibUsbInv
<1>2. PICK status \in Statuses : status = "completed" /\ Ends(status)
  BY DEF BlockArrives, Statuses
<1>3. /\ wire # <<>> /\ UsbFrame
  BY DEF BlockArrives, Ends
<1>4. /\ data' = [data EXCEPT ![place[Head(wire)]][IndexInSlot(Head(wire))] = sent]
      /\ sent' = (sent + 1) % Laps
  BY DEF BlockArrives
<1>5. /\ sent' \in 0 .. Laps - 1 /\ (q = K => sent' = BlockNumber(K + 1))
  BY <1>1, <1>4, SentNext
<1>6. sent \in Int /\ q <= K
  <2>1. sent \in 0 .. Laps - 1 /\ q <= K /\ Laps \in Nat
    BY <1>1, LapsType DEF UsbInv, Content
  <2> QED
    BY <2>1
<1>7. /\ data' \in [Slots -> [0 .. PerSlot - 1 -> Int]]
      /\ \A m \in FirstOf(c) .. q - 1 :
            data'[InRing(SlotOf(m))][IndexInSlot(m)] = BlockNumber(m)
      /\ q = K => data'[InRing(SlotOf(K))][IndexInSlot(K)] = BlockNumber(K)
  BY <1>1, <1>3, <1>6, <1>4, ArrivesWhole
<1>8. PICK r \in Nat :
      /\ (r = K + 1 => q = K)
      /\ r = IF status = "completed" /\ q = K THEN K + 1 ELSE q
  BY <1>2, <1>6
<1>9. \A m \in FirstOf(c) .. r - 1 :
          data'[InRing(SlotOf(m))][IndexInSlot(m)] = BlockNumber(m)
  <2>1. FirstOf(c) \in Int
    BY <1>1, FirstOfSlot DEF UsbInv, LayoutFits, FirstOf
  <2>2. \A m \in FirstOf(c) .. r - 1 : m \in FirstOf(c) .. q - 1 \/ (m = K /\ q = K)
    BY <1>2, <1>6, <1>8, <2>1
  <2> QED
    BY <1>7, <2>2
<1>10. /\ status = "cancelled" => failed
       /\ r = K + 1 => sent' = BlockNumber(K + 1)
  BY <1>2, <1>5, <1>8
<1>11. sent' \in 0 .. Laps - 1 /\ data' \in [Slots -> [0 .. PerSlot - 1 -> Int]]
  BY <1>5, <1>7
<1>12. Ends(status) /\ r = IF status = "completed" /\ q = K THEN K + 1 ELSE q
  BY <1>2, <1>8
<1>13. EndsAt(status, r, K, c, q)
  BY <1>1, <1>3, <1>9, <1>10, <1>11, <1>12 DEF EndsAt
<1>14. status \in Statuses
  BY <1>2
<1> QED
  BY <1>1, <1>8, <1>13, <1>14, EndsKeeps

\* A transfer ends with no block in it, and the data ends before it
LEMMA NoBlockKeeps ==
  ASSUME LibUsbInv, BlockLost \/ CancelTakesEffect \/ GoneEnds
  PROVE  LibUsbInv'
<1>1. PICK N, K, M, c, q \in Nat : UsbInv(N, K, M, c, q)
  BY DEF LibUsbInv
<1>2. PICK status \in {"error", "noDevice", "cancelled"} :
          /\ Ends(status) /\ (status = "cancelled" => Head(wire) \in cancelled)
  BY DEF BlockLost, CancelTakesEffect, GoneEnds
<1>3. /\ wire # <<>> /\ UsbFrame /\ status \in Statuses /\ status # "completed"
      /\ data' = data
  BY <1>2 DEF BlockLost, CancelTakesEffect, GoneEnds, Ends, Statuses
<1>4. status = "cancelled" => failed
  <2>1. cancelled # {} => failed
    BY <1>1 DEF UsbInv, Thread
  <2> QED
    BY <1>2, <2>1
<1>5. /\ sent \in 0 .. Laps - 1 /\ q <= K
      /\ data \in [Slots -> [0 .. PerSlot - 1 -> Int]]
      /\ \A m \in FirstOf(c) .. q - 1 :
            data[InRing(SlotOf(m))][IndexInSlot(m)] = BlockNumber(m)
  BY <1>1 DEF UsbInv, Content, UsbTypes
<1>6. sent' \in 0 .. Laps - 1
  <2>1. (sent + 1) % Laps \in 0 .. Laps - 1
    BY <1>1, SentNext
  <2>2. sent' = (sent + 1) % Laps \/ sent' = sent
    BY DEF BlockLost, CancelTakesEffect, GoneEnds
  <2> QED
    BY <1>5, <2>1, <2>2
<1>7. q = IF status = "completed" /\ q = K THEN K + 1 ELSE q
  BY <1>3
<1>8. q = K + 1 => sent' = BlockNumber(K + 1)
  BY <1>5
<1>9. /\ data' \in [Slots -> [0 .. PerSlot - 1 -> Int]]
      /\ \A m \in FirstOf(c) .. q - 1 :
            data'[InRing(SlotOf(m))][IndexInSlot(m)] = BlockNumber(m)
  BY <1>3, <1>5
<1>10. wire # <<>> /\ Ends(status) /\ status \in Statuses
  BY <1>2, <1>3
<1>11. EndsAt(status, q, K, c, q)
  BY <1>1, <1>3, <1>4, <1>6, <1>7, <1>8, <1>9, <1>10 DEF EndsAt
<1>12. status \in Statuses
  BY <1>3
<1> QED
  BY <1>1, <1>11, <1>12, EndsKeeps

-----------------------------------------------------------------------------
(* The consumer, the control thread and the caller *)

\* What the consumer, the control thread and the caller leave alone
LEMMA RunKept ==
  ASSUME NEW N \in Nat, NEW K \in Nat, NEW M \in Nat, NEW c \in Nat, NEW q \in Nat,
         UsbInv(N, K, M, c, q), layout' = layout,
         UNCHANGED <<runVars, telemetryVars, usbVars>>
  PROVE  /\ LayoutFits' /\ Thread(N, M)' /\ Queue(N, K, M)' /\ Discards(N)' /\ Content(N, K, c, q)'
<1>1. LayoutFits /\ Thread(N, M) /\ Queue(N, K, M) /\ Discards(N) /\ Content(N, K, c, q)
  BY DEF UsbInv
<1>2. /\ UNCHANGED <<sPc, entry, failed, sweeping, capture_complete, place, cancelled,
                     telemetryVars>>
      /\ UNCHANGED <<wire, reaped, submitted>>
      /\ UNCHANGED <<discarded_transfers, sent, data>>
  BY DEF runVars, usbVars
<1>3. Thread(N, M)'
  BY <1>1, <1>2, ThreadKept
<1>4. Queue(N, K, M)'
  BY <1>1, <1>2, QueueKept
<1>5. Content(N, K, c, q)'
  BY <1>1, <1>2, ContentKept
<1> QED
  BY <1>1, <1>2, <1>3, <1>4, <1>5, LayoutKept DEF Discards

LEMMA RunTypesKept ==
  ASSUME UsbTypes, layout' = layout, UNCHANGED <<runVars, telemetryVars, usbVars>>,
         slotState' \in [Slots -> SlotStates], cPc' \in {"wait", "hold", "left"},
         stop_requested' \in BOOLEAN, abort_requested' \in BOOLEAN, ring_abort' \in BOOLEAN
  PROVE  UsbTypes'
<1>1. /\ PerSlot' = PerSlot /\ Transfers' = Transfers /\ Endings' = Endings
      /\ layout'.discard_transfers = layout.discard_transfers
  BY LayoutTypes
<1>2. /\ UNCHANGED <<place, submitted, cancelled, wire, reaped, data>>
      /\ UNCHANGED <<discarded_transfers, telemetry, telemetry_failures>>
      /\ UNCHANGED <<sPc, sweeping, capture_complete, failed, result>>
  BY DEF runVars, telemetryVars, usbVars
<1>3. /\ place' \in [Transfers' -> Slots]
      /\ submitted' \subseteq Transfers' /\ cancelled' \subseteq Transfers'
      /\ wire' \in Seq(Transfers') /\ reaped' \in Seq(Endings')
      /\ data' \in [Slots -> [0 .. PerSlot' - 1 -> Int]]
  BY <1>1, <1>2 DEF UsbTypes
<1>4. discarded_transfers' \in 0 .. layout'.discard_transfers /\ telemetry_failures' \in 0 .. 2
  BY <1>1, <1>2 DEF UsbTypes
<1>5. /\ sPc' \in {"submit", "loop", "events", "secure", "returned"} /\ sweeping' \in BOOLEAN
      /\ capture_complete' \in BOOLEAN /\ failed' \in BOOLEAN /\ result' \in Results
      /\ telemetry' \in {"idle", "in flight", "cancelled"}
  BY <1>2 DEF UsbTypes
<1> QED
  BY <1>3, <1>4, <1>5 DEF UsbTypes

\* The consumer takes the slot it waits for, or is released from it
LEMMA ConsumerTakesKeeps ==
  ASSUME LibUsbInv, ConsumerTakes
  PROVE  LibUsbInv'
<1>1. PICK N, K, M, c, q \in Nat : UsbInv(N, K, M, c, q)
  BY DEF LibUsbInv
<1>2. /\ LayoutFits /\ UsbTypes /\ Aborts /\ Consumed(N, M, c)
      /\ PerSlot = 1 => Barred(c, AtLeast(q, Skipped))
  BY <1>1 DEF UsbInv
<1>3. /\ layout' = layout /\ UNCHANGED <<runVars, telemetryVars, usbVars, flagVars>>
      /\ UNCHANGED <<slotState, cSlot, taken>>
  BY DEF ConsumerTakes, ConsumerFrame
<1>4. /\ LayoutFits' /\ Thread(N, M)' /\ Queue(N, K, M)' /\ Discards(N)' /\ Content(N, K, c, q)'
  BY <1>1, <1>3, RunKept
<1>5. SlotCount \in Nat /\ SlotCount >= 4 /\ InRing(c) \in Slots /\ cSlot = InRing(c)
  BY <1>1, Counters
<1>6. Aborts'
  BY <1>2, <1>3, AbortsKept DEF runVars, flagVars
<1>7. c \in c .. c + SlotCount - 1
  BY <1>5
<1>8. cPc' = "hold" => slotState[InRing(c)] = "full"
  BY <1>5 DEF ConsumerTakes, SlotHasData
<1>9. Consumed(N, M, c)'
  <2>1. cPc' = "hold" => c < SlotOf(N)
    BY <1>2, <1>7, <1>8 DEF Consumed
  <2>2. cPc' = "left" /\ ~abort_requested => slotState[cSlot] = "dumped" /\ sPc = "returned"
    <3> SUFFICES ASSUME cPc' = "left", ~abort_requested
                 PROVE  slotState[cSlot] = "dumped" /\ sPc = "returned"
      OBVIOUS
    <3>1. slotState[cSlot] \in {"dumped", "aborted"}
      BY DEF ConsumerTakes, SlotReleased
    <3> QED
      BY <1>2, <1>5, <3>1 DEF Aborts
  <2>3. /\ cSlot = InRing(c) /\ taken = BlockNumber(FirstOf(c)) /\ c >= Skipped
        /\ c = Skipped \/ c <= SlotOf(N)
        /\ \A m \in 0 .. M - 1 : SlotOf(m) < c + SlotCount
        /\ \A k \in c .. c + SlotCount - 1 : slotState[InRing(k)] = "full" => k < SlotOf(N)
        /\ ~failed /\ ~abort_requested =>
              \A k \in c .. SlotOf(N) - 1 : slotState[InRing(k)] = "full"
    BY <1>2 DEF Consumed
  <2> QED
    BY <1>3, <2>1, <2>2, <2>3, LayoutKept DEF Consumed, runVars, flagVars
<1>10. PerSlot' = 1 => Barred(c, AtLeast(q, Skipped))'
  <2> SUFFICES ASSUME PerSlot = 1 PROVE Barred(c, AtLeast(q, Skipped))'
    BY <1>3, LayoutKept
  <2> DEFINE b == AtLeast(q, Skipped)
  <2>1. c <= b /\ (b \in c .. c + SlotCount - 1 => slotState[InRing(b)] # "full")
    BY <1>2 DEF Barred
  <2>2. b' = b /\ b \in Nat
    <3>1. Skipped \in Nat
      BY <1>1, Counters
    <3> QED
      BY <1>3, <3>1, LayoutKept DEF AtLeast
  <2> HIDE DEF b
  <2>3. cPc' = "hold" => c < b
    BY <1>7, <1>8, <2>1, <2>2
  <2>4. Barred(c, b)'
    BY <1>3, <2>1, <2>2, <2>3, LayoutKept DEF Barred
  <2> QED
    BY <2>4 DEF b
<1>11. UsbTypes'
  <2>1. cPc' \in {"wait", "hold", "left"}
    BY DEF ConsumerTakes
  <2>2. /\ slotState' \in [Slots -> SlotStates] /\ stop_requested' \in BOOLEAN
        /\ abort_requested' \in BOOLEAN /\ ring_abort' \in BOOLEAN
    BY <1>2, <1>3 DEF UsbTypes, flagVars
  <2> QED
    BY <1>2, <1>3, <2>1, <2>2, RunTypesKept
<1>12. UsbInv(N, K, M, c, q)'
  BY <1>4, <1>6, <1>9, <1>10, <1>11 DEF UsbInv
<1> QED
  BY <1>12 DEF LibUsbInv

\* The consumer frees its slot, which is the next lap's from there on
LEMMA ConsumerFreesKeeps ==
  ASSUME LibUsbInv, ConsumerFrees
  PROVE  LibUsbInv'
<1>1. PICK N, K, M, c, q \in Nat : UsbInv(N, K, M, c, q)
  BY DEF LibUsbInv
<1>2. /\ LayoutFits /\ UsbTypes /\ Aborts /\ Consumed(N, M, c)
      /\ PerSlot = 1 => Barred(c, AtLeast(q, Skipped))
  BY <1>1 DEF UsbInv
<1>3. /\ layout' = layout /\ UNCHANGED <<runVars, telemetryVars, usbVars, flagVars>>
      /\ cPc = "hold" /\ cPc' \in {"wait", "left"} /\ (cPc' = "left" => abort_requested)
      /\ cSlot' = NextSlot(cSlot) /\ taken' = (taken + PerSlot) % Laps
  BY DEF ConsumerFrees, ConsumerFrame
<1>4. /\ LayoutFits' /\ Thread(N, M)' /\ Queue(N, K, M)' /\ Discards(N)' /\ Content(N, K, c, q)'
  BY <1>1, <1>3, RunKept
<1>5. /\ SlotCount \in Nat /\ SlotCount >= 4 /\ InRing(c) \in Slots /\ cSlot = InRing(c)
      /\ SlotOf(N) \in Nat /\ SlotOf(N) <= c + SlotCount /\ Skipped \in Nat
      /\ PerSlot \in Nat \ {0}
  BY <1>1, Counters
<1>6. slotState \in [Slots -> SlotStates]
  BY <1>2 DEF UsbTypes
<1>7. /\ slotState' \in [Slots -> SlotStates] /\ slotState'[InRing(c)] # "full"
      /\ \A i \in Slots : /\ i # InRing(c) => slotState'[i] = slotState[i]
                          /\ slotState'[i] \in {slotState[i], "empty"}
                          /\ slotState[i] = "aborted" => slotState'[i] = "aborted"
  <2>1. CASE slotState[InRing(c)] \in {"full", "dumped"}
    <3>1. slotState' = [slotState EXCEPT ![InRing(c)] = "empty"]
      BY <1>5, <2>1 DEF ConsumerFrees, CasToEmpty
    <3> QED
      BY <1>5, <1>6, <2>1, <3>1 DEF SlotStates
  <2>2. CASE slotState[InRing(c)] \notin {"full", "dumped"}
    <3>1. slotState' = slotState
      BY <1>5, <2>2 DEF ConsumerFrees, CasToEmpty
    <3> QED
      BY <1>6, <2>2, <3>1
  <2> QED
    BY <2>1, <2>2
<1>8. Aborts'
  BY <1>2, <1>3, <1>7 DEF Aborts, runVars, flagVars
<1>9. c < SlotOf(N)
  BY <1>2, <1>3 DEF Consumed
<1>10. \A k \in c + 1 .. c + SlotCount :
           /\ slotState'[InRing(k)] = "full" => /\ k \in c .. c + SlotCount - 1
                                                /\ slotState[InRing(k)] = "full"
           /\ k # c + SlotCount => slotState'[InRing(k)] = slotState[InRing(k)]
  <2> SUFFICES ASSUME NEW k \in c + 1 .. c + SlotCount
               PROVE  /\ slotState'[InRing(k)] = "full" => /\ k \in c .. c + SlotCount - 1
                                                           /\ slotState[InRing(k)] = "full"
                      /\ k # c + SlotCount => slotState'[InRing(k)] = slotState[InRing(k)]
    OBVIOUS
  <2>1. CASE k = c + SlotCount
    <3>1. InRing(k) = InRing(c)
      BY <1>2, <2>1, RingPlaces
    <3> QED
      BY <1>7, <2>1, <3>1
  <2>2. CASE k # c + SlotCount
    <3>1. k \in Nat /\ c < k /\ k < c + SlotCount /\ k \in c .. c + SlotCount - 1
      BY <1>5, <2>2
    <3>2. InRing(k) \in Slots /\ InRing(k) # InRing(c)
      BY <1>2, <3>1, RingPlaces, RingPlacesDiffer
    <3> QED
      BY <1>7, <3>1, <3>2
  <2> QED
    BY <2>1, <2>2
<1>11. Consumed(N, M, c + 1)'
  <2>1. cSlot' = InRing(c + 1)
    BY <1>2, <1>3, <1>5, RingPlaces
  <2>2. taken' = BlockNumber(FirstOf(c + 1))
    <3>1. taken = BlockNumber(FirstOf(c))
      BY <1>2 DEF Consumed
    <3>2. FirstOf(c) \in Nat /\ FirstOf(c + 1) = FirstOf(c) + PerSlot
      <4>1. 0 \in 0 .. PerSlot - 1
        BY <1>5
      <4> QED
        BY <1>2, <4>1, FirstOfSlot
    <3>3. (BlockNumber(FirstOf(c)) + PerSlot) % Laps = BlockNumber(FirstOf(c) + PerSlot)
      BY <1>2, <1>5, <3>2, BlockNumbers
    <3> QED
      BY <1>3, <3>1, <3>2, <3>3
  <2>3. c + 1 >= Skipped /\ c + 1 <= SlotOf(N)
    <3>1. c >= Skipped
      BY <1>2 DEF Consumed
    <3> QED
      BY <1>5, <1>9, <3>1
  <2>4. \A m \in 0 .. M - 1 : SlotOf(m) < (c + 1) + SlotCount
    <3> SUFFICES ASSUME NEW m \in 0 .. M - 1 PROVE SlotOf(m) < (c + 1) + SlotCount
      OBVIOUS
    <3>1. SlotOf(m) < c + SlotCount /\ m \in Nat
      BY <1>2 DEF Consumed
    <3>2. SlotOf(m) \in Nat
      BY <1>2, <3>1, SlotOfType
    <3> QED
      BY <1>5, <3>1, <3>2
  <2>5. \A k \in c + 1 .. (c + 1) + SlotCount - 1 :
            slotState'[InRing(k)] = "full" => k < SlotOf(N)
    <3>1. (c + 1) + SlotCount - 1 = c + SlotCount
      BY <1>5
    <3>2. \A k \in c .. c + SlotCount - 1 : slotState[InRing(k)] = "full" => k < SlotOf(N)
      BY <1>2 DEF Consumed
    <3> QED
      BY <1>10, <3>1, <3>2
  <2>6. ~failed /\ ~abort_requested =>
            \A k \in c + 1 .. SlotOf(N) - 1 : slotState'[InRing(k)] = "full"
    <3> SUFFICES ASSUME ~failed, ~abort_requested, NEW k \in c + 1 .. SlotOf(N) - 1
                 PROVE  slotState'[InRing(k)] = "full"
      OBVIOUS
    <3>1. k \in c .. SlotOf(N) - 1 /\ k \in c + 1 .. c + SlotCount /\ k # c + SlotCount
      BY <1>5
    <3>2. slotState[InRing(k)] = "full"
      BY <1>2, <3>1 DEF Consumed
    <3> QED
      BY <1>10, <3>1, <3>2
  <2>7. failed' = failed /\ abort_requested' = abort_requested
    BY <1>3 DEF runVars, flagVars
  <2>8. cPc' # "hold" /\ ~(cPc' = "left" /\ ~abort_requested')
    BY <1>3, <2>7
  <2> QED
    BY <1>3, <2>1, <2>2, <2>3, <2>4, <2>5, <2>6, <2>7, <2>8, LayoutKept DEF Consumed
<1>12. Content(N, K, c + 1, q)'
  <2>1. FirstOf(c) \in Nat /\ FirstOf(c + 1) = FirstOf(c) + PerSlot
    <3>1. 0 \in 0 .. PerSlot - 1
      BY <1>5
    <3> QED
      BY <1>2, <3>1, FirstOfSlot
  <2>2. /\ FirstOf(c)' \in Nat /\ FirstOf(c + 1)' = FirstOf(c)' + PerSlot
    BY <1>3, <2>1, LayoutKept
  <2>3. \A m \in FirstOf(c + 1)' .. q - 1 : m \in FirstOf(c)' .. q - 1
    BY <1>5, <2>2
  <2> QED
    BY <1>4, <2>3 DEF Content
<1>13. PerSlot' = 1 => Barred(c + 1, AtLeast(q, Skipped))'
  <2> SUFFICES ASSUME PerSlot = 1 PROVE Barred(c + 1, AtLeast(q, Skipped))'
    BY <1>3, LayoutKept
  <2> DEFINE b == AtLeast(q, Skipped)
  <2>1. c < b /\ (b \in c .. c + SlotCount - 1 => slotState[InRing(b)] # "full")
    BY <1>2, <1>3 DEF Barred
  <2>2. b' = b /\ b \in Nat
    BY <1>3, <1>5, LayoutKept DEF AtLeast
  <2> HIDE DEF b
  <2>3. c + 1 <= b /\ (c + 1) + SlotCount - 1 = c + SlotCount
    BY <1>5, <2>1, <2>2
  <2>4. b \in c + 1 .. c + SlotCount => slotState'[InRing(b)] # "full"
    BY <1>10, <2>1
  <2>5. b' \in c + 1 .. (c + 1) + SlotCount - 1 => slotState'[InRing(b)'] # "full"
    BY <2>2, <2>3, <2>4, <1>3, LayoutKept
  <2>6. Barred(c + 1, b)'
    BY <1>3, <2>2, <2>3, <2>5 DEF Barred
  <2> QED
    BY <2>6 DEF b
<1>14. UsbTypes'
  <2>1. /\ cPc' \in {"wait", "hold", "left"} /\ stop_requested' \in BOOLEAN
        /\ abort_requested' \in BOOLEAN /\ ring_abort' \in BOOLEAN
    BY <1>2, <1>3 DEF UsbTypes, flagVars
  <2> QED
    BY <1>2, <1>3, <1>7, <2>1, RunTypesKept
<1> DEFINE d == c + 1
<1>15. UsbInv(N, K, M, d, q)' /\ d \in Nat
  BY <1>4, <1>8, <1>11, <1>12, <1>13, <1>14 DEF UsbInv
<1> QED
  BY <1>15 DEF LibUsbInv

\* An abort leaves no slot full, so the consumer gets no further
LEMMA AbortKeeps ==
  ASSUME LibUsbInv, EnvFrame, AbortSlots, abort_requested' = TRUE, ring_abort' = TRUE,
         stop_requested' \in BOOLEAN
  PROVE  LibUsbInv'
<1>1. PICK N, K, M, c, q \in Nat : UsbInv(N, K, M, c, q)
  BY DEF LibUsbInv
<1>2. /\ LayoutFits /\ UsbTypes /\ Aborts /\ Consumed(N, M, c)
      /\ PerSlot = 1 => Barred(c, AtLeast(q, Skipped))
  BY <1>1 DEF UsbInv
<1>3. layout' = layout /\ UNCHANGED <<runVars, telemetryVars, usbVars, consumerVars>>
  BY DEF EnvFrame
<1>4. /\ LayoutFits' /\ Thread(N, M)' /\ Queue(N, K, M)' /\ Discards(N)' /\ Content(N, K, c, q)'
  BY <1>1, <1>3, RunKept
<1>5. slotState' \in [Slots -> SlotStates] /\ \A i \in Slots : slotState'[i] = "aborted"
  BY DEF AbortSlots, SlotStates
<1>6. \A k \in c .. c + SlotCount - 1 : slotState'[InRing(k)] # "full"
  <2> SUFFICES ASSUME NEW k \in c .. c + SlotCount - 1 PROVE slotState'[InRing(k)] # "full"
    OBVIOUS
  <2>1. k \in Nat
    BY <1>1, Counters
  <2>2. InRing(k) \in Slots
    BY <1>2, <2>1, RingPlaces
  <2> QED
    BY <1>5, <2>2
<1>7. Aborts'
  BY <1>5 DEF Aborts
<1>8. Consumed(N, M, c)'
  <2>1. /\ cSlot = InRing(c) /\ taken = BlockNumber(FirstOf(c)) /\ c >= Skipped
        /\ c = Skipped \/ c <= SlotOf(N)
        /\ \A m \in 0 .. M - 1 : SlotOf(m) < c + SlotCount
        /\ cPc = "hold" => c < SlotOf(N)
    BY <1>2 DEF Consumed
  <2> QED
    BY <1>3, <1>6, <2>1, LayoutKept DEF Consumed, consumerVars
<1>9. PerSlot' = 1 => Barred(c, AtLeast(q, Skipped))'
  <2> SUFFICES ASSUME PerSlot = 1 PROVE Barred(c, AtLeast(q, Skipped))'
    BY <1>3, LayoutKept
  <2> DEFINE b == AtLeast(q, Skipped)
  <2>1. c <= b /\ (cPc = "hold" => c < b)
    BY <1>2 DEF Barred
  <2>2. b' = b
    BY <1>3, LayoutKept DEF AtLeast
  <2> HIDE DEF b
  <2>3. Barred(c, b)'
    BY <1>3, <1>6, <2>1, <2>2, LayoutKept DEF Barred, consumerVars
  <2> QED
    BY <2>3 DEF b
<1>10. UsbTypes'
  <2>1. abort_requested' \in BOOLEAN /\ ring_abort' \in BOOLEAN
    OBVIOUS
  <2>2. cPc' \in {"wait", "hold", "left"}
    BY <1>2, <1>3 DEF UsbTypes, consumerVars
  <2> QED
    BY <1>2, <1>3, <1>5, <2>1, <2>2, RunTypesKept
<1>11. UsbInv(N, K, M, c, q)'
  BY <1>4, <1>7, <1>8, <1>9, <1>10 DEF UsbInv
<1> QED
  BY <1>11 DEF LibUsbInv

\* Once Run has returned, the slots that stayed empty release the consumer
LEMMA DumpKeeps ==
  ASSUME LibUsbInv, EnvFrame, DumpEmptySlots, sPc = "returned",
         UNCHANGED <<stop_requested, abort_requested, ring_abort>>
  PROVE  LibUsbInv'
<1>1. PICK N, K, M, c, q \in Nat : UsbInv(N, K, M, c, q)
  BY DEF LibUsbInv
<1>2. /\ LayoutFits /\ UsbTypes /\ Aborts /\ Consumed(N, M, c)
      /\ PerSlot = 1 => Barred(c, AtLeast(q, Skipped))
  BY <1>1 DEF UsbInv
<1>3. layout' = layout /\ UNCHANGED <<runVars, telemetryVars, usbVars, consumerVars>>
  BY DEF EnvFrame
<1>4. /\ LayoutFits' /\ Thread(N, M)' /\ Queue(N, K, M)' /\ Discards(N)' /\ Content(N, K, c, q)'
  BY <1>1, <1>3, RunKept
<1>5. /\ slotState' \in [Slots -> SlotStates]
      /\ \A i \in Slots : slotState'[i] = IF slotState[i] = "empty" THEN "dumped"
                                                                     ELSE slotState[i]
  <2>1. slotState \in [Slots -> SlotStates]
    BY <1>2 DEF UsbTypes
  <2> QED
    BY <2>1 DEF DumpEmptySlots, SlotStates
<1>6. \A k \in c .. c + SlotCount - 1 :
          slotState'[InRing(k)] = "full" <=> slotState[InRing(k)] = "full"
  <2> SUFFICES ASSUME NEW k \in c .. c + SlotCount - 1
               PROVE  slotState'[InRing(k)] = "full" <=> slotState[InRing(k)] = "full"
    OBVIOUS
  <2>1. k \in Nat
    BY <1>1, Counters
  <2>2. InRing(k) \in Slots
    BY <1>2, <2>1, RingPlaces
  <2> QED
    BY <1>5, <2>2
<1>7. Aborts'
  BY <1>2, <1>3, <1>5 DEF Aborts, runVars
<1>8. Consumed(N, M, c)'
  <2>1. /\ cSlot = InRing(c) /\ taken = BlockNumber(FirstOf(c)) /\ c >= Skipped
        /\ c = Skipped \/ c <= SlotOf(N)
        /\ \A m \in 0 .. M - 1 : SlotOf(m) < c + SlotCount
        /\ cPc = "hold" => c < SlotOf(N)
    BY <1>2 DEF Consumed
  <2>2. \A k \in c .. c + SlotCount - 1 : slotState'[InRing(k)] = "full" => k < SlotOf(N)
    BY <1>2, <1>6 DEF Consumed
  <2>3. ~failed /\ ~abort_requested =>
            \A k \in c .. SlotOf(N) - 1 : slotState'[InRing(k)] = "full"
    <3> SUFFICES ASSUME ~failed, ~abort_requested, NEW k \in c .. SlotOf(N) - 1
                 PROVE  slotState'[InRing(k)] = "full"
      OBVIOUS
    <3>1. k \in c .. c + SlotCount - 1
      <4>1. SlotCount \in Nat /\ SlotOf(N) \in Nat /\ SlotOf(N) <= c + SlotCount
        BY <1>1, Counters
      <4> QED
        BY <4>1
    <3>2. slotState[InRing(k)] = "full"
      BY <1>2 DEF Consumed
    <3> QED
      BY <1>6, <3>1, <3>2
  <2>4. cPc = "left" /\ ~abort_requested => slotState'[cSlot] = "dumped"
    <3> SUFFICES ASSUME cPc = "left", ~abort_requested PROVE slotState'[cSlot] = "dumped"
      OBVIOUS
    <3>1. slotState[cSlot] = "dumped"
      BY <1>2 DEF Consumed
    <3>2. cSlot \in Slots
      BY <1>1, Counters
    <3> QED
      BY <1>5, <3>1, <3>2
  <2>5. failed' = failed /\ sPc' = sPc
    BY <1>3 DEF runVars
  <2> QED
    BY <1>3, <2>1, <2>2, <2>3, <2>4, <2>5, LayoutKept DEF Consumed, consumerVars
<1>9. PerSlot' = 1 => Barred(c, AtLeast(q, Skipped))'
  <2> SUFFICES ASSUME PerSlot = 1 PROVE Barred(c, AtLeast(q, Skipped))'
    BY <1>3, LayoutKept
  <2> DEFINE b == AtLeast(q, Skipped)
  <2>1. /\ c <= b /\ (cPc = "hold" => c < b)
        /\ b \in c .. c + SlotCount - 1 => slotState[InRing(b)] # "full"
    BY <1>2 DEF Barred
  <2>2. b' = b
    BY <1>3, LayoutKept DEF AtLeast
  <2> HIDE DEF b
  <2>3. Barred(c, b)'
    BY <1>3, <1>6, <2>1, <2>2, LayoutKept DEF Barred, consumerVars
  <2> QED
    BY <2>3 DEF b
<1>10. UsbTypes'
  <2>1. /\ cPc' \in {"wait", "hold", "left"} /\ stop_requested' \in BOOLEAN
        /\ abort_requested' \in BOOLEAN /\ ring_abort' \in BOOLEAN
    BY <1>2, <1>3 DEF UsbTypes, consumerVars
  <2> QED
    BY <1>2, <1>3, <1>5, <2>1, RunTypesKept
<1>11. UsbInv(N, K, M, c, q)'
  BY <1>4, <1>7, <1>8, <1>9, <1>10 DEF UsbInv
<1> QED
  BY <1>11 DEF LibUsbInv

\* What the control thread, the watchdog and the caller do to a run
LEMMA EnvironmentKeeps ==
  ASSUME LibUsbInv, ControlSeesReturn \/ Watchdog \/ Abort
  PROVE  LibUsbInv'
<1>1. stop_requested \in BOOLEAN
  BY DEF LibUsbInv, UsbInv, UsbTypes
<1>2. CASE ControlSeesReturn
  <2>1. CASE failed
    BY <1>1, <1>2, <2>1, AbortKeeps DEF ControlSeesReturn
  <2>2. CASE ~failed
    BY <1>2, <2>2, DumpKeeps DEF ControlSeesReturn
  <2> QED
    BY <2>1, <2>2
<1>3. CASE Watchdog
  BY <1>1, <1>3, AbortKeeps DEF Watchdog
<1>4. CASE Abort
  BY <1>4, AbortKeeps DEF Abort
<1> QED
  BY <1>2, <1>3, <1>4

-----------------------------------------------------------------------------
(* The theorem *)

\* Every step keeps the invariant
LEMMA LibUsbStep ==
  LibUsbInv /\ [Next]_vars => LibUsbInv'
<1> SUFFICES ASSUME LibUsbInv, [Next]_vars
             PROVE  LibUsbInv'
  OBVIOUS
<1>1. CASE Source
  BY <1>1, SubmitNextKeeps, RunLoopKeeps, EventsReturnKeeps, FailureKeeps, DiscardedKeeps,
     KeptKeeps, SecureSlotKeeps, RunReturnsKeeps DEF Source
<1>2. CASE Usb
  BY <1>2, BlockArrivesKeeps, NoBlockKeeps, AsideKeeps DEF Usb
<1>3. CASE BlockLost
  BY <1>3, NoBlockKeeps
<1>4. CASE DeviceFails \/ RequestStop \/ UNCHANGED vars
  BY <1>4, AsideKeeps
<1>5. CASE Consumer
  BY <1>5, ConsumerTakesKeeps, ConsumerFreesKeeps DEF Consumer
<1>6. CASE ControlSeesReturn \/ Watchdog \/ Abort
  BY <1>6, EnvironmentKeeps
<1>7. CASE RunOver
  BY <1>7, AsideKeeps DEF RunOver
<1> QED
  BY <1>1, <1>2, <1>3, <1>4, <1>5, <1>6, <1>7 DEF Next

\* Over USB no memory is touched by two parties at once or after it was let go of: the device
\* writes into no slot the consumer has or has yet to take, no slot is filled twice, nothing
\* is outstanding once Run has returned, and what is handed over is the stream, whole and in
\* order, up to a failure, and to the last whole slot of a run that is stopped
\* (libusb_source.cpp:226, 407, 441).
THEOREM BuffersAlwaysSafe == Spec => []BuffersAreSafe
<1>1. Init => LibUsbInv
  BY UsbStarts
<1>2. LibUsbInv => BuffersAreSafe
  BY UsbIsSafe
<1> QED
  BY <1>1, <1>2, LibUsbStep, PTL DEF Spec
=============================================================================
