------------------------ MODULE SeatInventoryProofs ------------------------
(***************************************************************************)
(* Proofs about SeatInventory for any bookings, reservations, departures,  *)
(* capacity and party, from the conditions of the updates and from what a  *)
(* document's history says of the seats it holds.  The sums over documents *)
(* are sizes of sets of seats, so that a document more is a set of seats   *)
(* more, disjoint from the rest.                                           *)
(***************************************************************************)
EXTENDS SeatInventory, FiniteSetTheorems, TLAPS

(* A reservation has a booking from its confirmation on, and after its     *)
(* cancellation none that travels.                                         *)
HistoryInv ==
  \A h \in Hold :
    /\ hold[h].st \in {"none", "ON_HOLD", "EXPIRED"} => bk[h].st = "none"
    /\ hold[h].st = "CANCELLED" => bk[h].st \in {"none", "cancelled", "deleted"}

(* A booking that was never made holds no seats.                           *)
UnmadeInv == \A b \in Booking \cup Hold : bk[b].st = "none" => ~bk[b].reserved

(* A storefront booking that was cancelled has returned its seats.         *)
ReturnedInv == \A b \in Booking : bk[b].st = "cancelled" => ~bk[b].reserved \/ bk[b].released

(* The counters as the two ledgers tell them, whoever the documents in     *)
(* them belong to.                                                         *)
HoldsOpen == {h \in Hold : hold[h].st \in {"ON_HOLD", "CONFIRMED"}}
LedgersAccounted ==
  \A s \in Slot : row.booked[s] = Seats(bk, Ledgered, s) + Seats(hold, HoldsOpen, s)

(* A stop sale that reaches the row stays on it until it is lifted.        *)
StopInv == Stopped => row.blocked

IInv ==
  /\ TypeOK /\ HistoryInv /\ UnmadeInv /\ ReturnedInv
  /\ LedgersAccounted /\ StopInv
-----------------------------------------------------------------------------
(* The row that reserveInventory or ensureCapacityRecord prepares is a row *)
(* and counts what the stored one counts.                                  *)
LEMMA PreparedRow ==
  ASSUME row \in AvailabilityRow, NEW s \in Slot
  PROVE  /\ StorefrontRow \in AvailabilityRow /\ OctoRow(s) \in AvailabilityRow
         /\ StorefrontRow.booked = row.booked /\ OctoRow(s).booked = row.booked
         /\ StorefrontRow.blocked = row.blocked /\ OctoRow(s).blocked = row.blocked
BY DEF AvailabilityRow, StorefrontRow, RowWith, OctoRow

LEMMA PreparedRepair ==
  ASSUME row \in AvailabilityRow
  PROVE  /\ RepairRow \in AvailabilityRow /\ RepairRow.booked = row.booked
         /\ RepairRow.blocked = row.blocked
BY LegacySlotAssumption DEF AvailabilityRow, RepairRow, RowWith

(* Seats are taken only where they fit, so a row stays a row; a stop sale  *)
(* leaves no room for any.                                                 *)
LEMMA TakeKeepsRow ==
  ASSUME NEW r \in AvailabilityRow, NEW s, NEW q \in 0..MaxParty, Fits(r, s, q)
  PROVE  Take(r, s, q) \in AvailabilityRow /\ ~r.blocked /\ s \in Slot
<1>1. s \in Slot /\ ~r.blocked /\ r.booked \in [Slot -> 0..Capacity]
  BY DEF Fits, AvailabilityRow
<1>2. r.booked[s] + q \in 0..Capacity
  BY <1>1, CapacityAssumption, MaxPartyAssumption DEF Fits
<1>3. [r.booked EXCEPT ![s] = @ + q] \in [Slot -> 0..Capacity]
  BY <1>1, <1>2
<1> QED
  BY <1>1, <1>3 DEF Take, AvailabilityRow

(* Returned seats were counted, and no counter rises by returning some.    *)
LEMMA ReturnKeepsRow ==
  ASSUME row \in AvailabilityRow, NEW s, NEW q \in 0..MaxParty, Return(s, q)
  PROVE  /\ row' \in AvailabilityRow
         /\ row'.blocked = row.blocked
         /\ \A t \in Slot : row'.booked[t] <= row.booked[t]
<1>1. s \in Slot /\ row.booked \in [Slot -> 0..Capacity] /\ row.booked[s] >= q
  BY DEF Return, AvailabilityRow
<1>2. row.booked[s] - q \in 0..Capacity /\ row.booked[s] - q <= row.booked[s]
  BY <1>1, CapacityAssumption, MaxPartyAssumption
<1>3. [row.booked EXCEPT ![s] = @ - q] \in [Slot -> 0..Capacity]
  BY <1>1, <1>2
<1>4. /\ row' = [row EXCEPT !.booked = [row.booked EXCEPT ![s] = @ - q]]
      /\ row'.blocked = row.blocked
      /\ row'.booked = [row.booked EXCEPT ![s] = @ - q]
  BY DEF Return, AvailabilityRow
<1>5. ASSUME NEW t \in Slot PROVE row'.booked[t] <= row.booked[t]
  <2>1. CASE t = s
    BY <1>1, <1>2, <1>4, <2>1
  <2>2. CASE t # s
    <3>1. row'.booked[t] = row.booked[t] /\ row.booked[t] \in 0..Capacity
      BY <1>1, <1>4, <2>2
    <3> QED
      BY <3>1, CapacityAssumption
  <2> QED
    BY <2>1, <2>2
<1> QED
  BY <1>3, <1>4, <1>5 DEF AvailabilityRow

(* The seats that documents hold: a number, none for no documents, and no  *)
(* matter of anything but slots and quantities.                            *)
LEMMA SeatsNat ==
  ASSUME NEW doc, NEW B, IsFiniteSet(B), NEW s
  PROVE  IsFiniteSet(Held(doc, B, s)) /\ Seats(doc, B, s) \in Nat
<1>1. IsFiniteSet(Party)
  BY MaxPartyAssumption, FS_Interval DEF Party
<1>2. IsFiniteSet(B \X Party) /\ Held(doc, B, s) \in SUBSET (B \X Party)
  BY <1>1, FS_Product DEF Held
<1> QED BY <1>2, FS_Subset, FS_CardinalityType DEF Seats

LEMMA NoSeats == ASSUME NEW doc, NEW s PROVE Seats(doc, {}, s) = 0
<1>1. Held(doc, {}, s) = {}
  BY DEF Held
<1> QED BY <1>1, FS_EmptySet DEF Seats

SameSeats(doc, new, B) == \A b \in B : new[b].slot = doc[b].slot /\ new[b].qty = doc[b].qty

LEMMA Unmoved ==
  ASSUME NEW doc, NEW new, NEW B, SameSeats(doc, new, B), NEW s
  PROVE  Seats(new, B, s) = Seats(doc, B, s)
<1>1. Held(new, B, s) = Held(doc, B, s)
  BY DEF Held, SameSeats
<1> QED BY <1>1 DEF Seats

(* What one document holds of a departure.                                 *)
Part(doc, b, s) == IF doc[b].slot = s THEN doc[b].qty ELSE 0

(* A document more adds its seats to those of its departure.               *)
LEMMA OneMore ==
  ASSUME NEW doc, NEW B, IsFiniteSet(B), NEW b, b \notin B, NEW s,
         Part(doc, b, s) \in 0..MaxParty
  PROVE  Seats(doc, B \cup {b}, s) = Seats(doc, B, s) + Part(doc, b, s)
<1> DEFINE q == Part(doc, b, s)
           seat == [m \in 1..q |-> <<b, m>>]
<1>1. q \in 0..MaxParty /\ q \in Nat
  BY MaxPartyAssumption
<1>2. IsFiniteSet(1..q) /\ Cardinality(1..q) = q
  BY <1>1, FS_Interval
<1>3. Held(doc, {b}, s) = {<<b, m>> : m \in 1..q}
  BY <1>1, MaxPartyAssumption DEF Held, Party, Part
<1>4. seat \in Bijection(1..q, Held(doc, {b}, s))
  <2>1. seat \in [1..q -> Held(doc, {b}, s)]
    BY <1>3
  <2>2. \A m, k \in 1..q : seat[m] = seat[k] => m = k
    OBVIOUS
  <2>3. \A u \in Held(doc, {b}, s) : \E m \in 1..q : seat[m] = u
    BY <1>3
  <2> HIDE DEF seat, q
  <2>4. /\ seat \in Injection(1..q, Held(doc, {b}, s))
        /\ seat \in Surjection(1..q, Held(doc, {b}, s))
    BY <2>1, <2>2, <2>3 DEF Injection, IsInjective, Surjection
  <2> QED BY <2>4 DEF Bijection
<1> HIDE DEF q, seat
<1>5. IsFiniteSet(Held(doc, {b}, s)) /\ Cardinality(Held(doc, {b}, s)) = q
  BY <1>2, <1>4, FS_Bijection DEF ExistsBijection
<1>6. /\ Held(doc, B \cup {b}, s) = Held(doc, B, s) \cup Held(doc, {b}, s)
      /\ Held(doc, B, s) \cap Held(doc, {b}, s) = {}
  BY DEF Held
<1>7. IsFiniteSet(Held(doc, B, s)) /\ Seats(doc, B, s) \in Nat
  BY SeatsNat
<1>8. Cardinality(Held(doc, B, s) \cup Held(doc, {b}, s)) =
        Cardinality(Held(doc, B, s)) + Cardinality(Held(doc, {b}, s))
        - Cardinality(Held(doc, B, s) \cap Held(doc, {b}, s))
  BY <1>5, <1>7, FS_Union
<1>9. Cardinality(Held(doc, B, s) \cap Held(doc, {b}, s)) = 0
  BY <1>6, FS_EmptySet
<1>10. Seats(doc, B \cup {b}, s) = Seats(doc, B, s) + q
  <2>1. Cardinality(Held(doc, B \cup {b}, s)) = Cardinality(Held(doc, B, s)) + q - 0
    BY <1>5, <1>6, <1>8, <1>9
  <2> QED BY <1>1, <1>7, <2>1 DEF Seats
<1> QED BY <1>10 DEF q

(* An empty day has its types and no history.                              *)
LEMMA InitIInv == Init => IInv
<1> SUFFICES ASSUME Init PROVE IInv
  OBVIOUS
<1>1. 0 \in 0..Capacity /\ 0 \in 0..MaxParty
  BY CapacityAssumption, MaxPartyAssumption
<1>2. row \in AvailabilityRow
  BY <1>1 DEF Init, AvailabilityRow
<1>3. bk \in [Booking \cup Hold -> BookingDoc]
  <2>1. NoBooking \in BookingDoc
    BY <1>1 DEF NoBooking, BookingDoc
  <2>2. Legacy \subseteq BookingDoc
    <3>1. \A q \in Party : q \in 0..MaxParty
      BY MaxPartyAssumption DEF Party
    <3>2. \A t \in Slot, q \in Party : LegacyBooking(t, q) \in BookingDoc
      BY <3>1 DEF LegacyBooking, BookingDoc
    <3> QED BY <3>2 DEF Legacy
  <2> QED BY <2>1, <2>2 DEF Init
<1>4. hold \in [Hold -> OctoHold]
  BY <1>1 DEF Init, OctoHold
<1>6. \A b \in Booking \cup Hold :
        bk[b].st # "cancelled" /\ ~bk[b].reserved /\ (b \in Hold => bk[b].st = "none")
  BY DEF Init, NoBooking, Legacy, LegacyBooking
<1>5. LedgersAccounted
  <2>1. Ledgered = {} /\ HoldsOpen = {}
    BY <1>6 DEF Init, Ledgered, HoldsOpen
  <2> QED BY <1>1, <2>1, NoSeats DEF Init, LedgersAccounted
<1> QED
  BY <1>2, <1>3, <1>4, <1>5, <1>6
     DEF Init, IInv, TypeOK, HistoryInv, UnmadeInv, ReturnedInv, StopInv, Stopped

(* Every transaction leaves a row, bookings and reservations of their      *)
(* types.                                                                  *)
LEMMA StepTypes == IInv /\ [Next]_vars => TypeOK'
<1> SUFFICES ASSUME TypeOK, Next PROVE TypeOK'
  BY DEF vars, IInv, TypeOK
<1>1. /\ row \in AvailabilityRow
      /\ bk \in [Booking \cup Hold -> BookingDoc]
      /\ hold \in [Hold -> OctoHold]
      /\ utc \in BOOLEAN /\ stray \in BOOLEAN /\ told \in {"open", "dates", "batch"}
      /\ \A b \in Booking \cup Hold : bk[b].qty \in 0..MaxParty
      /\ \A h \in Hold : hold[h].qty \in 0..MaxParty
      /\ Party \subseteq 0..MaxParty
  BY MaxPartyAssumption DEF TypeOK, BookingDoc, OctoHold, Party
<1>2. CASE StopSale
  <2>1. row' \in AvailabilityRow
    BY <1>1, <1>2 DEF StopSale, BlockDates, UnblockDate, BlockNextDay, StopSaleBatch,
                      AvailabilityRow
  <2> QED BY <1>1, <1>2, <2>1
          DEF StopSale, BlockDates, UnblockDate, BlockNextDay, StopSaleBatch, TypeOK
<1>3. ASSUME NEW b \in Booking, NEW s \in Slot, NEW q \in Party, CreateBooking(b, s, q)
      PROVE  TypeOK'
  <2>1. row' \in AvailabilityRow
    BY <1>1, <1>3, PreparedRow, TakeKeepsRow DEF CreateBooking
  <2>2. bk' \in [Booking \cup Hold -> BookingDoc]
    BY <1>1, <1>3 DEF CreateBooking, BookingDoc
  <2> QED
    BY <1>1, <1>3, <2>1, <2>2 DEF CreateBooking, stops, TypeOK
<1>4. ASSUME NEW b \in Booking \cup Hold, ReleaseBooking(b)
      PROVE  TypeOK'
  <2>1. row' \in AvailabilityRow
    BY <1>1, <1>4, ReturnKeepsRow DEF ReleaseBooking
  <2>2. bk' \in [Booking \cup Hold -> BookingDoc]
    BY <1>1, <1>4 DEF ReleaseBooking, BookingDoc
  <2> QED
    BY <1>1, <1>4, <2>1, <2>2 DEF ReleaseBooking, stops, TypeOK
<1>5. ASSUME NEW b \in Booking \cup Hold, AdminStatus(b) \/ DeleteBooking(b)
      PROVE  TypeOK'
  BY <1>1, <1>5 DEF AdminStatus, DeleteBooking, BookingDoc, stops, TypeOK
<1>6. ASSUME NEW b \in Booking \cup Hold, RepairInventory(b)
      PROVE  TypeOK'
  <2>1. RepairRow \in AvailabilityRow
    BY <1>1, PreparedRepair
  <2>2. row' \in AvailabilityRow
    BY <1>1, <1>6, <2>1, TakeKeepsRow DEF RepairInventory
  <2>3. bk' \in [Booking \cup Hold -> BookingDoc]
    <3>1. [bk[b] EXCEPT !.reserved = TRUE, !.released = FALSE] \in BookingDoc
      BY <1>1 DEF BookingDoc
    <3>2. bk' = [bk EXCEPT ![b] = [bk[b] EXCEPT !.reserved = TRUE, !.released = FALSE]]
      BY <1>1, <1>6 DEF RepairInventory, BookingDoc
    <3> QED BY <1>1, <3>1, <3>2
  <2> QED
    BY <1>1, <1>6, <2>2, <2>3 DEF RepairInventory, stops, TypeOK
<1>7. ASSUME NEW h \in Hold, NEW s \in Slot, NEW q \in Party, HoldSeats(h, s, q)
      PROVE  TypeOK'
  <2>1. row' \in AvailabilityRow
    BY <1>1, <1>7, PreparedRow, TakeKeepsRow DEF HoldSeats
  <2>2. hold' \in [Hold -> OctoHold]
    <3>1. [st |-> "ON_HOLD", slot |-> s, qty |-> q, lapsed |-> FALSE] \in OctoHold
      BY <1>1 DEF OctoHold
    <3> QED
      BY <1>1, <1>7, <3>1 DEF HoldSeats
  <2> QED
    BY <1>1, <1>7, <2>1, <2>2 DEF HoldSeats, stops, TypeOK
<1>8. ASSUME NEW h \in Hold, HoldLapses(h)
      PROVE  TypeOK'
  BY <1>1, <1>8 DEF HoldLapses, OctoHold, stops, TypeOK
<1>9. ASSUME NEW h \in Hold, ExpireHold(h) \/ CancelHold(h)
      PROVE  TypeOK'
  <2>1. row' \in AvailabilityRow
    BY <1>1, <1>9, ReturnKeepsRow DEF ExpireHold, CancelHold
  <2>2. hold' \in [Hold -> OctoHold]
    BY <1>1, <1>9 DEF ExpireHold, CancelHold, OctoHold
  <2>3. bk' \in [Booking \cup Hold -> BookingDoc]
    <3>1. h \in Booking \cup Hold /\ [bk[h] EXCEPT !.st = "cancelled"] \in BookingDoc
      BY <1>1 DEF BookingDoc
    <3>2. bk' = bk \/ bk' = [bk EXCEPT ![h].st = "cancelled"]
      BY <1>9 DEF ExpireHold, CancelHold
    <3> QED
      BY <1>1, <3>1, <3>2
  <2> QED
    BY <1>1, <1>9, <2>1, <2>2, <2>3 DEF ExpireHold, CancelHold, stops, TypeOK
<1>10. ASSUME NEW h \in Hold, ConfirmHold(h)
       PROVE  TypeOK'
  <2>1. hold[h] \in OctoHold /\ h \in Booking \cup Hold
    BY <1>1
  <2>2. bk' \in [Booking \cup Hold -> BookingDoc]
    BY <1>1, <1>10, <2>1 DEF ConfirmHold, BookingDoc, OctoHold
  <2>3. hold' \in [Hold -> OctoHold]
    BY <1>1, <1>10 DEF ConfirmHold, OctoHold
  <2> QED
    BY <1>1, <1>10, <2>2, <2>3 DEF ConfirmHold, stops, TypeOK
<1> QED
  BY <1>2, <1>3, <1>4, <1>5, <1>6, <1>7, <1>8, <1>9, <1>10 DEF Next

(* No step gives a booking to a reservation that is not confirmed, or      *)
(* brings one back that the reseller has cancelled.                        *)
LEMMA StepHistory == IInv /\ [Next]_vars => HistoryInv'
<1> SUFFICES ASSUME IInv, Next PROVE HistoryInv'
  BY DEF vars, IInv, HistoryInv
<1>1. /\ bk \in [Booking \cup Hold -> BookingDoc]
      /\ hold \in [Hold -> OctoHold]
  BY DEF IInv, TypeOK
<1>2. CASE StopSale
  BY <1>2 DEF StopSale, BlockDates, UnblockDate, BlockNextDay, StopSaleBatch, IInv,
              HistoryInv
<1>3. ASSUME NEW b \in Booking, NEW s \in Slot, NEW q \in Party, CreateBooking(b, s, q)
      PROVE  HistoryInv'
  BY <1>1, <1>3, NamesAssumption DEF CreateBooking, IInv, HistoryInv
<1>4. ASSUME NEW b \in Booking \cup Hold,
             ReleaseBooking(b) \/ AdminStatus(b) \/ DeleteBooking(b) \/ RepairInventory(b)
      PROVE  HistoryInv'
  <2>1. /\ hold' = hold
        /\ bk[b].st # "none"
        /\ bk[b].st \in {"cancelled", "deleted"} => bk'[b].st \in {"cancelled", "deleted"}
        /\ \A h \in Hold : h # b => bk'[h] = bk[h]
    BY <1>1, <1>4 DEF ReleaseBooking, AdminStatus, DeleteBooking, RepairInventory, BookingDoc
  <2> QED
    BY <2>1 DEF IInv, HistoryInv
<1>5. ASSUME NEW h \in Hold, NEW s \in Slot, NEW q \in Party, HoldSeats(h, s, q)
      PROVE  HistoryInv'
  BY <1>1, <1>5 DEF HoldSeats, IInv, HistoryInv
<1>6. ASSUME NEW h \in Hold, HoldLapses(h) \/ ExpireHold(h)
      PROVE  HistoryInv'
  BY <1>1, <1>6 DEF HoldLapses, ExpireHold, IInv, HistoryInv, OctoHold
<1>7. ASSUME NEW h \in Hold, ConfirmHold(h)
      PROVE  HistoryInv'
  BY <1>1, <1>7 DEF ConfirmHold, IInv, HistoryInv, OctoHold
<1>8. ASSUME NEW h \in Hold, CancelHold(h)
      PROVE  HistoryInv'
  BY <1>1, <1>8 DEF CancelHold, IInv, HistoryInv, OctoHold, BookingDoc
<1> QED
  BY <1>2, <1>3, <1>4, <1>5, <1>6, <1>7, <1>8 DEF Next

-----------------------------------------------------------------------------
(* The counter and the two ledgers move by the same seats.                 *)
LEMMA Taken ==
  ASSUME NEW r \in AvailabilityRow, r.booked = row.booked, NEW s, NEW q \in 0..MaxParty,
         Fits(r, s, q), row' = Take(r, s, q), NEW t \in Slot
  PROVE  row'.booked[t] = row.booked[t] + (IF s = t THEN q ELSE 0)
BY DEF Fits, Take, AvailabilityRow

LEMMA Returned ==
  ASSUME row \in AvailabilityRow, NEW s, NEW q \in 0..MaxParty, Return(s, q), NEW t \in Slot
  PROVE  row.booked[t] = row'.booked[t] + (IF s = t THEN q ELSE 0)
BY DEF Return, AvailabilityRow

(* Both ledgers are of finitely many documents.                            *)
LEMMA LedgersFinite ==
  /\ IsFiniteSet(Ledgered) /\ IsFiniteSet(HoldsOpen)
  /\ IsFiniteSet(Ledgered)' /\ IsFiniteSet(HoldsOpen)'
<1>1. IsFiniteSet(Booking \cup Hold)
  BY FiniteAssumption, FS_Union
<1>2. /\ Ledgered \in SUBSET (Booking \cup Hold) /\ HoldsOpen \in SUBSET Hold
      /\ Ledgered' \in SUBSET (Booking \cup Hold) /\ HoldsOpen' \in SUBSET Hold
  BY DEF Ledgered, HoldsOpen
<1> QED BY <1>1, <1>2, FiniteAssumption, FS_Subset

BookingsRest == Ledgered' = Ledgered /\ SameSeats(bk, bk', Ledgered)
HoldsRest == HoldsOpen' = HoldsOpen /\ SameSeats(hold, hold', HoldsOpen)

(* What one step makes of the ledgers and the counter: nothing, one        *)
(* document more with the seats taken, or one less with those returned.    *)
LEMMA LedgersRest ==
  ASSUME LedgersAccounted, row'.booked = row.booked, BookingsRest, HoldsRest
  PROVE  LedgersAccounted'
BY Unmoved DEF LedgersAccounted, BookingsRest, HoldsRest

LEMMA BookingMore ==
  ASSUME TypeOK, LedgersAccounted, HoldsRest, NEW b \in Booking \cup Hold, b \notin Ledgered,
         Ledgered' = Ledgered \cup {b}, SameSeats(bk, bk', Ledgered),
         NEW s, NEW q \in 0..MaxParty, bk'[b].slot = s, bk'[b].qty = q,
         \A t \in Slot : row'.booked[t] = row.booked[t] + (IF s = t THEN q ELSE 0)
  PROVE  LedgersAccounted'
<1> SUFFICES ASSUME NEW t \in Slot
             PROVE  row'.booked[t] = Seats(bk', Ledgered', t) + Seats(hold', HoldsOpen', t)
  BY DEF LedgersAccounted
<1>1. row.booked[t] = Seats(bk, Ledgered, t) + Seats(hold, HoldsOpen, t)
  BY DEF LedgersAccounted
<1>2. /\ Seats(bk', Ledgered, t) = Seats(bk, Ledgered, t)
      /\ Seats(hold', HoldsOpen', t) = Seats(hold, HoldsOpen, t)
  BY Unmoved DEF HoldsRest
<1>3. Seats(bk', Ledgered', t) = Seats(bk', Ledgered, t) + (IF s = t THEN q ELSE 0)
  <2>1. IsFiniteSet(Ledgered)
    BY LedgersFinite
  <2>2. Seats(bk', Ledgered \cup {b}, t) = Seats(bk', Ledgered, t) + (IF s = t THEN q ELSE 0)
    <3>1. b \notin Ledgered
      OBVIOUS
    <3>2. Part(bk', b, t) = (IF s = t THEN q ELSE 0) /\ Part(bk', b, t) \in 0..MaxParty
      BY MaxPartyAssumption DEF Part
    <3>3. Seats(bk', Ledgered \cup {b}, t) = Seats(bk', Ledgered, t) + Part(bk', b, t)
      BY ONLY <2>1, <3>1, <3>2, OneMore
    <3> QED BY <3>2, <3>3
  <2> QED BY <2>2
<1>4. Seats(bk, Ledgered, t) \in Nat /\ Seats(hold, HoldsOpen, t) \in Nat
  BY LedgersFinite, SeatsNat
<1> QED BY <1>1, <1>2, <1>3, <1>4, MaxPartyAssumption

LEMMA BookingLess ==
  ASSUME TypeOK, LedgersAccounted, HoldsRest, NEW b \in Ledgered,
         Ledgered' = Ledgered \ {b}, SameSeats(bk, bk', Ledgered'),
         NEW s, NEW q \in 0..MaxParty, bk[b].slot = s, bk[b].qty = q,
         \A t \in Slot : /\ row'.booked[t] \in Nat
                         /\ row.booked[t] = row'.booked[t] + (IF s = t THEN q ELSE 0)
  PROVE  LedgersAccounted'
<1> SUFFICES ASSUME NEW t \in Slot
             PROVE  row'.booked[t] = Seats(bk', Ledgered', t) + Seats(hold', HoldsOpen', t)
  BY DEF LedgersAccounted
<1>1. row.booked[t] = Seats(bk, Ledgered, t) + Seats(hold, HoldsOpen, t)
  BY DEF LedgersAccounted
<1>2. /\ Seats(bk', Ledgered', t) = Seats(bk, Ledgered', t)
      /\ Seats(hold', HoldsOpen', t) = Seats(hold, HoldsOpen, t)
  BY Unmoved DEF HoldsRest
<1>3. Seats(bk, Ledgered, t) = Seats(bk, Ledgered', t) + (IF s = t THEN q ELSE 0)
  <2>1. Ledgered = Ledgered' \cup {b} /\ b \notin Ledgered'
    OBVIOUS
  <2>2. IsFiniteSet(Ledgered')
    BY LedgersFinite
  <2>3. Seats(bk, Ledgered' \cup {b}, t) = Seats(bk, Ledgered', t) + (IF s = t THEN q ELSE 0)
    <3>1. b \notin Ledgered'
      BY <2>1
    <3>2. Part(bk, b, t) = (IF s = t THEN q ELSE 0) /\ Part(bk, b, t) \in 0..MaxParty
      BY MaxPartyAssumption DEF Part
    <3>3. Seats(bk, Ledgered' \cup {b}, t) = Seats(bk, Ledgered', t) + Part(bk, b, t)
      BY ONLY <2>2, <3>1, <3>2, OneMore
    <3> QED BY <3>2, <3>3
  <2> QED BY <2>1, <2>3
<1>4. Seats(bk, Ledgered', t) \in Nat /\ Seats(hold, HoldsOpen, t) \in Nat
  BY LedgersFinite, SeatsNat
<1> QED BY <1>1, <1>2, <1>3, <1>4, MaxPartyAssumption

LEMMA HoldMore ==
  ASSUME TypeOK, LedgersAccounted, BookingsRest, NEW h \in Hold, h \notin HoldsOpen,
         HoldsOpen' = HoldsOpen \cup {h}, SameSeats(hold, hold', HoldsOpen),
         NEW s, NEW q \in 0..MaxParty, hold'[h].slot = s, hold'[h].qty = q,
         \A t \in Slot : row'.booked[t] = row.booked[t] + (IF s = t THEN q ELSE 0)
  PROVE  LedgersAccounted'
<1> SUFFICES ASSUME NEW t \in Slot
             PROVE  row'.booked[t] = Seats(bk', Ledgered', t) + Seats(hold', HoldsOpen', t)
  BY DEF LedgersAccounted
<1>1. row.booked[t] = Seats(bk, Ledgered, t) + Seats(hold, HoldsOpen, t)
  BY DEF LedgersAccounted
<1>2. /\ Seats(hold', HoldsOpen, t) = Seats(hold, HoldsOpen, t)
      /\ Seats(bk', Ledgered', t) = Seats(bk, Ledgered, t)
  BY Unmoved DEF BookingsRest
<1>3. Seats(hold', HoldsOpen', t) = Seats(hold', HoldsOpen, t) + (IF s = t THEN q ELSE 0)
  <2>1. IsFiniteSet(HoldsOpen)
    BY LedgersFinite
  <2>2. Seats(hold', HoldsOpen \cup {h}, t) = Seats(hold', HoldsOpen, t) + (IF s = t THEN q ELSE 0)
    <3>1. h \notin HoldsOpen
      OBVIOUS
    <3>2. Part(hold', h, t) = (IF s = t THEN q ELSE 0) /\ Part(hold', h, t) \in 0..MaxParty
      BY MaxPartyAssumption DEF Part
    <3>3. Seats(hold', HoldsOpen \cup {h}, t) = Seats(hold', HoldsOpen, t) + Part(hold', h, t)
      BY ONLY <2>1, <3>1, <3>2, OneMore
    <3> QED BY <3>2, <3>3
  <2> QED BY <2>2
<1>4. Seats(bk, Ledgered, t) \in Nat /\ Seats(hold, HoldsOpen, t) \in Nat
  BY LedgersFinite, SeatsNat
<1> QED BY <1>1, <1>2, <1>3, <1>4, MaxPartyAssumption

LEMMA HoldLess ==
  ASSUME TypeOK, LedgersAccounted, BookingsRest, NEW h \in HoldsOpen,
         HoldsOpen' = HoldsOpen \ {h}, SameSeats(hold, hold', HoldsOpen'),
         NEW s, NEW q \in 0..MaxParty, hold[h].slot = s, hold[h].qty = q,
         \A t \in Slot : /\ row'.booked[t] \in Nat
                         /\ row.booked[t] = row'.booked[t] + (IF s = t THEN q ELSE 0)
  PROVE  LedgersAccounted'
<1> SUFFICES ASSUME NEW t \in Slot
             PROVE  row'.booked[t] = Seats(bk', Ledgered', t) + Seats(hold', HoldsOpen', t)
  BY DEF LedgersAccounted
<1>1. row.booked[t] = Seats(bk, Ledgered, t) + Seats(hold, HoldsOpen, t)
  BY DEF LedgersAccounted
<1>2. /\ Seats(hold', HoldsOpen', t) = Seats(hold, HoldsOpen', t)
      /\ Seats(bk', Ledgered', t) = Seats(bk, Ledgered, t)
  BY Unmoved DEF BookingsRest
<1>3. Seats(hold, HoldsOpen, t) = Seats(hold, HoldsOpen', t) + (IF s = t THEN q ELSE 0)
  <2>1. HoldsOpen = HoldsOpen' \cup {h} /\ h \notin HoldsOpen'
    OBVIOUS
  <2>2. IsFiniteSet(HoldsOpen')
    BY LedgersFinite
  <2>3. Seats(hold, HoldsOpen' \cup {h}, t) = Seats(hold, HoldsOpen', t) + (IF s = t THEN q ELSE 0)
    <3>1. h \notin HoldsOpen'
      BY <2>1
    <3>2. Part(hold, h, t) = (IF s = t THEN q ELSE 0) /\ Part(hold, h, t) \in 0..MaxParty
      BY MaxPartyAssumption DEF Part
    <3>3. Seats(hold, HoldsOpen' \cup {h}, t) = Seats(hold, HoldsOpen', t) + Part(hold, h, t)
      BY ONLY <2>2, <3>1, <3>2, OneMore
    <3> QED BY <3>2, <3>3
  <2> QED BY <2>1, <2>3
<1>4. Seats(bk, Ledgered, t) \in Nat /\ Seats(hold, HoldsOpen', t) \in Nat
  BY LedgersFinite, SeatsNat
<1> QED BY <1>1, <1>2, <1>3, <1>4, MaxPartyAssumption

(* Every transaction is one of these.                                      *)
LEMMA StepAccounts == IInv /\ [Next]_vars => LedgersAccounted'
<1> SUFFICES ASSUME IInv, [Next]_vars PROVE LedgersAccounted'
  OBVIOUS
<1>1. /\ TypeOK /\ LedgersAccounted /\ TypeOK'
      /\ row \in AvailabilityRow /\ row' \in AvailabilityRow
      /\ bk \in [Booking \cup Hold -> BookingDoc]
      /\ hold \in [Hold -> OctoHold]
      /\ \A b \in Booking \cup Hold : bk[b].qty \in 0..MaxParty
      /\ \A h \in Hold : hold[h].qty \in 0..MaxParty
      /\ Party \subseteq 0..MaxParty
      /\ \A t \in Slot : row'.booked[t] \in Nat
  BY StepTypes, MaxPartyAssumption, CapacityAssumption
     DEF IInv, TypeOK, BookingDoc, OctoHold, AvailabilityRow, Party
<1>2. UNCHANGED bk => BookingsRest
  BY DEF BookingsRest, Ledgered, SameSeats
<1>3. UNCHANGED hold => HoldsRest
  BY DEF HoldsRest, HoldsOpen, SameSeats
<1>4. CASE UNCHANGED vars \/ StopSale
  <2>1. row'.booked = row.booked /\ UNCHANGED <<bk, hold>>
    BY <1>1, <1>4 DEF vars, StopSale, BlockDates, UnblockDate, BlockNextDay,
                      StopSaleBatch, AvailabilityRow
  <2> QED BY <1>1, <1>2, <1>3, <2>1, LedgersRest
<1>5. ASSUME NEW b \in Booking, NEW s \in Slot, NEW q \in Party, CreateBooking(b, s, q)
      PROVE  LedgersAccounted'
  <2>1. /\ bk' = [bk EXCEPT ![b] = [st |-> "live", slot |-> s, qty |-> q,
                                    reserved |-> TRUE, released |-> FALSE]]
        /\ UNCHANGED hold /\ Fits(StorefrontRow, s, q) /\ row' = Take(StorefrontRow, s, q)
    BY <1>5 DEF CreateBooking
  <2>2. b \notin Ledgered
    BY <1>5 DEF CreateBooking, IInv, UnmadeInv, Ledgered
  <2>3. /\ bk'[b].slot = s /\ bk'[b].qty = q /\ bk'[b].reserved /\ ~bk'[b].released
        /\ \A i \in Booking \cup Hold : i # b => bk'[i] = bk[i]
    BY <1>1, <2>1
  <2>4. Ledgered' = Ledgered \cup {b} /\ SameSeats(bk, bk', Ledgered)
    BY <2>2, <2>3 DEF Ledgered, SameSeats
  <2>5. \A t \in Slot : row'.booked[t] = row.booked[t] + (IF s = t THEN q ELSE 0)
    BY <1>1, <2>1, PreparedRow, Taken
  <2>6. HoldsRest /\ b \in Booking \cup Hold /\ q \in 0..MaxParty /\ TypeOK /\ LedgersAccounted
    BY <1>1, <1>3, <2>1
  <2> QED BY <2>2, <2>3, <2>4, <2>5, <2>6, BookingMore
<1>6. ASSUME NEW b \in Booking \cup Hold, ReleaseBooking(b) PROVE LedgersAccounted'
  <2>1. /\ bk' = [bk EXCEPT ![b].st = "cancelled", ![b].released = TRUE]
        /\ ~bk[b].released /\ UNCHANGED hold
    BY <1>6 DEF ReleaseBooking
  <2>2. /\ bk'[b].released
        /\ \A i \in Booking \cup Hold : i # b => bk'[i] = bk[i]
    BY <1>1, <2>1 DEF BookingDoc
  <2>3. CASE bk[b].reserved
    <3>1. b \in Ledgered /\ Ledgered' = Ledgered \ {b} /\ SameSeats(bk, bk', Ledgered')
      BY <2>1, <2>2, <2>3 DEF Ledgered, SameSeats
    <3>2. Return(bk[b].slot, bk[b].qty)
      BY <1>6, <2>3 DEF ReleaseBooking
    <3>3. \A t \in Slot : row.booked[t] =
            row'.booked[t] + (IF bk[b].slot = t THEN bk[b].qty ELSE 0)
      BY <1>1, <3>2, Returned
    <3>4. HoldsRest /\ bk[b].qty \in 0..MaxParty /\ TypeOK /\ LedgersAccounted
      BY <1>1, <1>3, <2>1
    <3>5. \A t \in Slot : row'.booked[t] \in Nat
      BY <1>1
    <3> QED BY <3>1, <3>3, <3>4, <3>5, BookingLess
  <2>4. CASE ~bk[b].reserved
    <3>1. b \notin Ledgered /\ Ledgered' = Ledgered /\ SameSeats(bk, bk', Ledgered)
      BY <2>1, <2>2, <2>4 DEF Ledgered, SameSeats
    <3> QED
      BY <1>1, <1>3, <1>6, <2>1, <2>4, <3>1, LedgersRest DEF ReleaseBooking, BookingsRest
  <2> QED BY <2>3, <2>4
<1>7. ASSUME NEW b \in Booking \cup Hold, AdminStatus(b) \/ DeleteBooking(b)
      PROVE  LedgersAccounted'
  <2>1. \A i \in Booking \cup Hold :
          /\ bk'[i].slot = bk[i].slot /\ bk'[i].qty = bk[i].qty
          /\ bk'[i].reserved = bk[i].reserved /\ bk'[i].released = bk[i].released
    BY <1>1, <1>7 DEF AdminStatus, DeleteBooking, BookingDoc
  <2>2. BookingsRest
    BY <2>1 DEF BookingsRest, Ledgered, SameSeats
  <2> QED BY <1>1, <1>3, <1>7, <2>2, LedgersRest DEF AdminStatus, DeleteBooking
<1>8. ASSUME NEW b \in Booking \cup Hold, RepairInventory(b) PROVE LedgersAccounted'
  <2>1. /\ bk' = [bk EXCEPT ![b].reserved = TRUE, ![b].released = FALSE]
        /\ ~bk[b].reserved \/ bk[b].released
        /\ Fits(RepairRow, bk[b].slot, bk[b].qty)
        /\ row' = Take(RepairRow, bk[b].slot, bk[b].qty)
        /\ UNCHANGED hold
    BY <1>8 DEF RepairInventory
  <2>2. /\ bk'[b].slot = bk[b].slot /\ bk'[b].qty = bk[b].qty
        /\ bk'[b].reserved /\ ~bk'[b].released
        /\ \A i \in Booking \cup Hold : i # b => bk'[i] = bk[i]
    BY <1>1, <2>1 DEF BookingDoc
  <2>3. b \notin Ledgered /\ Ledgered' = Ledgered \cup {b} /\ SameSeats(bk, bk', Ledgered)
    BY <2>1, <2>2 DEF Ledgered, SameSeats
  <2>4. RepairRow \in AvailabilityRow /\ RepairRow.booked = row.booked
    BY <1>1, PreparedRepair
  <2>5. \A t \in Slot : row'.booked[t] =
          row.booked[t] + (IF bk[b].slot = t THEN bk[b].qty ELSE 0)
    BY <1>1, <2>1, <2>4, Taken
  <2>6. HoldsRest /\ bk[b].qty \in 0..MaxParty /\ TypeOK /\ LedgersAccounted
    BY <1>1, <1>3, <2>1
  <2> QED BY <2>2, <2>3, <2>5, <2>6, BookingMore
<1>9. ASSUME NEW h \in Hold, NEW s \in Slot, NEW q \in Party, HoldSeats(h, s, q)
      PROVE  LedgersAccounted'
  <2>1. OctoRow(s) \in AvailabilityRow /\ OctoRow(s).booked = row.booked
    BY <1>1, PreparedRow
  <2>2. BookingsRest
    BY <1>2, <1>9 DEF HoldSeats
  <2>3. CASE UNCHANGED hold /\ row' = OctoRow(s)
    BY <1>1, <1>3, <2>1, <2>2, <2>3, LedgersRest
  <2>4. CASE Fits(OctoRow(s), s, q)
    <3>1. /\ row' = Take(OctoRow(s), s, q) /\ hold[h].st = "none"
          /\ hold' = [hold EXCEPT ![h] = [st |-> "ON_HOLD", slot |-> s, qty |-> q,
                                          lapsed |-> FALSE]]
      BY <1>9, <2>4 DEF HoldSeats
    <3>2. /\ hold'[h].slot = s /\ hold'[h].qty = q /\ hold'[h].st = "ON_HOLD"
          /\ \A i \in Hold : i # h => hold'[i] = hold[i]
      BY <1>1, <3>1
    <3>3. /\ h \notin HoldsOpen /\ HoldsOpen' = HoldsOpen \cup {h}
          /\ SameSeats(hold, hold', HoldsOpen)
      BY <3>1, <3>2 DEF HoldsOpen, SameSeats
    <3>4. \A t \in Slot : row'.booked[t] = row.booked[t] + (IF s = t THEN q ELSE 0)
      BY <1>1, <2>1, <2>4, <3>1, Taken
    <3> QED BY <1>1, <2>2, <3>2, <3>3, <3>4, HoldMore
  <2> QED BY <1>9, <2>3, <2>4 DEF HoldSeats
<1>10. ASSUME NEW h \in Hold, HoldLapses(h) PROVE LedgersAccounted'
  <2>1. \A i \in Hold : /\ hold'[i].slot = hold[i].slot /\ hold'[i].qty = hold[i].qty
                        /\ hold'[i].st = hold[i].st
    BY <1>1, <1>10 DEF HoldLapses, OctoHold
  <2>2. HoldsRest
    BY <2>1 DEF HoldsRest, HoldsOpen, SameSeats
  <2> QED BY <1>1, <1>2, <1>10, <2>2, LedgersRest DEF HoldLapses
<1>11. ASSUME NEW h \in Hold, ConfirmHold(h) PROVE LedgersAccounted'
  <2>1. /\ hold[h].st = "ON_HOLD" /\ UNCHANGED row
        /\ hold' = [hold EXCEPT ![h].st = "CONFIRMED"]
        /\ bk' = [bk EXCEPT ![h] = [st |-> "live", slot |-> hold[h].slot, qty |-> hold[h].qty,
                                    reserved |-> FALSE, released |-> FALSE]]
    BY <1>11 DEF ConfirmHold
  <2>2. /\ \A i \in Hold : i # h => hold'[i] = hold[i]
        /\ hold'[h].st = "CONFIRMED"
        /\ hold'[h].slot = hold[h].slot /\ hold'[h].qty = hold[h].qty
    BY <1>1, <2>1 DEF OctoHold
  <2>3. HoldsRest
    BY <2>1, <2>2 DEF HoldsRest, HoldsOpen, SameSeats
  <2>4. h \notin Ledgered
    BY <2>1 DEF IInv, HistoryInv, UnmadeInv, Ledgered
  <2>5. ~bk'[h].reserved /\ \A i \in Booking \cup Hold : i # h => bk'[i] = bk[i]
    BY <1>1, <2>1
  <2>6. BookingsRest
    BY <2>4, <2>5 DEF BookingsRest, Ledgered, SameSeats
  <2> QED BY <1>1, <2>1, <2>3, <2>6, LedgersRest
<1>12. ASSUME NEW h \in Hold, ExpireHold(h) \/ CancelHold(h) PROVE LedgersAccounted'
  <2>1. /\ Return(hold[h].slot, hold[h].qty)
        /\ hold[h].st \in {"ON_HOLD", "CONFIRMED"}
        /\ \E st \in {"EXPIRED", "CANCELLED"} : hold' = [hold EXCEPT ![h].st = st]
        /\ bk' = bk \/ bk' = [bk EXCEPT ![h].st = "cancelled"]
    BY <1>12 DEF ExpireHold, CancelHold
  <2>2. /\ hold'[h].st \notin {"ON_HOLD", "CONFIRMED"}
        /\ \A i \in Hold : i # h => hold'[i] = hold[i]
    BY <1>1, <2>1 DEF OctoHold
  <2>3. /\ h \in HoldsOpen /\ HoldsOpen' = HoldsOpen \ {h}
        /\ SameSeats(hold, hold', HoldsOpen')
    BY <2>1, <2>2 DEF HoldsOpen, SameSeats
  <2>4. \A i \in Booking \cup Hold :
          /\ bk'[i].slot = bk[i].slot /\ bk'[i].qty = bk[i].qty
          /\ bk'[i].reserved = bk[i].reserved /\ bk'[i].released = bk[i].released
    BY <1>1, <2>1 DEF BookingDoc
  <2>5. BookingsRest
    BY <2>4 DEF BookingsRest, Ledgered, SameSeats
  <2>6. \A t \in Slot : row.booked[t] =
          row'.booked[t] + (IF hold[h].slot = t THEN hold[h].qty ELSE 0)
    BY <1>1, <2>1, Returned
  <2> QED BY <1>1, <2>3, <2>5, <2>6, HoldLess
<1> QED
  BY <1>4, <1>5, <1>6, <1>7, <1>8, <1>9, <1>10, <1>11, <1>12 DEF Next

(* A booking comes into being with its first ledger entry or none.         *)
LEMMA StepUnmade == IInv /\ [Next]_vars => UnmadeInv'
<1> SUFFICES ASSUME IInv, [Next]_vars, NEW b \in Booking \cup Hold
             PROVE  bk'[b].st = "none" => ~bk'[b].reserved
  BY DEF UnmadeInv
<1>1. /\ bk \in [Booking \cup Hold -> BookingDoc]
      /\ bk[b].st = "none" => ~bk[b].reserved
  BY DEF IInv, TypeOK, UnmadeInv
<1>2. ASSUME NEW i \in Booking \cup Hold,
             \/ ReleaseBooking(i) \/ AdminStatus(i) \/ DeleteBooking(i) \/ RepairInventory(i)
      PROVE  bk'[b].st = "none" => bk'[b] = bk[b]
  BY <1>1, <1>2
     DEF ReleaseBooking, AdminStatus, DeleteBooking, RepairInventory, BookingDoc
<1>3. ASSUME NEW i \in Booking, NEW s \in Slot, NEW q \in Party, CreateBooking(i, s, q)
      PROVE  bk'[b].st = "none" => bk'[b] = bk[b]
  BY <1>1, <1>3 DEF CreateBooking
<1>4. ASSUME NEW h \in Hold, ConfirmHold(h) \/ CancelHold(h)
      PROVE  bk'[b].st = "none" => bk'[b] = bk[b]
  BY <1>1, <1>4 DEF ConfirmHold, CancelHold, BookingDoc
<1> QED
  BY <1>1, <1>2, <1>3, <1>4
     DEF Next, vars, StopSale, BlockDates, UnblockDate, BlockNextDay, StopSaleBatch, HoldSeats,
         HoldLapses, ExpireHold

(* A storefront booking is cancelled only as its seats are returned, and   *)
(* is never repaired after it.                                             *)
LEMMA StepReturned == IInv /\ [Next]_vars => ReturnedInv'
<1> SUFFICES ASSUME IInv, [Next]_vars, NEW b \in Booking
             PROVE  bk'[b].st = "cancelled" => ~bk'[b].reserved \/ bk'[b].released
  BY DEF ReturnedInv
<1>1. /\ bk \in [Booking \cup Hold -> BookingDoc] /\ b \in Booking \cup Hold
      /\ bk[b].st = "cancelled" => ~bk[b].reserved \/ bk[b].released
  BY DEF IInv, TypeOK, ReturnedInv
<1>2. ASSUME NEW i \in Booking \cup Hold, ReleaseBooking(i)
      PROVE  bk'[b] = bk[b] \/ bk'[b].released
  BY <1>1, <1>2 DEF ReleaseBooking, BookingDoc
<1>3. ASSUME NEW i \in Booking \cup Hold,
             AdminStatus(i) \/ DeleteBooking(i) \/ RepairInventory(i)
      PROVE  bk'[b] = bk[b] \/ bk'[b].st # "cancelled"
  BY <1>1, <1>3 DEF AdminStatus, DeleteBooking, RepairInventory, BookingDoc
<1>4. ASSUME NEW i \in Booking, NEW s \in Slot, NEW q \in Party, CreateBooking(i, s, q)
      PROVE  bk'[b] = bk[b] \/ bk'[b].st # "cancelled"
  BY <1>1, <1>4 DEF CreateBooking
<1>5. ASSUME NEW h \in Hold, ConfirmHold(h) \/ CancelHold(h)
      PROVE  bk'[b] = bk[b]
  BY <1>1, <1>5, NamesAssumption DEF ConfirmHold, CancelHold
<1> QED
  BY <1>1, <1>2, <1>3, <1>4, <1>5
     DEF Next, vars, StopSale, BlockDates, UnblockDate, BlockNextDay, StopSaleBatch,
         HoldSeats, HoldLapses, ExpireHold

(* Only lifting a stop sale unblocks the row.                              *)
LEMMA StepStops == IInv /\ [Next]_vars => StopInv'
<1> SUFFICES ASSUME IInv, [Next]_vars PROVE StopInv'
  OBVIOUS
<1>1. /\ row \in AvailabilityRow /\ StopInv /\ utc \in BOOLEAN
      /\ \A b \in Booking \cup Hold : bk[b].qty \in 0..MaxParty
      /\ \A h \in Hold : hold[h].qty \in 0..MaxParty
  BY DEF IInv, TypeOK, BookingDoc, OctoHold
<1>2. CASE StopSale
  BY <1>1, <1>2
     DEF StopSale, BlockDates, UnblockDate, BlockNextDay, StopSaleBatch, AvailabilityRow,
         StopInv, Stopped
<1>3. ASSUME UNCHANGED stops, row'.blocked = row.blocked PROVE StopInv'
  BY <1>1, <1>3 DEF stops, StopInv, Stopped
<1>4. ASSUME NEW r \in AvailabilityRow, NEW s, NEW q PROVE Take(r, s, q).blocked = r.blocked
  BY DEF Take, AvailabilityRow
<1>5. ASSUME NEW s, NEW q, Return(s, q) PROVE row'.blocked = row.blocked
  BY <1>1, <1>5 DEF Return, AvailabilityRow
<1>6. ASSUME NEW b \in Booking, NEW s \in Slot, NEW q \in Party, CreateBooking(b, s, q)
      PROVE  StopInv'
  BY <1>1, <1>3, <1>4, <1>6, PreparedRow DEF CreateBooking
<1>7. ASSUME NEW b \in Booking \cup Hold,
             ReleaseBooking(b) \/ AdminStatus(b) \/ DeleteBooking(b)
      PROVE  StopInv'
  BY <1>3, <1>5, <1>7 DEF ReleaseBooking, AdminStatus, DeleteBooking
<1>8. ASSUME NEW b \in Booking \cup Hold, RepairInventory(b) PROVE StopInv'
  BY <1>1, <1>3, <1>4, <1>8, PreparedRepair DEF RepairInventory
<1>9. ASSUME NEW h \in Hold, NEW s \in Slot, NEW q \in Party, HoldSeats(h, s, q)
      PROVE  StopInv'
  BY <1>1, <1>3, <1>4, <1>9, PreparedRow DEF HoldSeats
<1>10. ASSUME NEW h \in Hold,
              HoldLapses(h) \/ ExpireHold(h) \/ ConfirmHold(h) \/ CancelHold(h)
       PROVE  StopInv'
  BY <1>3, <1>5, <1>10 DEF HoldLapses, ExpireHold, ConfirmHold, CancelHold
<1>11. CASE UNCHANGED vars
  BY <1>3, <1>11 DEF vars, stops
<1> QED
  BY <1>2, <1>6, <1>7, <1>8, <1>9, <1>10, <1>11 DEF Next

(* IInv holds whatever customers, resellers, admins and scripts do.        *)
THEOREM Invariance == Spec => []IInv
<1>1. IInv /\ [Next]_vars => IInv'
  BY StepTypes, StepHistory, StepUnmade, StepReturned, StepAccounts, StepStops DEF IInv
<1> QED
  BY <1>1, InitIInv, PTL DEF Spec

(* Row, bookings and reservations have their types: no departure is ever   *)
(* counted above its capacity or below zero.                               *)
THEOREM TypeCorrect == Spec => []TypeOK
<1>1. IInv => TypeOK
  BY DEF IInv
<1> QED
  BY <1>1, Invariance, PTL

-----------------------------------------------------------------------------
(* Whose seats the ledgers hold.                                           *)

(* The seats of two sets of documents that have none in common add up.     *)
LEMMA Apart ==
  ASSUME NEW doc, NEW A, NEW B, IsFiniteSet(A), IsFiniteSet(B), A \cap B = {}, NEW s
  PROVE  Seats(doc, A \cup B, s) = Seats(doc, A, s) + Seats(doc, B, s)
<1>1. /\ Held(doc, A \cup B, s) = Held(doc, A, s) \cup Held(doc, B, s)
      /\ Held(doc, A, s) \cap Held(doc, B, s) = {}
  BY DEF Held
<1>2. /\ IsFiniteSet(Held(doc, A, s)) /\ IsFiniteSet(Held(doc, B, s))
      /\ Seats(doc, A, s) \in Nat /\ Seats(doc, B, s) \in Nat
  BY SeatsNat
<1>3. Cardinality(Held(doc, A, s) \cup Held(doc, B, s)) =
        Cardinality(Held(doc, A, s)) + Cardinality(Held(doc, B, s))
        - Cardinality(Held(doc, A, s) \cap Held(doc, B, s))
  BY <1>2, FS_Union
<1>4. Cardinality(Held(doc, A, s) \cap Held(doc, B, s)) = 0
  BY <1>1, FS_EmptySet
<1>5. Cardinality(Held(doc, A \cup B, s)) =
        Cardinality(Held(doc, A, s)) + Cardinality(Held(doc, B, s)) - 0
  BY <1>1, <1>3, <1>4
<1> QED BY <1>2, <1>5 DEF Seats

(* Each document in the ledgers is a guest's or one of the three leaks.    *)
LEMMA LedgersSplit ==
  ASSUME IInv, NEW s
  PROVE  /\ Seats(bk, Ledgered, s) =
              Seats(bk, Sold, s) + Seats(bk, Deleted, s) + Seats(bk, TakenTwice, s)
         /\ Seats(hold, HoldsOpen, s) = Seats(hold, Promised, s) + Seats(hold, EndedHere, s)
<1>1. /\ Ledgered = (Sold \cup Deleted) \cup TakenTwice
      /\ Sold \cap Deleted = {} /\ (Sold \cup Deleted) \cap TakenTwice = {}
  <2>1. \A b \in Booking : b \in Ledgered => bk[b].st \in {"live", "completed", "deleted"}
    BY DEF IInv, TypeOK, BookingDoc, UnmadeInv, ReturnedInv, Ledgered
  <2> QED BY <2>1, NamesAssumption DEF Ledgered, Travelling, Sold, Deleted, TakenTwice
<1>2. HoldsOpen = Promised \cup EndedHere /\ Promised \cap EndedHere = {}
  BY DEF HoldsOpen, Promised, EndedHere
<1>3. /\ IsFiniteSet(Sold) /\ IsFiniteSet(Deleted) /\ IsFiniteSet(TakenTwice)
      /\ IsFiniteSet(Sold \cup Deleted) /\ IsFiniteSet(Promised) /\ IsFiniteSet(EndedHere)
  <2>1. /\ Sold \in SUBSET Ledgered /\ Deleted \in SUBSET Ledgered
        /\ TakenTwice \in SUBSET Ledgered /\ Sold \cup Deleted \in SUBSET Ledgered
        /\ Promised \in SUBSET HoldsOpen /\ EndedHere \in SUBSET HoldsOpen
    BY DEF HoldsOpen, Promised, EndedHere, Sold, Deleted, TakenTwice
  <2> QED BY <2>1, LedgersFinite, FS_Subset
<1>4. /\ Seats(bk, Sold \cup Deleted, s) = Seats(bk, Sold, s) + Seats(bk, Deleted, s)
      /\ Seats(bk, Ledgered, s) = Seats(bk, Sold \cup Deleted, s) + Seats(bk, TakenTwice, s)
      /\ Seats(hold, HoldsOpen, s) = Seats(hold, Promised, s) + Seats(hold, EndedHere, s)
  BY <1>1, <1>2, <1>3, Apart
<1> QED BY <1>4

(* The counter of a departure is the seats of those who are to travel and  *)
(* of the three leaks, whatever mix of bookings, repairs, releases,        *)
(* deletions, expiries and cancellations came before.                      *)
THEOREM SeatsSafe == Spec => []SeatsAccounted
<1>1. IInv => SeatsAccounted
  <2> SUFFICES ASSUME IInv, NEW s \in Slot
               PROVE  row.booked[s] = GuestSeats(s) + LeakedSeats(s)
    BY DEF SeatsAccounted
  <2>1. row.booked[s] = Seats(bk, Ledgered, s) + Seats(hold, HoldsOpen, s)
    BY DEF IInv, LedgersAccounted
  <2>2. /\ IsFiniteSet(Booking \cup Hold)
        /\ \A B : B \in SUBSET (Booking \cup Hold) =>
             Seats(bk, B, s) \in Nat /\ Seats(hold, B, s) \in Nat
    BY FiniteAssumption, FS_Union, FS_Subset, SeatsNat
  <2>3. /\ Seats(bk, Sold, s) \in Nat
        /\ Seats(bk, Deleted, s) \in Nat
        /\ Seats(bk, TakenTwice, s) \in Nat
        /\ Seats(hold, Promised, s) \in Nat
        /\ Seats(hold, EndedHere, s) \in Nat
    <3>1. /\ Sold \in SUBSET (Booking \cup Hold)
          /\ Deleted \in SUBSET (Booking \cup Hold)
          /\ TakenTwice \in SUBSET (Booking \cup Hold)
          /\ Promised \in SUBSET (Booking \cup Hold)
          /\ EndedHere \in SUBSET (Booking \cup Hold)
      BY DEF Sold, Deleted, TakenTwice, Promised, EndedHere
    <3> QED BY <2>2, <3>1
  <2>4. /\ Seats(bk, Ledgered, s) =
             Seats(bk, Sold, s) + Seats(bk, Deleted, s) + Seats(bk, TakenTwice, s)
        /\ Seats(hold, HoldsOpen, s) = Seats(hold, Promised, s) + Seats(hold, EndedHere, s)
    BY LedgersSplit
  <2> QED BY <2>1, <2>3, <2>4 DEF GuestSeats, LeakedSeats
<1> QED
  BY <1>1, Invariance, PTL

(* What either channel advertises can be had there, and nothing else but   *)
(* what a stray row of the next day's stop sale hides.                     *)
THEOREM AdvertisedSafe == Spec => []AdvertisedIsBookable
<1>1. IInv => AdvertisedIsBookable
  <2> SUFFICES ASSUME TypeOK, NEW s \in Slot, NEW q \in Party
               PROVE  /\ q <= StorefrontVacancies(s) => Fits(StorefrontRow, s, q)
                      /\ Fits(StorefrontRow, s, q) => q <= StorefrontVacancies(s) \/ stray
                      /\ q <= OctoVacancies(s) <=> Fits(OctoRow(s), s, q)
    BY DEF IInv, AdvertisedIsBookable
  <2>1. /\ row \in AvailabilityRow /\ q \in Nat /\ q > 0
        /\ row.booked[s] \in Nat /\ Capacity \in Nat /\ row.booked[s] <= Capacity
    BY CapacityAssumption, MaxPartyAssumption DEF TypeOK, AvailabilityRow, Party
  <2>2. q <= Capacity - row.booked[s] <=> row.booked[s] + q <= Capacity
    BY <2>1
  <2>3. /\ q <= StorefrontVacancies(s) => Fits(StorefrontRow, s, q)
        /\ Fits(StorefrontRow, s, q) => q <= StorefrontVacancies(s) \/ stray
    BY <2>1, <2>2, PreparedRow
       DEF StorefrontVacancies, StorefrontRow, RowWith, Fits, AvailabilityRow
  <2>4. q <= OctoVacancies(s) <=> Fits(OctoRow(s), s, q)
    <3>1. CASE row.blocked
      BY <2>1, <3>1 DEF OctoVacancies, OctoRow, Fits
    <3>2. CASE ~row.blocked
      <4>1. /\ OctoRow(s).blocked = FALSE /\ s \in OctoRow(s).slots
            /\ OctoRow(s).booked = row.booked
        BY <2>1, <3>2 DEF OctoRow, AvailabilityRow
      <4> QED
        BY <2>2, <3>2, <4>1 DEF OctoVacancies, Fits
    <3> QED
      BY <3>1, <3>2
  <2> QED
    BY <2>3, <2>4
<1> QED
  BY <1>1, Invariance, PTL

(* A reservation the reseller cancelled leaves no booking that travels.    *)
THEOREM ResellerSafe == Spec => []ResellerCancelHolds
<1>1. IInv => ResellerCancelHolds
  BY DEF IInv, HistoryInv, ResellerCancelHolds
<1> QED
  BY <1>1, Invariance, PTL

(* From the answer to the admin until it is lifted, a stop sale of the     *)
(* batch, or of blockDates on a server that runs on UTC, lets no counter   *)
(* rise, whichever channel asks.                                           *)
THEOREM StopSaleSafe == Spec => BlockedStaysClosed
<1> DEFINE Stays == Stopped => \A s \in Slot : row'.booked[s] <= row.booked[s]
<1>1. IInv /\ [Next]_vars => [Stays]_row
  <2> SUFFICES ASSUME TypeOK, Next, row.blocked, row' # row, NEW s \in Slot
               PROVE  row'.booked[s] <= row.booked[s]
    BY DEF vars, IInv, StopInv
  <2>1. /\ row \in AvailabilityRow /\ row.booked[s] \in 0..Capacity
        /\ \A b \in Booking \cup Hold : bk[b].qty \in 0..MaxParty
        /\ \A h \in Hold : hold[h].qty \in 0..MaxParty
    BY DEF TypeOK, BookingDoc, OctoHold, AvailabilityRow
  <2>2. CASE StopSale
    <3>1. row'.booked = row.booked
      BY <2>1, <2>2
         DEF StopSale, BlockDates, UnblockDate, BlockNextDay, StopSaleBatch, AvailabilityRow
    <3> QED
      BY <2>1, <3>1, CapacityAssumption
  <2>3. ASSUME NEW b \in Booking, NEW t \in Slot, NEW q \in Party, CreateBooking(b, t, q)
        PROVE  FALSE
    BY <2>1, <2>3, PreparedRow DEF CreateBooking, Fits
  <2>4. ASSUME NEW b \in Booking \cup Hold, ReleaseBooking(b)
        PROVE  row'.booked[s] <= row.booked[s]
    BY <2>1, <2>4, ReturnKeepsRow DEF ReleaseBooking
  <2>5. ASSUME NEW b \in Booking \cup Hold, RepairInventory(b)
        PROVE  FALSE
    BY <2>1, <2>5, PreparedRepair DEF RepairInventory, Fits
  <2>6. ASSUME NEW h \in Hold, NEW t \in Slot, NEW q \in Party, HoldSeats(h, t, q)
        PROVE  FALSE
    <3>1. ~Fits(OctoRow(t), t, q) /\ OctoRow(t) = row
      BY <2>1, PreparedRow DEF Fits, OctoRow
    <3> QED
      BY <2>6, <3>1 DEF HoldSeats
  <2>7. ASSUME NEW h \in Hold, ExpireHold(h) \/ CancelHold(h)
        PROVE  row'.booked[s] <= row.booked[s]
    BY <2>1, <2>7, ReturnKeepsRow DEF ExpireHold, CancelHold
  <2> QED
    BY <2>2, <2>3, <2>4, <2>5, <2>6, <2>7
      DEF Next, AdminStatus, DeleteBooking, HoldLapses, ConfirmHold
<1> QED
  BY <1>1, Invariance, PTL DEF Spec, BlockedStaysClosed

(* Expired and cancelled reservations stay so, and a confirmed one is      *)
(* never expired.                                                          *)
THEOREM HoldOutcomeSafe == Spec => HoldOutcomeIsFinal
<1> DEFINE Final ==
      \A h \in Hold :
        /\ hold[h].st \in {"EXPIRED", "CANCELLED"} => hold'[h].st = hold[h].st
        /\ hold[h].st = "CONFIRMED" => hold'[h].st \in {"CONFIRMED", "CANCELLED"}
<1>1. IInv /\ [Next]_vars => [Final]_hold
  <2> SUFFICES ASSUME TypeOK, Next, hold' # hold PROVE Final
    BY DEF vars, IInv
  <2>1. hold \in [Hold -> OctoHold]
    BY DEF TypeOK
  <2>2. ASSUME NEW g \in Hold, NEW s \in Slot, NEW q \in Party, HoldSeats(g, s, q)
        PROVE  Final
    BY <2>1, <2>2 DEF HoldSeats
  <2>3. ASSUME NEW g \in Hold,
               HoldLapses(g) \/ ExpireHold(g) \/ ConfirmHold(g) \/ CancelHold(g)
        PROVE  Final
    BY <2>1, <2>3 DEF HoldLapses, ExpireHold, ConfirmHold, CancelHold, OctoHold
  <2> QED
    BY <2>2, <2>3
      DEF Next, StopSale, BlockDates, UnblockDate, BlockNextDay, StopSaleBatch,
          CreateBooking, ReleaseBooking, AdminStatus, DeleteBooking, RepairInventory, stops
<1> QED
  BY <1>1, Invariance, PTL DEF Spec, HoldOutcomeIsFinal
=============================================================================
