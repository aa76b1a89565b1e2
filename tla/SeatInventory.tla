--------------------------- MODULE SeatInventory ---------------------------
(***************************************************************************)
(* The seats of one departure tour on one day: an Availability row that    *)
(* storefront bookings, OCTO reservations, admins and the repair script    *)
(* all change, each in a transaction of its own.                           *)
(*                                                                         *)
(* Two ledgers say who holds the seats.  A storefront booking carries      *)
(* inventoryReservedAt and inventoryReleasedAt; an OCTO reservation is an  *)
(* OctoHold document, and the booking that confirming it creates carries   *)
(* neither marker.                                                         *)
(*                                                                         *)
(* Every writer but two keys a day by its midnight in UTC.  blockDates and *)
(* unblockDate take the midnight of the server's clock: on a server that   *)
(* does not run on UTC their row is another one, which no transaction      *)
(* finds and which the public calendar shows on the day before.            *)
(*                                                                         *)
(* Every action is one transaction or one conditional update.  A refused   *)
(* storefront booking rolls back; a refused OCTO reservation commits the   *)
(* row it prepared.                                                        *)
(***************************************************************************)
EXTENDS Naturals, FiniteSets

CONSTANTS
  Booking,      \* storefront bookings
  Hold,         \* OCTO reservations; the booking made from one has its name
  Slot,         \* departure times of the tour
  LegacySlot,   \* those among LEGACY_DEFAULT_TIME_SLOTS
  Capacity,     \* DEFAULT_CAPACITY, 25 in the code
  MaxParty      \* bound: seats one customer asks for

ASSUME CapacityAssumption == Capacity \in Nat
ASSUME MaxPartyAssumption == MaxParty \in Nat \ {0}
ASSUME LegacySlotAssumption == LegacySlot \subseteq Slot
ASSUME NamesAssumption == Booking \cap Hold = {}
ASSUME FiniteAssumption == IsFiniteSet(Booking) /\ IsFiniteSet(Hold)

VARIABLES
  row,      \* the Availability row of this day, keyed by UTC midnight
  bk,       \* the bookings
  hold,     \* the OCTO reservations
  utc,      \* the server's clock runs on UTC
  stray,    \* a row of the next day's stop sale lies within this day
  told      \* what the admins were last told of this day

vars == <<row, bk, hold, utc, stray, told>>
stops == <<utc, stray, told>>

NoSlot == "no slot"
Party == 1..MaxParty

AvailabilityRow ==
  [made: BOOLEAN,               \* the row exists
   blocked: BOOLEAN,            \* isBlocked
   slots: SUBSET Slot,          \* timeSlots
   booked: [Slot -> 0..Capacity]]

(* "live" is pending or confirmed; a deleted booking keeps what it held    *)
(* for the properties only.                                                *)
BookingDoc ==
  [st: {"none", "live", "completed", "cancelled", "deleted"},
   slot: Slot \cup {NoSlot}, qty: 0..MaxParty,
   reserved: BOOLEAN,           \* inventoryReservedAt
   released: BOOLEAN]           \* inventoryReleasedAt

OctoHold ==
  [st: {"none", "ON_HOLD", "CONFIRMED", "CANCELLED", "EXPIRED"},
   slot: Slot \cup {NoSlot}, qty: 0..MaxParty,
   lapsed: BOOLEAN]             \* expiresAt has passed

TypeOK ==
  /\ row \in AvailabilityRow
  /\ bk \in [Booking \cup Hold -> BookingDoc]
  /\ hold \in [Hold -> OctoHold]
  /\ utc \in BOOLEAN /\ stray \in BOOLEAN
  /\ told \in {"open", "dates", "batch"}   \* stopped by blockDates or by the batch

(* A booking made before the inventory ledger existed carries no marker    *)
(* and took no seats; the repair script is there for it.                   *)
NoBooking == [st |-> "none", slot |-> NoSlot, qty |-> 0,
              reserved |-> FALSE, released |-> FALSE]
LegacyBooking(s, q) == [st |-> "live", slot |-> s, qty |-> q,
                        reserved |-> FALSE, released |-> FALSE]
Legacy == {LegacyBooking(s, q) : s \in Slot, q \in Party}

Init ==
  /\ row = [made |-> FALSE, blocked |-> FALSE, slots |-> {},
            booked |-> [s \in Slot |-> 0]]
  /\ bk \in [Booking \cup Hold -> {NoBooking} \cup Legacy]
  /\ \A h \in Hold : bk[h] = NoBooking
  /\ hold = [h \in Hold |->
               [st |-> "none", slot |-> NoSlot, qty |-> 0, lapsed |-> FALSE]]
  /\ utc \in BOOLEAN /\ stray = FALSE /\ told = "open"

-----------------------------------------------------------------------------
(* The row.                                                                *)

(* Mutant: a stop sale is not looked at.                                   *)
FitsBlocked(r, s, q) == s \in r.slots /\ r.booked[s] + q <= Capacity

(* The condition of the update that takes seats.                           *)
Fits(r, s, q) == ~r.blocked /\ s \in r.slots /\ r.booked[s] + q <= Capacity
Take(r, s, q) == [r EXCEPT !.booked[s] = @ + q]

(* Returning seats is conditional too: the counter must cover them.        *)
Return(s, q) ==
  /\ s \in row.slots
  /\ row.booked[s] >= q
  /\ row' = [row EXCEPT !.booked[s] = @ - q]

(* reserveInventory creates a missing row: a checkout names every departure*)
(* of the tour, the repair script none, which means the legacy times.      *)
RowWith(times) == IF row.made THEN row ELSE [row EXCEPT !.made = TRUE, !.slots = times]
StorefrontRow == RowWith(Slot)
RepairRow == RowWith(LegacySlot)

(* ensureCapacityRecord creates it with the one asked for, and adds that   *)
(* one to a row without it.                                                *)
OctoRow(s) ==
  IF row.blocked THEN row ELSE [row EXCEPT !.made = TRUE, !.slots = @ \cup {s}]

(* Mutant: a departure the row does not list counts as empty.              *)
StorefrontVacanciesDefaulted(s) ==
  IF stray \/ row.blocked THEN 0 ELSE Capacity - row.booked[s]

(* What the public calendar and the OCTO availability call advertise.  The *)
(* calendar reads the rows of a range and keeps the last of each UTC day:  *)
(* a stray one hides this day's own and has no seats to sell, blocked or   *)
(* not.  OCTO looks its row up by the day.                                 *)
StorefrontVacancies(s) ==
  IF stray \/ row.blocked \/ (row.made /\ s \notin row.slots) THEN 0
  ELSE Capacity - row.booked[s]

OctoVacancies(s) == IF row.blocked THEN 0 ELSE Capacity - row.booked[s]

-----------------------------------------------------------------------------
(* Stop sales.                                                             *)

(* blockDates reports success also where its row is not this day's.        *)
BlockDates ==
  /\ row' = IF utc THEN [row EXCEPT !.made = TRUE, !.blocked = TRUE] ELSE row
  /\ told' = IF told = "batch" THEN told ELSE "dates"
  /\ UNCHANGED <<bk, hold, utc, stray>>

UnblockDate ==
  /\ row' = IF utc THEN [row EXCEPT !.blocked = FALSE] ELSE row
  /\ told' = "open"
  /\ UNCHANGED <<bk, hold, utc, stray>>

(* blockDates for the next day; lifting that one leaves the row, empty.    *)
BlockNextDay ==
  /\ ~utc
  /\ stray' = TRUE
  /\ UNCHANGED <<row, bk, hold, utc, told>>

(* updateStopSaleBatch works on UTC days.                                  *)
StopSaleBatch ==
  /\ \/ row' = [row EXCEPT !.made = TRUE, !.blocked = TRUE] /\ told' = "batch"
     \/ row' = [row EXCEPT !.blocked = FALSE] /\ told' = "open"
  /\ UNCHANGED <<bk, hold, utc, stray>>

-----------------------------------------------------------------------------
(* Storefront bookings.                                                    *)

CreateBooking(b, s, q) ==
  /\ bk[b].st = "none"
  /\ Fits(StorefrontRow, s, q)
  /\ row' = Take(StorefrontRow, s, q)
  /\ bk' = [bk EXCEPT ![b] = [st |-> "live", slot |-> s, qty |-> q,
                              reserved |-> TRUE, released |-> FALSE]]
  /\ UNCHANGED <<hold, stops>>

(* Cancelling, or ending a card hold: releaseBookingInventory.  A booking  *)
(* without the reserved marker, as OCTO makes them, returns no seats.      *)
ReleaseBooking(b) ==
  /\ bk[b].st = "live"
  /\ ~bk[b].released
  /\ IF bk[b].reserved THEN Return(bk[b].slot, bk[b].qty) ELSE UNCHANGED row
  /\ bk' = [bk EXCEPT ![b].st = "cancelled", ![b].released = TRUE]
  /\ UNCHANGED <<hold, stops>>

AdminStatus(b) ==
  /\ bk[b].st \in {"live", "completed"}
  /\ \E st \in {"live", "completed"} : bk' = [bk EXCEPT ![b].st = st]
  /\ UNCHANGED <<row, hold, stops>>

DeleteBooking(b) ==
  /\ bk[b].st \notin {"none", "deleted"}
  /\ bk' = [bk EXCEPT ![b].st = "deleted"]
  /\ UNCHANGED <<row, hold, stops>>

(* The repair script takes seats for a booking without an inventory ledger.*)
RepairInventory(b) ==
  /\ bk[b].st = "live"
  /\ ~bk[b].reserved \/ bk[b].released
  /\ Fits(RepairRow, bk[b].slot, bk[b].qty)
  /\ row' = Take(RepairRow, bk[b].slot, bk[b].qty)
  /\ bk' = [bk EXCEPT ![b].reserved = TRUE, ![b].released = FALSE]
  /\ UNCHANGED <<hold, stops>>

-----------------------------------------------------------------------------
(* OCTO reservations.                                                      *)

HoldSeats(h, s, q) ==
  /\ hold[h].st = "none"
  /\ \/ /\ Fits(OctoRow(s), s, q)
        /\ row' = Take(OctoRow(s), s, q)
        /\ hold' = [hold EXCEPT ![h] = [st |-> "ON_HOLD", slot |-> s, qty |-> q,
                                        lapsed |-> FALSE]]
     \/ /\ ~Fits(OctoRow(s), s, q)
        /\ row' = OctoRow(s)
        /\ UNCHANGED hold
  /\ UNCHANGED <<bk, stops>>

(* The expiry passes for a confirmed hold as well.                         *)
HoldLapses(h) ==
  /\ hold[h].st \in {"ON_HOLD", "CONFIRMED"}
  /\ ~hold[h].lapsed
  /\ hold' = [hold EXCEPT ![h].lapsed = TRUE]
  /\ UNCHANGED <<row, bk, stops>>

(* expireHold: each request about a reservation begins with it.            *)
ExpireHold(h) ==
  /\ hold[h].st = "ON_HOLD"
  /\ hold[h].lapsed
  /\ Return(hold[h].slot, hold[h].qty)
  /\ hold' = [hold EXCEPT ![h].st = "EXPIRED"]
  /\ UNCHANGED <<bk, stops>>

(* The claim repeats the status and the expiry, whatever was read before.  *)
ConfirmHold(h) ==
  /\ hold[h].st = "ON_HOLD"
  /\ ~hold[h].lapsed
  /\ hold' = [hold EXCEPT ![h].st = "CONFIRMED"]
  /\ bk' = [bk EXCEPT ![h] = [st |-> "live", slot |-> hold[h].slot, qty |-> hold[h].qty,
                              reserved |-> FALSE, released |-> FALSE]]
  /\ UNCHANGED <<row, stops>>

(* Mutants: a second DELETE returns the seats again; the booking stays.    *)
CancelHoldAgain(h) ==
  /\ hold[h].st # "none"
  /\ Return(hold[h].slot, hold[h].qty)
  /\ hold' = [hold EXCEPT ![h].st = "CANCELLED"]
  /\ UNCHANGED <<bk, stops>>

CancelHoldOnly(h) ==
  /\ hold[h].st \in {"ON_HOLD", "CONFIRMED"}
  /\ Return(hold[h].slot, hold[h].qty)
  /\ hold' = [hold EXCEPT ![h].st = "CANCELLED"]
  /\ UNCHANGED <<bk, stops>>

(* DELETE: the booking of a confirmed hold is cancelled whatever its state.*)
CancelHold(h) ==
  /\ hold[h].st \in {"ON_HOLD", "CONFIRMED"}
  /\ Return(hold[h].slot, hold[h].qty)
  /\ bk' = IF hold[h].st = "CONFIRMED" /\ bk[h].st # "deleted"
             THEN [bk EXCEPT ![h].st = "cancelled"] ELSE bk
  /\ hold' = [hold EXCEPT ![h].st = "CANCELLED"]
  /\ UNCHANGED stops

-----------------------------------------------------------------------------
StopSale == BlockDates \/ UnblockDate \/ BlockNextDay \/ StopSaleBatch

Next ==
  \/ StopSale
  \/ \E b \in Booking, s \in Slot, q \in Party : CreateBooking(b, s, q)
  \/ \E b \in Booking \cup Hold :
       ReleaseBooking(b) \/ AdminStatus(b) \/ DeleteBooking(b) \/ RepairInventory(b)
  \/ \E h \in Hold, s \in Slot, q \in Party : HoldSeats(h, s, q)
  \/ \E h \in Hold : HoldLapses(h) \/ ExpireHold(h) \/ ConfirmHold(h) \/ CancelHold(h)

Spec == Init /\ [][Next]_vars

-----------------------------------------------------------------------------
(* Properties.                                                             *)

(* Seats are counted one by one: seat n of document b is <<b, n>>.         *)
Held(doc, B, s) == {u \in B \X Party : doc[u[1]].slot = s /\ u[2] <= doc[u[1]].qty}
Seats(doc, B, s) == Cardinality(Held(doc, B, s))

Ledgered == {b \in Booking \cup Hold : bk[b].reserved /\ ~bk[b].released}
Travelling == {b \in Booking \cup Hold : bk[b].st \in {"live", "completed"}}

(* The seats of the people who are to travel: storefront bookings with a   *)
(* ledger entry, and reservations that are open or whose booking stands.   *)
Promised ==
  {h \in Hold : hold[h].st = "ON_HOLD" \/ (hold[h].st = "CONFIRMED" /\ h \in Travelling)}
Sold == Booking \cap Travelling \cap Ledgered
GuestSeats(s) == Seats(bk, Sold, s) + Seats(hold, Promised, s)

(* The seats nobody travels on and nothing frees: a deleted booking's, as  *)
(* deleteBooking releases nothing; those the repair script took a second   *)
(* time for a reservation's booking; and those of a confirmed reservation  *)
(* whose booking was cancelled or deleted here, until the reseller ends it.*)
Deleted == {b \in Booking \cap Ledgered : bk[b].st = "deleted"}
TakenTwice == Hold \cap Ledgered
EndedHere == {h \in Hold : hold[h].st = "CONFIRMED" /\ h \notin Travelling}
LeakedSeats(s) == Seats(bk, Deleted, s) + Seats(bk, TakenTwice, s) + Seats(hold, EndedHere, s)

(* The counter of each departure is the seats of those who travel and of   *)
(* the three leaks, and nothing else: while no booking is deleted or       *)
(* repaired and no reseller's booking is ended on this side, it is exactly *)
(* what the guests hold.  A cancelled or expired booking keeps no seat, no *)
(* seat is returned twice, and a release always finds its seats            *)
(* (INVENTORY_RELEASE_FAILED is unreachable).                              *)
SeatsAccounted == \A s \in Slot : row.booked[s] = GuestSeats(s) + LeakedSeats(s)

(* The calendar and the booking transaction apply one rule, and so do the  *)
(* OCTO availability call and reservation: what is advertised can be had,  *)
(* and nothing else (reserveInventory: "cannot diverge") - except that a   *)
(* stray stop-sale row hides what the storefront could still sell.         *)
AdvertisedIsBookable ==
  \A s \in Slot, q \in Party :
    /\ q <= StorefrontVacancies(s) => Fits(StorefrontRow, s, q)
    /\ Fits(StorefrontRow, s, q) => q <= StorefrontVacancies(s) \/ stray
    /\ q <= OctoVacancies(s) <=> Fits(OctoRow(s), s, q)

(* A reservation and its booking end together when the reseller ends them: *)
(* no booking of a cancelled reservation is left to travel, and none comes *)
(* out of a reservation that was never confirmed.                          *)
ResellerCancelHolds ==
  \A h \in Hold :
    /\ hold[h].st = "CANCELLED" => bk[h].st \in {"none", "cancelled", "deleted"}
    /\ hold[h].st \in {"ON_HOLD", "EXPIRED"} => bk[h].st = "none"

(* The stop sales that reach this day's row: all of the batch's, and those *)
(* of blockDates on a server that runs on UTC.                             *)
Stopped == told = "batch" \/ (told = "dates" /\ utc)

(* Such a stop sale, from the answer to the admin until it is lifted, stops*)
(* every channel: whatever checkouts, reservations and repairs are under   *)
(* way, no counter rises.                                                  *)
BlockedStaysClosed ==
  [][Stopped => \A s \in Slot : row'.booked[s] <= row.booked[s]]_row

(* A reservation's outcome is final: expired and cancelled ones stay so,   *)
(* and a confirmed one is never expired under the customer.                *)
HoldOutcomeIsFinal ==
  [][\A h \in Hold :
       /\ hold[h].st \in {"EXPIRED", "CANCELLED"} => hold'[h].st = hold[h].st
       /\ hold[h].st = "CONFIRMED" => hold'[h].st \in {"CONFIRMED", "CANCELLED"}]_hold

=============================================================================
