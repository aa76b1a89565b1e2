-------------------------- MODULE BundleComponents --------------------------
(***************************************************************************)
(* The components of a captured bundle order, and what must hold of them   *)
(* whatever is refunded, delivered and paid out.  The operations are       *)
(* BundleSettlement's.                                                     *)
(***************************************************************************)
EXTENDS Sequences, Allocation, BundleMoney

CONSTANTS
  Share,        \* customerAllocationMinor of each component, in order
  Net           \* supplierNetTotalMinor of each component

Component == 1..Len(Share)
Price == SumOf(Share)            \* totalMinor

ASSUME ShareAssumption ==
  /\ Share \in Seq(Nat) /\ Price > 0
  /\ Net \in [Component -> Nat]

VARIABLES
  comp,         \* the components
  child,        \* the status of each component's booking
  released      \* the bookings with inventoryReleasedAt

ComponentDoc(c) ==
  [status: {"reserved", "confirmed", "cancel_pending", "fulfilled"},
   refunded: 0..Share[c],
   part: {"none", "partial", "full"},       \* refundStatus
   settlement: {"on_hold", "payable", "paid", "disputed", "not_eligible"},
   paid: BOOLEAN,               \* settlementOperationId, for the whole net
   disputed: 0..Net[c],
   resolved: 0..Net[c]]         \* recovered or written off

-----------------------------------------------------------------------------
(* Properties.                                                             *)

(* The components share out every refund to the last minor unit and none   *)
(* gets more than its price, through any series of partial refunds.        *)
PortionsAddUp ==
  /\ order.refunded = SumOf([c \in Component |-> comp[c].refunded])
  /\ \A c \in Component : comp[c].refunded <= Share[c]

(* Once an order is wholly refunded, its seats are back on sale except     *)
(* those of delivered components, and only then are any of them.           *)
FullRefundFreesSeats ==
  /\ order.refunded = Price =>
       \A c \in Component : c \in released <=> comp[c].status # "fulfilled"
  /\ released # {} => order.refunded = Price

(* A supplier is paid for delivered service only, although an order may    *)
(* fall back from review to allocation.                                    *)
PaidAfterService ==
  \A c \in Component :
    comp[c].paid \/ comp[c].settlement \in {"payable", "paid"} => comp[c].status = "fulfilled"

(* Of a payout whose service is wholly refunded, every minor unit is in    *)
(* dispute or resolved, and none twice.                                    *)
PayoutIsTracked ==
  \A c \in Component :
    /\ comp[c].disputed + comp[c].resolved <= Net[c]
    /\ comp[c].paid /\ comp[c].part = "full" => comp[c].disputed + comp[c].resolved = Net[c]
=============================================================================
