---------------------------- MODULE BundleRefund ----------------------------
(***************************************************************************)
(* Refunds of a captured bundle order at Stripe.  An operation has its     *)
(* money set aside in the order before Stripe hears of it, is sent under   *)
(* one idempotency key by whoever holds its lease, and is written into the *)
(* order in one transaction.  Admin requests and the sweep of app.ts run   *)
(* the same function, refundBundleOrder: each of its awaits is a step.     *)
(*                                                                         *)
(* What the order's components make of it is BundleSettlement's; here the  *)
(* order's status only says whether a cancellation has been asked for.  An *)
(* operation has one amount: its callers do not reuse its name for another *)
(* (the code refuses that, but not in a race).  Due times only delay the   *)
(* sweep and are left out.                                                 *)
(*                                                                         *)
(* Stripe keeps an idempotency key for about a day.  The operation's       *)
(* retries have no such limit, so after a long outage one is sent again as *)
(* a new refund, and what its first sending came to is nobody's: an orphan *)
(* at Stripe.  Bound: no operation has two orphans.                        *)
(***************************************************************************)
EXTENDS Integers, FiniteSets, BundleMoney

CONSTANTS
  Total,        \* totalMinor
  Operation,    \* operationIds of refunds
  Amount,       \* amountMinor of each
  Aged,         \* those whose refund may outlive its key, or come back
  Caller,       \* admin requests for a refund or a recovery
  Sweeper       \* concurrent bundle sweeps

ASSUME TotalAssumption == Total \in Nat \ {0}
ASSUME OperationAssumption == IsFiniteSet(Operation) /\ Aged \subseteq Operation
ASSUME AmountAssumption == Amount \in [Operation -> 1..Total]

Process == Caller \cup Sweeper

VARIABLES
  op,           \* order.refunds
  stripe,       \* Stripe: the refund made for each operation
  first,        \* Stripe: the answer stored under its idempotency key
  orphans,      \* Stripe: operations refunded under a key since forgotten
  proc          \* the requests and the sweeps

vars == <<order, op, stripe, first, orphans, declined, proc>>
provider == <<stripe, first, orphans, declined>>

Open == {"requested", "provider_pending"}

OrderDoc ==
  [status: {"live", "partially_refunded", "cancel_pending", "refunded", "manual_review"},
   pay: Paid \cup {"failed", "manual_review"},
   refunded: 0..Total,
   pending: 0..Total]           \* refundPendingMinor

OperationDoc ==
  [status: {"none", "succeeded", "failed"} \cup Open,
   amount: 1..Total,
   attempted: BOOLEAN,          \* providerAttemptedAt
   known: BOOLEAN,              \* providerRefundId
   leased: BOOLEAN,
   revived: BOOLEAN]            \* history: accounted for after it was given up

Refund == {"none", "pending", "succeeded", "failed", "reversed"}

Idle == [pc |-> "idle", op |-> "none", rest |-> FALSE, tried |-> FALSE,
         known |-> FALSE, answer |-> "none"]

ProcessState ==
  [pc: {"idle", "reserve", "config", "provider", "record", "account", "review"},
   op: Operation \cup {"none"},
   rest: BOOLEAN,               \* the amount was all that remained
   tried: BOOLEAN,              \* the operation had been sent when it was read
   known: BOOLEAN,              \* and its refund's id was known
   answer: {"none", "error", "pending", "succeeded", "failed"}]

TypeOK ==
  /\ order \in OrderDoc
  /\ op \in [Operation -> OperationDoc]
  /\ stripe \in [Operation -> Refund]
  /\ orphans \in SUBSET Operation
  /\ first \in [Operation -> {"none", "pending", "succeeded", "failed"}]
  /\ declined \in BOOLEAN
  /\ proc \in [Process -> ProcessState]

(* A captured order, allocated or not.                                     *)
Init ==
  /\ order = [status |-> "live", pay |-> "succeeded", refunded |-> 0, pending |-> 0]
  /\ op = [o \in Operation |-> [status |-> "none", amount |-> Amount[o], attempted |-> FALSE,
                                 known |-> FALSE, leased |-> FALSE, revived |-> FALSE]]
  /\ stripe = [o \in Operation |-> "none"]
  /\ first = [o \in Operation |-> "none"]
  /\ orphans = {}
  /\ declined \in BOOLEAN
  /\ proc = [p \in Process |-> Idle]

IsOpen(o) == op[o].status \in Open

(* Money is counted by the minor unit: unit n of operation o is <<o, n>>.  *)
Units(S) == {u \in S \X (1..Total) : u[2] <= op[u[1]].amount}
Amounts(S) == Cardinality(Units(S))
-----------------------------------------------------------------------------
(* The order's payment status under other hands.                           *)

(* persistCapturedBundlePayment for an order that lost its payment status: *)
(* by a redelivered webhook, a confirmation or a recovery.                 *)
Persist ==
  /\ order.pay \notin Paid
  /\ order.status = "manual_review"
  /\ order' = [order EXCEPT !.status = "live", !.pay = "succeeded"]
  /\ UNCHANGED <<op, provider, proc>>

RequestPaidCancellation ==
  /\ order.pay \in Refundable
  /\ order.pending = 0
  /\ order.status \in {"live", "manual_review"}
  /\ order' = [order EXCEPT !.status = "cancel_pending"]
  /\ UNCHANGED <<op, provider, proc>>

LateDecline == Decline /\ UNCHANGED <<op, stripe, first, orphans, proc>>

-----------------------------------------------------------------------------
(* refundBundleOrder.                                                      *)

At(p, pc) == proc[p].pc = pc
GoTo(p, pc) == proc' = [proc EXCEPT ![p] = IF pc = "idle" THEN Idle ELSE [@ EXCEPT !.pc = pc]]

(* The read of the order; a finished operation is answered at once.        *)
RefundRead(p, o) ==
  /\ At(p, "idle")
  /\ op[o].status \in {"none"} \cup Open
  /\ order.pay \in Refundable
  /\ LET rest == op[o].amount = Total - order.refunded IN
       /\ op[o].status = "none" /\ order.status = "cancel_pending" => rest
       /\ proc' = [proc EXCEPT ![p] =
            [Idle EXCEPT !.pc = IF op[o].status = "none" THEN "reserve" ELSE "config",
                         !.op = o, !.rest = rest /\ op[o].status = "none",
                         !.tried = op[o].attempted, !.known = op[o].known]]
  /\ UNCHANGED <<order, op, provider>>

(* The sweep takes the open operations nobody has leased.                  *)
SweepRead(p, o) == IsOpen(o) /\ ~op[o].leased /\ RefundRead(p, o)

(* Mutant: the cancellation is looked up in the earlier read only.         *)
ReservableStale(p) ==
  LET o == proc[p].op IN
  /\ order.pay \in Refundable
  /\ op[o].status = "none"
  /\ order.refunded + order.pending + op[o].amount <= Total

Reservable(p) ==
  LET o == proc[p].op IN
  /\ order.pay \in Refundable
  /\ op[o].status = "none"
  /\ order.refunded + order.pending + op[o].amount <= Total
  /\ ~proc[p].rest => order.status # "cancel_pending"

Reserve(p) ==
  /\ At(p, "reserve")
  /\ LET o == proc[p].op IN
       IF Reservable(p)
         THEN /\ order' = [order EXCEPT !.pending = @ + op[o].amount]
              /\ op' = [op EXCEPT ![o].status = "requested"]
              /\ proc' = [proc EXCEPT ![p] = [Idle EXCEPT !.pc = "config", !.op = o]]
         ELSE /\ proc' = [proc EXCEPT ![p] =
                   IF op[o].status = "none" THEN Idle
                   ELSE [Idle EXCEPT !.pc = "config", !.op = o,
                                     !.tried = op[o].attempted, !.known = op[o].known]]
              /\ UNCHANGED <<order, op>>
  /\ UNCHANGED provider

(* releaseRefundReservation and scheduleRefundRecovery: nothing, if the    *)
(* operation was finished meanwhile.                                       *)
ReleaseReservation(o, known) ==
  IF IsOpen(o) /\ order.pending >= op[o].amount
    THEN /\ order' = [order EXCEPT !.pending = @ - op[o].amount]
         /\ op' = [op EXCEPT ![o].status = "failed", ![o].leased = FALSE,
                             ![o].known = @ \/ known]
    ELSE UNCHANGED <<order, op>>

Schedule(o, known, leased) ==
  IF IsOpen(o)
    THEN op' = [op EXCEPT ![o].status = "provider_pending", ![o].leased = leased,
                          ![o].known = @ \/ known]
    ELSE UNCHANGED op

(* The gateway is disabled, missing or another than the payment's: by what *)
(* was read of the operation, its money is set free or the sweep is to try *)
(* again.                                                                  *)
ConfigMissing(p) ==
  /\ At(p, "config")
  /\ LET o == proc[p].op IN
       IF proc[p].tried \/ proc[p].known
         THEN Schedule(o, proc[p].known, FALSE) /\ UNCHANGED order
         ELSE ReleaseReservation(o, FALSE)
  /\ GoTo(p, "idle")
  /\ UNCHANGED provider

(* Mutant: a lease that its holder left behind is never taken over.        *)
ClaimOnce(p) ==
  /\ At(p, "config")
  /\ LET o == proc[p].op IN
       IF IsOpen(o) /\ ~op[o].attempted
         THEN /\ op' = [op EXCEPT ![o].attempted = TRUE, ![o].leased = TRUE]
              /\ proc' = [proc EXCEPT ![p] = [@ EXCEPT !.pc = "provider", !.tried = FALSE]]
         ELSE GoTo(p, "idle") /\ UNCHANGED op
  /\ UNCHANGED <<order, provider>>

(* The gateway is as the payment left it, which only this process looks    *)
(* at: its check and the claim of the lease are one step.                  *)
Claim(p) ==
  /\ At(p, "config")
  /\ LET o == proc[p].op IN
       IF IsOpen(o) /\ ~op[o].leased
         THEN /\ op' = [op EXCEPT ![o].attempted = TRUE, ![o].leased = TRUE]
              /\ proc' = [proc EXCEPT ![p] = [@ EXCEPT !.pc = "provider", !.tried = FALSE]]
         ELSE GoTo(p, "idle") /\ UNCHANGED op
  /\ UNCHANGED <<order, provider>>

(* Stripe refunds no more than was charged, and answers a key it knows     *)
(* with its first answer, whatever became of the refund since.             *)
Accepted == {o \in Operation : stripe[o] \in {"pending", "succeeded"}}
Room(o) == Amounts(Accepted) + Amounts(orphans) + op[o].amount <= Total

Answers(p, a) ==
  proc' = [proc EXCEPT ![p] = [Idle EXCEPT !.pc = "record", !.op = proc[p].op, !.answer = a]]

Create(p) ==
  /\ At(p, "provider")
  /\ ~proc[p].known
  /\ LET o == proc[p].op IN
       \/ /\ first[o] = "none"
          /\ Room(o)
          /\ \E a \in {"pending", "succeeded", "failed"} :
               /\ stripe' = [stripe EXCEPT ![o] = a]
               /\ first' = [first EXCEPT ![o] = a]
               /\ Answers(p, a)
       \/ /\ first[o] = "none"
          /\ ~Room(o)
          /\ Answers(p, "error")
          /\ UNCHANGED <<stripe, first>>
       \/ /\ first[o] # "none"
          /\ Answers(p, first[o])
          /\ UNCHANGED <<stripe, first>>
  /\ UNCHANGED <<order, op, orphans, declined>>

(* A refund that the customer's bank sent back reads as failed.            *)
RetrieveRefund(p) ==
  /\ At(p, "provider")
  /\ proc[p].known
  /\ LET refund == stripe[proc[p].op] IN
       Answers(p, IF refund = "reversed" THEN "failed" ELSE refund)
  /\ UNCHANGED <<order, op, provider>>

StripeSettles(o) ==
  /\ stripe[o] = "pending"
  /\ \E a \in {"succeeded", "failed"} : stripe' = [stripe EXCEPT ![o] = a]
  /\ UNCHANGED <<order, op, first, orphans, declined, proc>>

(* A refund that had succeeded comes back.  The webhook leaves the events  *)
(* of a bundle's refunds aside: the order does not hear of it.             *)
StripeReverses(o) ==
  /\ o \in Aged
  /\ stripe[o] = "succeeded"
  /\ stripe' = [stripe EXCEPT ![o] = "reversed"]
  /\ UNCHANGED <<order, op, first, orphans, declined, proc>>

(* A refund nobody looks at any more fails or comes back.                  *)
OrphanFails(o) ==
  /\ o \in orphans
  /\ orphans' = orphans \ {o}
  /\ UNCHANGED <<order, op, stripe, first, declined, proc>>

(* Someone goes by the refund's id, or has its answer at hand: no request  *)
(* keeps an answer for a day.                                              *)
Held(o) ==
  \/ op[o].known
  \/ \E p \in Process : proc[p].op = o /\ proc[p].pc \in {"record", "account"}

(* A day has passed since the operation was first sent, and all that was   *)
(* known of its refund was the key.                                        *)
KeyForgotten(o) ==
  /\ o \in Aged \ orphans
  /\ IsOpen(o) /\ first[o] # "none" /\ ~Held(o)
  /\ orphans' = IF o \in Accepted THEN orphans \cup {o} ELSE orphans
  /\ stripe' = [stripe EXCEPT ![o] = "none"]
  /\ first' = [first EXCEPT ![o] = "none"]
  /\ UNCHANGED <<order, op, declined, proc>>

ToAccount(p) == proc' = [proc EXCEPT ![p] = [Idle EXCEPT !.pc = "account", !.op = proc[p].op]]

(* What the answer leads to; a success is written down before the books.   *)
(* An error leaves the refund's id as the operation has it.                *)
Record(p) ==
  /\ At(p, "record")
  /\ LET o == proc[p].op IN
       \/ /\ proc[p].answer = "error"
          /\ Schedule(o, FALSE, FALSE) /\ GoTo(p, "idle") /\ UNCHANGED order
       \/ /\ proc[p].answer = "pending"
          /\ Schedule(o, TRUE, FALSE) /\ GoTo(p, "idle") /\ UNCHANGED order
       \/ /\ proc[p].answer = "failed"
          /\ ReleaseReservation(o, TRUE) /\ GoTo(p, "idle")
       \/ /\ proc[p].answer = "succeeded"
          /\ Schedule(o, TRUE, op[o].leased) /\ ToAccount(p) /\ UNCHANGED order
  /\ UNCHANGED provider

(* Mutant: the total is guarded, not what another process accounted for.   *)
AppliesTwice(o) == order.refunded + op[o].amount <= Total

(* The schema keeps refundPendingMinor from falling below zero.            *)
Applies(o) == op[o].status # "succeeded" /\ order.pending >= op[o].amount

(* The refund's transaction: the operation and the order's totals.  An     *)
(* operation given up meanwhile is taken up again, at the expense of what  *)
(* is set aside for others.                                                *)
Account(p) ==
  /\ At(p, "account")
  /\ LET o == proc[p].op
         refunded == order.refunded + op[o].amount
         full == refunded = Total
     IN IF Applies(o)
          THEN /\ op' = [op EXCEPT ![o].status = "succeeded", ![o].known = TRUE, ![o].leased = FALSE,
                                   ![o].revived = op[o].status = "failed"]
               /\ order' = [status |-> IF full THEN "refunded"
                              ELSE IF order.status = "cancel_pending" THEN "cancel_pending"
                              ELSE "partially_refunded",
                            pay |-> IF full THEN "refunded" ELSE "partially_refunded",
                            refunded |-> refunded,
                            pending |-> order.pending - op[o].amount]
          ELSE UNCHANGED <<order, op>>
  /\ GoTo(p, "idle")
  /\ UNCHANGED provider

-----------------------------------------------------------------------------
(* recoverBundleOrder, or a cancellation of an order in review, finds no   *)
(* gateway or no answer; the mark looks at the order no more.              *)
ReviewRead(p) ==
  /\ At(p, "idle")
  /\ order.status \in {"partially_refunded", "cancel_pending", "manual_review"}
  /\ proc' = [proc EXCEPT ![p] = [Idle EXCEPT !.pc = "review"]]
  /\ UNCHANGED <<order, op, provider>>

Review(p) ==
  /\ At(p, "review")
  /\ order' = [order EXCEPT !.status = "manual_review",
                            !.pay = IF @ = "succeeded" THEN @ ELSE "manual_review"]
  /\ GoTo(p, "idle")
  /\ UNCHANGED <<op, provider>>

LeaseExpires(o) ==
  /\ op[o].leased
  /\ op' = [op EXCEPT ![o].leased = FALSE]
  /\ UNCHANGED <<order, provider, proc>>

(* A process dies, loses Stripe's answer, or fails in the transaction,     *)
(* which the sweep answers with another schedule.                          *)
Dies(p) ==
  /\ ~At(p, "idle")
  /\ GoTo(p, "idle")
  /\ UNCHANGED <<order, op, provider>>

AnswerLost(p) ==
  /\ At(p, "record")
  /\ proc[p].answer # "error"
  /\ Answers(p, "error")
  /\ UNCHANGED <<order, op, provider>>

AccountFails(p) ==
  /\ At(p, "account")
  /\ Schedule(proc[p].op, FALSE, FALSE)
  /\ GoTo(p, "idle")
  /\ UNCHANGED <<order, provider>>

Refunds(p) ==
  \/ Reserve(p) \/ Claim(p) \/ Create(p) \/ RetrieveRefund(p)
  \/ Record(p) \/ Account(p)

Fault ==
  \/ \E p \in Process : Dies(p) \/ ConfigMissing(p) \/ AnswerLost(p)
  \/ \E p \in Sweeper : AccountFails(p)
  \/ \E o \in Operation : KeyForgotten(o)

Regular ==
  \/ Persist \/ LateDecline \/ RequestPaidCancellation
  \/ \E o \in Operation : StripeSettles(o) \/ StripeReverses(o) \/ OrphanFails(o) \/ LeaseExpires(o)
  \/ \E p \in Process : Refunds(p)
  \/ \E p \in Caller : ReviewRead(p) \/ Review(p) \/ \E o \in Operation : RefundRead(p, o)
  \/ \E p \in Sweeper, o \in Operation : SweepRead(p, o)

Next == Regular \/ Fault

Spec == Init /\ [][Next]_vars

(* The sweep comes round to every due operation and goes on step by step;  *)
(* leases run out, Stripe settles what is pending, and in the long run     *)
(* every step is one that also happens when nothing fails.                 *)
Fairness ==
  /\ \A p \in Process : WF_vars(Refunds(p))
  /\ \A p \in Sweeper, o \in Operation : SF_vars(SweepRead(p, o))
  /\ \A o \in Operation : WF_vars(LeaseExpires(o)) /\ WF_vars(StripeSettles(o))
  /\ <>[][Regular]_vars

FairSpec == Spec /\ Fairness

-----------------------------------------------------------------------------
(* Properties.                                                             *)

WithinPrice == order.refunded + order.pending <= Total

SucceededAtStripe ==
  \A o \in Operation : op[o].status = "succeeded" => stripe[o] \in {"succeeded", "reversed"}

(* The order's refunded total is what Stripe refunded for its succeeded    *)
(* operations, each counted once; what is set aside is what the open       *)
(* operations ask for, short only of what operations taken up again have   *)
(* used of it; and both together never exceed the price.  Refunds under a  *)
(* forgotten key, and reversals, are not in the books.                     *)
RefundedIsBacked ==
  /\ WithinPrice
  /\ SucceededAtStripe
  /\ order.refunded = Amounts({o \in Operation : op[o].status = "succeeded"})
  /\ order.pending + Amounts({o \in Operation : op[o].revived})
       = Amounts({o \in Operation : IsOpen(o)})

(* Three ways a refund goes astray, each of which can leave another one    *)
(* open for ever.  The books gave it up although Stripe took it: its       *)
(* gateway was missing for one process while another sent it.              *)
Mislaid(o) == op[o].status = "failed" /\ stripe[o] \in {"pending", "succeeded"}

(* Given up so, it was accounted for after all, with another's money; or   *)
(* Stripe has made it under a key it has forgotten.                        *)
Astray ==
  \E o \in Operation : Mislaid(o) \/ op[o].revived \/ o \in orphans

(* An open refund is settled one way or the other, whatever its processes  *)
(* and those of other refunds went through, while the order counts as paid *)
(* and no refund has gone astray.                                          *)
RefundSettles ==
  \A o \in Operation : IsOpen(o) ~> ~IsOpen(o) \/ order.pay \notin Refundable \/ Astray

(* A cancellation refunds everything that is left: while one is asked for, *)
(* no smaller operation is taken in, not even one that was read before.    *)
CancellationRefundsRest ==
  [][\A o \in Operation :
       order.status = "cancel_pending" /\ op[o].status = "none" /\ op'[o].status # "none" =>
         order'.refunded + order'.pending = Total]_vars
=============================================================================
