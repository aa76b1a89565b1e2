---------------------------- MODULE CancelRefund ----------------------------
(***************************************************************************)
(* A paid card booking and its money going back: admin refunds, refunds    *)
(* made in Stripe's dashboard, and the durable cancellation command.       *)
(*                                                                         *)
(* Four kinds of code meet here.  Cancellation workers (the request that   *)
(* cancels runs one at once, every process runs one each 30 seconds) take  *)
(* a lease on the BookingCancellation row and talk to Stripe under it;     *)
(* the lease can run out under a worker that is still alive.  Refund       *)
(* webhooks list the provider's refunds and reconcile the booking with     *)
(* them; they finalize a cancellation too, without any lease.  The admin   *)
(* refund endpoint creates a refund and applies the total it then reads.   *)
(* Stripe settles, fails and reverses refunds in between.                  *)
(*                                                                         *)
(* Each await is a step; a transaction or a conditional update is one.     *)
(***************************************************************************)
EXTENDS Naturals, FiniteSets

CONSTANTS
  Worker,        \* concurrent processBookingCancellation calls
  Hook,          \* concurrent refund-webhook deliveries
  Admin,         \* concurrent admin refund requests
  Total,         \* booking total in minor units
  Amounts,       \* the refund amounts admins ask for
  Foreign,       \* refunds made in Stripe's dashboard
  MaxAttempts    \* attempts after which an error needs a person (10 in the code)

ASSUME TotalAssumption == Total \in Nat \ {0}
ASSUME AmountsAssumption == Amounts \subseteq 1..Total
ASSUME ForeignAssumption == IsFiniteSet(Foreign)
ASSUME MaxAttemptsAssumption == MaxAttempts \in Nat \ {0}

VARIABLES
  bk,       \* the Booking document
  spent,    \* what this booking contributes to User.totalSpent
  op,       \* the BookingCancellation row
  refund,   \* Stripe: the refunds of the booking's PaymentIntent
  dirty,    \* Stripe owes the backend a delivery about these refunds
  wk,       \* the workers
  hk,       \* the webhook deliveries
  ad        \* the admin requests

vars == <<bk, spent, op, refund, dirty, wk, hk, ad>>

(* A refund is known by the idempotency key it was created under: one for  *)
(* the cancellation, one per amount for the admin endpoint; the rest are   *)
(* refunds this backend did not ask for.                                   *)
Cancel == <<"cancel", 0>>
ForeignKey(f) == <<"foreign", f>>
AdminKey(a) == <<"admin", a>>
Key == {Cancel} \cup {ForeignKey(f) : f \in Foreign} \cup {AdminKey(a) : a \in Amounts}

(* A provider status as the code reads it, which is also the ledger's, and *)
(* Stripe's own: "reversed" is failed after succeeded, listed as "failed". *)
LedgerStatus == {"none", "pending", "succeeded", "failed"}
RefundStatus == LedgerStatus \cup {"reversed"}
Refund == [st: RefundStatus, amt: 0..Total]
NoRefund == [st |-> "none", amt |-> 0]

(* "active" is pending or confirmed: nothing here tells the two apart once *)
(* the booking is paid.                                                    *)
BookingDoc ==
  [status: {"active", "completed", "refunded", "cancelled"},
   pay: {"succeeded", "refunded"},
   refunded: 0..Total,          \* refundedAmount
   released: BOOLEAN,           \* inventoryReleasedAt
   cancelReq: BOOLEAN,          \* cancellationRequestedAt
   ledger: [Key -> LedgerStatus]]

Operation ==
  [st: {"none", "pending", "retry", "processing", "manual_review", "completed"},
   attempts: 0..MaxAttempts,    \* saturates: only "reached the limit" matters
   attempted: BOOLEAN,          \* providerAttemptedAt
   holder: Worker \cup {"nobody"},   \* leaseToken
   expired: BOOLEAN]            \* leaseUntil has passed

WorkerState ==
  [pc: {"idle", "read", "list", "attempt", "refund", "finalize", "error", "dead"},
   seen: [Key -> LedgerStatus], \* the refunds this worker acts on
   attempted: BOOLEAN,          \* of the row as it was claimed
   last: BOOLEAN,               \* its attempts had reached the limit
   amount: 0..Total,
   terminal: BOOLEAN]           \* the error it is about to record

HookState ==
  [pc: {"idle", "list", "ledger", "settle", "dead"},
   open: BOOLEAN,               \* the booking it read may still be cancelled
   seen: [Key -> LedgerStatus]]

AdminState ==
  [pc: {"idle", "create", "ledger", "sum", "apply"},
   amount: 0..Total,
   answer: {"pending", "succeeded"},
   sum: Nat]

NothingSeen == [k \in Key |-> "none"]
IdleWorker == [pc |-> "idle", seen |-> NothingSeen, attempted |-> FALSE,
               last |-> FALSE, amount |-> 0, terminal |-> FALSE]
IdleHook == [pc |-> "idle", open |-> FALSE, seen |-> NothingSeen]
IdleAdmin == [pc |-> "idle", amount |-> 0, answer |-> "pending", sum |-> 0]

TypeOK ==
  /\ bk \in BookingDoc
  /\ spent \in 0..Total
  /\ op \in Operation
  /\ refund \in [Key -> Refund]
  /\ dirty \in BOOLEAN
  /\ wk \in [Worker -> WorkerState]
  /\ hk \in [Hook -> HookState]
  /\ ad \in [Admin -> AdminState]

-----------------------------------------------------------------------------
(* Refund arithmetic.                                                      *)

LedgerOf(st) == IF st = "reversed" THEN "failed" ELSE st
Seen == [k \in Key |-> LedgerOf(refund[k].st)]
(* Money is counted by the minor unit: unit n of refund k is <<k, n>>.     *)
Units(K) == {u \in K \X (1..Total) : u[2] <= refund[u[1]].amt}
Amount(K) == Cardinality(Units(K))
With(seen, S) == {k \in Key : seen[k] \in S}

SucceededIn(seen) == Amount(With(seen, {"succeeded"}))

(* Stripe never refunds more than was charged, pending refunds included.   *)
Refundable == Total - Amount(With(Seen, {"pending", "succeeded"}))

Accept(k, a, st) ==
  refund' = [refund EXCEPT ![k] = [st |-> st, amt |-> a]]

-----------------------------------------------------------------------------
(* The booking as finalizePaidBooking left it.                             *)
PaidBooking ==
  [status |-> "active", pay |-> "succeeded", refunded |-> 0, released |-> FALSE,
   cancelReq |-> FALSE, ledger |-> NothingSeen]

NoOperation == [st |-> "none", attempts |-> 0, attempted |-> FALSE,
                holder |-> "nobody", expired |-> FALSE]

(* InitLegacy: a cancellation refund requested before the durable command  *)
(* existed, interrupted before the booking was closed.                     *)
InitRefund ==
  \/ refund = [k \in Key |-> NoRefund]
  \/ \E st \in {"pending", "succeeded"} :
       refund = [k \in Key |->
                   IF k = Cancel THEN [st |-> st, amt |-> Total]
                                 ELSE NoRefund]

Init ==
  /\ bk = PaidBooking
  /\ spent = Total
  /\ op = NoOperation
  /\ InitRefund
  /\ dirty = (refund[Cancel].st # "none")
  /\ wk = [w \in Worker |-> IdleWorker]
  /\ hk = [h \in Hook |-> IdleHook]
  /\ ad = [a \in Admin |-> IdleAdmin]

-----------------------------------------------------------------------------
(* Stripe.                                                                 *)

RefundSettles(k) ==
  /\ refund[k].st = "pending"
  /\ \E st \in {"succeeded", "failed"} : refund' = [refund EXCEPT ![k].st = st]
  /\ dirty' = TRUE
  /\ UNCHANGED <<bk, spent, op, wk, hk, ad>>

(* A refund the customer's bank returns: failed after it had succeeded.    *)
RefundReverses(k) ==
  /\ refund[k].st = "succeeded"
  /\ refund' = [refund EXCEPT ![k].st = "reversed"]
  /\ dirty' = TRUE
  /\ UNCHANGED <<bk, spent, op, wk, hk, ad>>

DashboardRefund(f) ==
  /\ refund[ForeignKey(f)].st = "none"
  /\ \E a \in 1..Refundable, st \in {"pending", "succeeded"} :
       Accept(ForeignKey(f), a, st)
  /\ dirty' = TRUE
  /\ UNCHANGED <<bk, spent, op, wk, hk, ad>>

-----------------------------------------------------------------------------
(* What several callers share.                                             *)

(* Mutant: a reversal is dropped.                                          *)
RecordedForGood(old, st) ==
  IF old = "none" \/ (st \in {"succeeded", "failed"} /\ old = "pending") THEN st ELSE old

(* recordBookingRefundLedger: pending -> succeeded | failed, succeeded ->  *)
(* failed, and nothing else; an unknown refund is appended as it is.       *)
Recorded(old, st) ==
  IF \/ old = "none"
     \/ st = "succeeded" /\ old = "pending"
     \/ st = "failed"
  THEN st ELSE old

(* Mutant: every caller takes the whole total off totalSpent.              *)
ApplyTotalEach(sum) ==
  LET raised == IF sum > bk.refunded THEN sum ELSE bk.refunded IN
  /\ spent' = spent - sum
  /\ bk' = [bk EXCEPT !.refunded = raised]

(* applyBookingRefundTotal: refundedAmount ratchets up, whoever raises it  *)
(* takes the difference off totalSpent, a full refund closes the payment.  *)
ApplyTotal(sum) ==
  LET capped == IF sum < Total THEN sum ELSE Total
      raised == IF capped > bk.refunded THEN capped ELSE bk.refunded
      closes == sum >= Total /\ bk.pay = "succeeded"
  IN /\ spent' = spent - (raised - bk.refunded)
     /\ bk' = [bk EXCEPT
          !.refunded = raised,
          !.pay = IF closes THEN "refunded" ELSE @,
          !.status = IF closes /\ @ \in {"active", "completed"}
                       THEN "refunded" ELSE @]

AlreadyCancelled == bk.status = "cancelled" /\ bk.released
Open == bk.status \in {"active", "refunded"} /\ ~bk.released

(* Mutant: the sum of the refunds is not compared with the price.          *)
EvidenceOfCancel(seen) == seen[Cancel] = "succeeded"

(* The checks of finalizeBookingCancellation for a paid booking, over the  *)
(* refunds its caller listed, and the error that ends it when one fails.   *)
Evidence(seen) == seen[Cancel] = "succeeded" /\ SucceededIn(seen) >= Total
Reversed(seen) == \E k \in Key : seen[k] = "succeeded" /\ bk.ledger[k] = "failed"
Known(seen) == op.st # "none" \/ seen[Cancel] = "succeeded"
(* Mutant: a reversal in the ledger is not looked for.                     *)
CanFinalizeReversed(seen) == Known(seen) /\ (AlreadyCancelled \/ (Open /\ Evidence(seen)))

CanFinalize(seen) ==
  /\ Known(seen)
  /\ AlreadyCancelled \/ (Open /\ ~Reversed(seen) /\ Evidence(seen))
FinalizeTerminal(seen) == Known(seen) /\ (~Open \/ Reversed(seen))

(* One transaction: ledger, refunded amount, totalSpent, seats, booking    *)
(* status and the command row.  A booking cancelled before is left alone.  *)
Finalize(seen) ==
  /\ op' = [op EXCEPT !.st = IF @ = "none" /\ AlreadyCancelled THEN @ ELSE "completed",
                      !.holder = "nobody", !.expired = FALSE]
  /\ IF AlreadyCancelled
       THEN UNCHANGED <<bk, spent>>
       ELSE /\ spent' = spent - (Total - bk.refunded)
            /\ bk' = [bk EXCEPT
                 !.status = "cancelled", !.pay = "refunded", !.refunded = Total,
                 !.released = TRUE, !.cancelReq = TRUE,
                 !.ledger = [k \in Key |-> IF seen[k] = "succeeded"
                                             THEN "succeeded" ELSE @[k]]]

-----------------------------------------------------------------------------
(* Admin edits and the request to cancel.                                  *)

(* updateBookingStatus: its read and its conditional update agree.         *)
AdminStatus ==
  /\ ~bk.cancelReq
  /\ bk.status \notin {"cancelled", "refunded"}
  /\ bk.pay = "succeeded"
  /\ \E s \in {"active", "completed"} : bk' = [bk EXCEPT !.status = s]
  /\ UNCHANGED <<spent, op, refund, dirty, wk, hk, ad>>

RequestCancel ==
  /\ bk.status = "active"
  /\ bk.pay = "succeeded"
  /\ ~bk.released
  /\ bk' = [bk EXCEPT !.cancelReq = TRUE]
  /\ op' = IF op.st = "none" THEN [op EXCEPT !.st = "pending"] ELSE op
  /\ UNCHANGED <<spent, refund, dirty, wk, hk, ad>>
-----------------------------------------------------------------------------
(* processBookingCancellation.                                             *)

Holds(w) == op.st = "processing" /\ op.holder = w

Becomes(w, r) == wk' = [wk EXCEPT ![w] = r]
Fails(w, terminal) ==
  Becomes(w, [IdleWorker EXCEPT !.pc = "error", !.terminal = terminal, !.last = wk[w].last])

(* Mutant: a command is never taken over from a worker that died.          *)
WorkerClaimFresh(w) ==
  /\ wk[w].pc \in {"idle", "dead"}
  /\ op.st \in {"pending", "retry"}
  /\ LET n == IF op.attempts < MaxAttempts THEN op.attempts + 1 ELSE MaxAttempts IN
       /\ op' = [op EXCEPT !.st = "processing", !.holder = w, !.expired = FALSE,
                           !.attempts = n]
       /\ Becomes(w, [IdleWorker EXCEPT !.pc = "read", !.attempted = op.attempted,
                                        !.last = (n = MaxAttempts)])
  /\ UNCHANGED <<bk, spent, refund, dirty, hk, ad>>

WorkerClaim(w) ==
  /\ wk[w].pc \in {"idle", "dead"}
  /\ \/ op.st \in {"pending", "retry"}
     \/ op.st = "processing" /\ op.expired
  /\ LET n == IF op.attempts < MaxAttempts THEN op.attempts + 1 ELSE MaxAttempts IN
       /\ op' = [op EXCEPT !.st = "processing", !.holder = w, !.expired = FALSE,
                           !.attempts = n]
       /\ Becomes(w, [IdleWorker EXCEPT !.pc = "read", !.attempted = op.attempted,
                                        !.last = (n = MaxAttempts)])
  /\ UNCHANGED <<bk, spent, refund, dirty, hk, ad>>

(* LEASE_MS passes while the worker waits for Stripe or is gone.           *)
LeaseExpires ==
  /\ op.st = "processing"
  /\ ~op.expired
  /\ op' = [op EXCEPT !.expired = TRUE]
  /\ UNCHANGED <<bk, spent, refund, dirty, wk, hk, ad>>

WorkerRead(w) ==
  /\ wk[w].pc = "read"
  /\ \/ AlreadyCancelled /\ Becomes(w, [wk[w] EXCEPT !.pc = "finalize"])
     \/ Open /\ Becomes(w, [wk[w] EXCEPT !.pc = "list"])
     \/ ~AlreadyCancelled /\ ~Open /\ Fails(w, TRUE)
  /\ UNCHANGED <<bk, spent, op, refund, dirty, hk, ad>>

(* Without a cancellation refund at Stripe this row asks for one, once,    *)
(* for what is left after the refunds that succeeded; a refund still in    *)
(* flight is waited for.  With one, only its success finalizes.            *)
WorkerList(w) ==
  /\ wk[w].pc = "list"
  /\ LET seen == Seen
         left == Total - SucceededIn(seen)
     IN \/ /\ seen[Cancel] = "none"
           /\ \/ wk[w].attempted /\ Fails(w, TRUE)
              \/ /\ ~wk[w].attempted
                 /\ \/ With(seen, {"pending"}) # {} /\ Fails(w, FALSE)
                    \/ /\ With(seen, {"pending"}) = {}
                       /\ IF left <= 0
                            THEN Fails(w, TRUE)
                            ELSE Becomes(w, [wk[w] EXCEPT !.pc = "attempt",
                                               !.amount = left, !.seen = seen])
        \/ seen[Cancel] = "failed" /\ Fails(w, TRUE)
        \/ seen[Cancel] = "pending" /\ Fails(w, FALSE)
        \/ /\ seen[Cancel] = "succeeded"
           /\ Becomes(w, [wk[w] EXCEPT !.pc = "finalize", !.seen = seen])
  /\ UNCHANGED <<bk, spent, op, refund, dirty, hk, ad>>

(* Mutant: the write that precedes the provider call is not conditional.   *)
WorkerAttemptUnfenced(w) ==
  /\ wk[w].pc = "attempt"
  /\ op' = [op EXCEPT !.attempted = TRUE]
  /\ Becomes(w, [wk[w] EXCEPT !.pc = "refund"])
  /\ UNCHANGED <<bk, spent, refund, dirty, hk, ad>>

(* The fenced write that must precede the provider call, at most once.     *)
WorkerAttempt(w) ==
  /\ wk[w].pc = "attempt"
  /\ IF Holds(w) /\ ~op.attempted /\ ~op.expired
       THEN /\ op' = [op EXCEPT !.attempted = TRUE]
            /\ Becomes(w, [wk[w] EXCEPT !.pc = "refund"])
       ELSE UNCHANGED op /\ Becomes(w, IdleWorker)
  /\ UNCHANGED <<bk, spent, refund, dirty, hk, ad>>

(* refunds.create under the key booking-cancel-<id>.                       *)
WorkerRefund(w) ==
  /\ wk[w].pc = "refund"
  /\ \/ /\ refund[Cancel].st = "none"
        /\ wk[w].amount <= Refundable
        /\ \E st \in {"pending", "succeeded"} :
             /\ Accept(Cancel, wk[w].amount, st)
             /\ IF st = "succeeded"
                  THEN Becomes(w, [wk[w] EXCEPT !.pc = "finalize", !.seen[Cancel] = st,
                                                !.amount = 0])
                  ELSE Fails(w, FALSE)
        /\ dirty' = TRUE
     \/ /\ wk[w].amount > Refundable
        /\ Fails(w, FALSE)
        /\ UNCHANGED <<refund, dirty>>
  /\ UNCHANGED <<bk, spent, op, hk, ad>>

(* The transaction is not fenced: a worker whose lease ran out runs it too.*)
WorkerFinalize(w) ==
  /\ wk[w].pc = "finalize"
  /\ LET seen == wk[w].seen IN
       \/ CanFinalize(seen) /\ Finalize(seen) /\ Becomes(w, IdleWorker)
       \/ ~CanFinalize(seen) /\ Fails(w, FinalizeTerminal(seen))
                             /\ UNCHANGED <<bk, spent, op>>
  /\ UNCHANGED <<refund, dirty, hk, ad>>

(* Mutants: an error is recorded without the fence; attempts have no limit.*)
WorkerErrorUnfenced(w) ==
  /\ wk[w].pc = "error"
  /\ op' = [op EXCEPT !.st = IF wk[w].terminal \/ wk[w].last THEN "manual_review"
                                                            ELSE "retry",
                      !.holder = "nobody", !.expired = FALSE]
  /\ Becomes(w, IdleWorker)
  /\ UNCHANGED <<bk, spent, refund, dirty, hk, ad>>

WorkerError(w) ==
  /\ wk[w].pc = "error"
  /\ op' = IF Holds(w)
             THEN [op EXCEPT !.st = IF wk[w].terminal \/ wk[w].last
                                      THEN "manual_review" ELSE "retry",
                             !.holder = "nobody", !.expired = FALSE]
             ELSE op
  /\ Becomes(w, IdleWorker)
  /\ UNCHANGED <<bk, spent, refund, dirty, hk, ad>>

(* The gateway is not configured, or a provider or database call throws.   *)
WorkerThrows(w) ==
  /\ wk[w].pc \in {"read", "list", "refund", "finalize"}
  /\ Fails(w, FALSE)
  /\ UNCHANGED <<bk, spent, op, refund, dirty, hk, ad>>

(* A process that died leaves "dead" behind instead of "idle": its next    *)
(* run starts from either.                                                 *)
WorkerDies(w) ==
  /\ wk[w].pc \notin {"idle", "dead"}
  /\ Becomes(w, [IdleWorker EXCEPT !.pc = "dead"])
  /\ UNCHANGED <<bk, spent, op, refund, dirty, hk, ad>>

-----------------------------------------------------------------------------
(* A refund event: reconcileBookingStripeRefunds.  Stripe delivers it at   *)
(* least once, in any order, and again until it is answered with success.  *)

HookBecomes(h, r) == hk' = [hk EXCEPT ![h] = r]

HookRead(h) ==
  /\ hk[h].pc \in {"idle", "dead"}
  /\ With(Seen, {"none"}) # Key
  /\ dirty' = FALSE
  /\ HookBecomes(h, [IdleHook EXCEPT !.pc = "list", !.open = Open])
  /\ UNCHANGED <<bk, spent, op, refund, wk, ad>>

HookList(h) ==
  /\ hk[h].pc = "list"
  /\ HookBecomes(h, [hk[h] EXCEPT !.pc = "ledger", !.seen = Seen])
  /\ UNCHANGED <<bk, spent, op, refund, dirty, wk, ad>>

(* One recordBookingRefundLedger per listed refund; they do not disturb    *)
(* each other and are taken together.                                      *)
HookLedger(h) ==
  /\ hk[h].pc = "ledger"
  /\ bk' = [bk EXCEPT !.ledger = [k \in Key |-> Recorded(@[k], hk[h].seen[k])]]
  /\ HookBecomes(h, [hk[h] EXCEPT !.pc = "settle"])
  /\ UNCHANGED <<spent, op, refund, dirty, wk, ad>>

HookSettle(h) ==
  /\ hk[h].pc = "settle"
  /\ LET seen == hk[h].seen IN
       \/ /\ seen[Cancel] # "none" /\ hk[h].open
          /\ IF CanFinalize(seen)
               THEN Finalize(seen) /\ UNCHANGED dirty
               ELSE dirty' = TRUE /\ UNCHANGED <<bk, spent, op>>
       \/ /\ seen[Cancel] = "none" \/ ~hk[h].open
          /\ IF SucceededIn(seen) > 0 THEN ApplyTotal(SucceededIn(seen))
                                      ELSE UNCHANGED <<bk, spent>>
          /\ UNCHANGED <<op, dirty>>
  /\ HookBecomes(h, IdleHook)
  /\ UNCHANGED <<refund, wk, ad>>

HookDies(h) ==
  /\ hk[h].pc \notin {"idle", "dead"}
  /\ dirty' = TRUE
  /\ HookBecomes(h, [IdleHook EXCEPT !.pc = "dead"])
  /\ UNCHANGED <<bk, spent, op, refund, wk, ad>>

-----------------------------------------------------------------------------
(* POST /payments/:bookingId/refund.                                       *)

AdminBecomes(a, r) == ad' = [ad EXCEPT ![a] = r]

AdminRead(a) ==
  /\ ad[a].pc = "idle"
  /\ ~bk.cancelReq
  /\ bk.pay = "succeeded"
  /\ \E n \in Amounts : AdminBecomes(a, [IdleAdmin EXCEPT !.pc = "create", !.amount = n])
  /\ UNCHANGED <<bk, spent, op, refund, dirty, wk, hk>>

(* A repeated key is answered with Stripe's stored first response, which   *)
(* says "pending" or, for a refund that did succeed, "succeeded".          *)
Stored(st) ==
  {"pending"} \cup (IF st \in {"succeeded", "reversed"} THEN {"succeeded"} ELSE {})

AdminCreate(a) ==
  /\ ad[a].pc = "create"
  /\ LET k == AdminKey(ad[a].amount)
         answered(st) == [ad[a] EXCEPT !.pc = "ledger", !.answer = st]
     IN \/ /\ refund[k].st # "none"
           /\ \E st \in Stored(refund[k].st) : AdminBecomes(a, answered(st))
           /\ UNCHANGED <<refund, dirty>>
        \/ /\ refund[k].st = "none"
           /\ ad[a].amount <= Refundable
           /\ \E st \in {"pending", "succeeded"} :
                Accept(k, ad[a].amount, st) /\ AdminBecomes(a, answered(st))
           /\ dirty' = TRUE
        \/ /\ refund[k].st = "none"
           /\ ad[a].amount > Refundable
           /\ AdminBecomes(a, IdleAdmin)
           /\ UNCHANGED <<refund, dirty>>
  /\ UNCHANGED <<bk, spent, op, wk, hk>>

(* Mutant: the answer is recorded as a success whatever it says.           *)
AdminLedgerSucceeded(a) ==
  /\ ad[a].pc = "ledger"
  /\ bk' = [bk EXCEPT !.ledger[AdminKey(ad[a].amount)] = "succeeded"]
  /\ AdminBecomes(a, [ad[a] EXCEPT !.pc = "sum"])
  /\ UNCHANGED <<spent, op, refund, dirty, wk, hk>>

AdminLedger(a) ==
  /\ ad[a].pc = "ledger"
  /\ bk' = [bk EXCEPT !.ledger[AdminKey(ad[a].amount)] = Recorded(@, ad[a].answer)]
  /\ AdminBecomes(a, IF ad[a].answer = "succeeded" THEN [ad[a] EXCEPT !.pc = "sum"]
                                                  ELSE IdleAdmin)
  /\ UNCHANGED <<spent, op, refund, dirty, wk, hk>>

AdminSum(a) ==
  /\ ad[a].pc = "sum"
  /\ AdminBecomes(a, [ad[a] EXCEPT !.pc = "apply", !.sum = SucceededIn(Seen)])
  /\ UNCHANGED <<bk, spent, op, refund, dirty, wk, hk>>

AdminApply(a) ==
  /\ ad[a].pc = "apply"
  /\ ApplyTotal(ad[a].sum)
  /\ AdminBecomes(a, IdleAdmin)
  /\ UNCHANGED <<op, refund, dirty, wk, hk>>

AdminDies(a) ==
  /\ ad[a].pc # "idle"
  /\ AdminBecomes(a, IdleAdmin)
  /\ UNCHANGED <<bk, spent, op, refund, dirty, wk, hk>>

-----------------------------------------------------------------------------
Work(w) ==
  \/ WorkerClaim(w) \/ WorkerRead(w) \/ WorkerList(w) \/ WorkerAttempt(w)
  \/ WorkerRefund(w) \/ WorkerFinalize(w) \/ WorkerError(w)
Hooked(h) == HookRead(h) \/ HookList(h) \/ HookLedger(h) \/ HookSettle(h)
Administer(a) ==
  \/ AdminRead(a) \/ AdminCreate(a) \/ AdminLedger(a) \/ AdminSum(a) \/ AdminApply(a)
  \/ AdminDies(a)
Stripe ==
  \/ \E f \in Foreign : DashboardRefund(f)
  \/ \E k \in Key : RefundSettles(k) \/ RefundReverses(k)
Outrun == LeaseExpires /\ \E w \in Worker : Holds(w) /\ wk[w].pc \notin {"idle", "dead"}
Death ==
  \/ \E w \in Worker : WorkerDies(w)
  \/ \E h \in Hook : HookDies(h)

Next ==
  \/ \E w \in Worker : Work(w) \/ WorkerThrows(w)
  \/ \E h \in Hook : Hooked(h)
  \/ \E a \in Admin : Administer(a)
  \/ Stripe
  \/ AdminStatus \/ RequestCancel \/ LeaseExpires
  \/ Death

Spec == Init /\ [][Next]_vars

(* The sweep claims every 30 seconds, a lease ends, Stripe settles pending *)
(* refunds and redelivers events.  In the long run processes stop dying,   *)
(* and a live worker finishes within its lease; calls may throw forever.   *)
Fairness ==
  /\ \A w \in Worker : WF_vars(Work(w))
  /\ \A h \in Hook : WF_vars(dirty /\ HookRead(h))
  /\ \A h \in Hook : WF_vars(HookList(h) \/ HookLedger(h) \/ HookSettle(h))
  /\ \A k \in Key : WF_vars(RefundSettles(k))
  /\ WF_vars(LeaseExpires)
  /\ <>[][~Death]_vars
  /\ <>[][~Outrun]_vars

FairSpec == Spec /\ Fairness

-----------------------------------------------------------------------------
(* Properties.                                                             *)

EverSucceeded == {k \in Key : refund[k].st \in {"succeeded", "reversed"}}

(* The customer's total and the booking's refunded amount are two books of *)
(* the same money: webhooks, admin requests and workers that all see the   *)
(* same refund take it off totalSpent once.                                *)
SpentMatchesRefunds == spent + bk.refunded = Total

(* The refunds that succeeded at Stripe and that the booking's ledger does *)
(* not know to have been taken back.                                       *)
Repaid == {k \in EverSucceeded : bk.ledger[k] # "failed"}

Closed == bk.status = "cancelled" \/ bk.released

(* A paid booking is cancelled and its seats go back on sale in one step,  *)
(* and only once Stripe has paid the whole price back: the cancellation    *)
(* refund succeeded and, with the other refunds that are not known to have *)
(* been reversed, comes to the price, whoever closes the booking and       *)
(* however old its list of refunds is.                                     *)
CancelledIsRefunded ==
  [][Closed' /\ ~Closed =>
       AlreadyCancelled' /\ Cancel \in EverSucceeded /\ Amount(Repaid) >= Total]_bk

(* The provider is asked for a cancellation refund by one worker, once,    *)
(* however leases expire and workers overlap.                              *)
OneProviderAttempt ==
  \A w \in Worker : wk[w].pc = "refund" =>
    /\ op.attempted
    /\ refund[Cancel].st = "none"
    /\ \A v \in Worker \ {w} : wk[v].pc # "refund"

(* The command row is completed exactly when the booking is cancelled.     *)
CompletedMeansCancelled == op.st = "completed" <=> AlreadyCancelled

(* The ledger never reports an outcome the provider did not reach.         *)
LedgerIsTrue ==
  \A k \in Key :
    /\ bk.ledger[k] = "succeeded" => k \in EverSucceeded
    /\ bk.ledger[k] = "failed" => refund[k].st \in {"failed", "reversed"}
    /\ bk.ledger[k] = "pending" => refund[k].st # "none"

(* What recordBookingRefundLedger's comment promises, of every writer of   *)
(* the ledger: no stale write turns failed back into succeeded, or         *)
(* succeeded into pending; and refundedAmount, a refunded payment and a    *)
(* cancelled booking are never taken back.                                 *)
NeverBackwards ==
  [][/\ \A k \in Key :
          /\ bk.ledger[k] = "failed" => bk'.ledger[k] = "failed"
          /\ bk.ledger[k] = "succeeded" => bk'.ledger[k] \in {"succeeded", "failed"}
          /\ bk.ledger[k] = "pending" => bk'.ledger[k] # "none"
     /\ bk'.refunded >= bk.refunded
     /\ bk.pay = "refunded" => bk'.pay = "refunded"
     /\ AlreadyCancelled => AlreadyCancelled']_bk

(* An accepted cancellation ends: carried out, or in a person's hands.     *)
CancellationAnswered == op.st = "pending" ~> op.st \in {"completed", "manual_review"}

(* A reversal reaches the ledger, whoever wrote it last.                   *)
ReversalIsSeen ==
  \A k \in Key : refund[k].st = "reversed" ~> bk.ledger[k] = "failed"

=============================================================================
