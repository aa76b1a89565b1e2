------------------------- MODULE CancelRefundProofs -------------------------
(***************************************************************************)
(* Theorems about CancelRefund for any number of workers, deliveries,      *)
(* admin requests and refunds, any price and any limit of attempts.        *)
(*                                                                         *)
(* What has to be added to the properties is what a process knows while it *)
(* awaits: the refunds in its hands may be out of date, but a success in   *)
(* them did happen at Stripe and a failure in them is final there.         *)
(***************************************************************************)
EXTENDS CancelRefund, FiniteSetTheorems, TLAPS

(* What a listing or an answer says of refund k is, or once was, so.       *)
Happened(k, st) ==
  /\ st = "succeeded" => refund[k].st \in {"succeeded", "reversed"}
  /\ st = "failed" => refund[k].st \in {"failed", "reversed"}
  /\ st = "pending" => refund[k].st # "none"

WorkersKnow == \A w \in Worker, k \in Key : Happened(k, wk[w].seen[k])
HooksKnow == \A h \in Hook, k \in Key : Happened(k, hk[h].seen[k])
AdminsKnow ==
  \A a \in Admin : ad[a].pc # "idle" =>
    /\ ad[a].amount \in Amounts
    /\ ad[a].pc = "ledger" => Happened(AdminKey(ad[a].amount), ad[a].answer)
LedgerKnows == \A k \in Key : Happened(k, bk.ledger[k])

(* Until the attempt is written down nobody has asked for the cancellation *)
(* refund, whatever happened since a worker's listing did not show it.     *)
FirstAttempt ==
  \A w \in Worker : wk[w].pc = "attempt" /\ ~op.attempted => refund[Cancel].st = "none"

(* A booking is cancelled and its seats given back together, and its own   *)
(* books then say that all of it was refunded.                             *)
ClosedWhole ==
  Closed =>
    /\ AlreadyCancelled
    /\ bk.pay = "refunded" /\ bk.refunded = Total
    /\ Cancel \in EverSucceeded

Facts ==
  /\ SpentMatchesRefunds /\ ClosedWhole /\ OneProviderAttempt
  /\ CompletedMeansCancelled

IInv ==
  /\ TypeOK
  /\ WorkersKnow /\ HooksKnow /\ AdminsKnow /\ LedgerKnows
  /\ FirstAttempt
  /\ Facts

-----------------------------------------------------------------------------
(* There are finitely many refunds, of finitely many units.                *)
LEMMA KeyFinite == IsFiniteSet(Key)
<1> DEFINE foreign == [f \in Foreign |-> ForeignKey(f)]
           admin == [a \in Amounts |-> AdminKey(a)]
<1>1. IsFiniteSet({ForeignKey(f) : f \in Foreign})
  <2>1. foreign \in Surjection(Foreign, {ForeignKey(f) : f \in Foreign})
    BY DEF Surjection
  <2> QED BY <2>1, ForeignAssumption, FS_Surjection
<1>2. IsFiniteSet({AdminKey(a) : a \in Amounts})
  <2>1. IsFiniteSet(Amounts)
    <3>1. IsFiniteSet(1..Total)
      BY TotalAssumption, FS_Interval
    <3> QED BY <3>1, AmountsAssumption, FS_Subset
  <2>2. admin \in Surjection(Amounts, {AdminKey(a) : a \in Amounts})
    BY DEF Surjection
  <2> QED BY <2>1, <2>2, FS_Surjection
<1>3. IsFiniteSet({Cancel})
  BY FS_Singleton
<1> QED BY <1>1, <1>2, <1>3, FS_Union DEF Key

(* The money in any of the refunds is a number.                            *)
LEMMA AmountNat == ASSUME NEW K \in SUBSET Key PROVE Amount(K) \in Nat
<1>1. IsFiniteSet(K) /\ IsFiniteSet(1..Total)
  BY KeyFinite, FS_Subset, FS_Interval, TotalAssumption
<1>2. IsFiniteSet(K \X (1..Total)) /\ Units(K) \in SUBSET (K \X (1..Total))
  BY <1>1, FS_Product DEF Units
<1> QED BY <1>2, FS_Subset, FS_CardinalityType DEF Amount

(* More refunds are no less money.                                         *)
LEMMA AmountMonotone ==
  ASSUME NEW K \in SUBSET Key, NEW L \in SUBSET K PROVE Amount(L) <= Amount(K)
<1>1. IsFiniteSet(K) /\ IsFiniteSet(1..Total)
  BY KeyFinite, FS_Subset, FS_Interval, TotalAssumption
<1>2. IsFiniteSet(K \X (1..Total)) /\ Units(K) \in SUBSET (K \X (1..Total))
  BY <1>1, FS_Product DEF Units
<1>3. IsFiniteSet(Units(K)) /\ Units(L) \in SUBSET Units(K)
  BY <1>2, FS_Subset DEF Units
<1> QED BY <1>3, FS_Subset DEF Amount

(* So is what a listing says was refunded; Stripe never has more to give.  *)
LEMMA SumsNat ==
  ASSUME NEW seen
  PROVE  /\ SucceededIn(seen) \in Nat
         /\ Refundable \in Int /\ Refundable <= Total
<1>1. \A S : With(seen, S) \in SUBSET Key /\ With(Seen, S) \in SUBSET Key
  BY DEF With
<1> QED BY <1>1, AmountNat, TotalAssumption DEF SucceededIn, Refundable

(* The keys of the three kinds of refunds are told apart.                  *)
LEMMA Keys ==
  /\ Cancel \in Key
  /\ \A f \in Foreign : ForeignKey(f) \in Key /\ ForeignKey(f) # Cancel
  /\ \A a \in Amounts : AdminKey(a) \in Key /\ AdminKey(a) # Cancel
BY DEF Key, Cancel, ForeignKey, AdminKey

(* A listing is one of ledger statuses, and true when it is made.          *)
LEMMA SeenFacts ==
  ASSUME refund \in [Key -> Refund]
  PROVE  Seen \in [Key -> LedgerStatus] /\ \A k \in Key : Happened(k, Seen[k])
BY DEF Seen, LedgerOf, LedgerStatus, Refund, RefundStatus, Happened

-----------------------------------------------------------------------------
(* What the two writers of the books do to the booking.  refundedAmount    *)
(* rises by what totalSpent falls, and no closed state is opened again.    *)
Settled ==
  /\ bk' \in BookingDoc /\ spent' \in 0..Total
  /\ SpentMatchesRefunds => SpentMatchesRefunds'
  /\ bk'.refunded >= bk.refunded
  /\ bk.pay = "refunded" => bk'.pay = "refunded"

LEMMA ApplyTotalFacts ==
  ASSUME bk \in BookingDoc, spent \in 0..Total, SpentMatchesRefunds,
         NEW sum \in Nat, ApplyTotal(sum)
  PROVE  /\ Settled
         /\ bk'.ledger = bk.ledger /\ bk'.released = bk.released
         /\ bk'.status = bk.status \/ (bk.status \in {"active", "completed"}
                                       /\ bk'.status = "refunded")
<1> DEFINE capped == IF sum < Total THEN sum ELSE Total
           raised == IF capped > bk.refunded THEN capped ELSE bk.refunded
           closes == sum >= Total /\ bk.pay = "succeeded"
           pay == IF closes THEN "refunded" ELSE bk.pay
           status == IF closes /\ bk.status \in {"active", "completed"}
                       THEN "refunded" ELSE bk.status
<1>1. bk.refunded \in 0..Total /\ Total \in Nat
  BY TotalAssumption DEF BookingDoc
<1>2. raised \in 0..Total /\ raised >= bk.refunded
  BY <1>1
<1>3. spent' = spent - (raised - bk.refunded)
  BY DEF ApplyTotal
<1>4. bk' = [bk EXCEPT !.refunded = raised, !.pay = pay, !.status = status]
  BY DEF ApplyTotal
<1>5. /\ pay \in {"succeeded", "refunded"} /\ (bk.pay = "refunded" => pay = "refunded")
      /\ status \in {"active", "completed", "refunded", "cancelled"}
      /\ status = bk.status \/ (bk.status \in {"active", "completed"} /\ status = "refunded")
  BY DEF BookingDoc
<1>6. /\ bk'.refunded = raised /\ bk'.pay = pay /\ bk'.status = status
      /\ bk'.ledger = bk.ledger /\ bk'.released = bk.released
  BY <1>4 DEF BookingDoc
<1> HIDE DEF capped, raised, closes, pay, status
<1>7. bk' \in BookingDoc
  BY <1>2, <1>4, <1>5 DEF BookingDoc
<1>8. spent' \in 0..Total /\ SpentMatchesRefunds'
  BY <1>1, <1>2, <1>3, <1>6 DEF SpentMatchesRefunds
<1> QED BY <1>2, <1>5, <1>6, <1>7, <1>8 DEF Settled

(* A transaction that does cancel the booking found all of it refunded,    *)
(* and wrote the outcome of the refunds it was called with.                *)
Closes(seen) ==
  /\ ~AlreadyCancelled /\ Evidence(seen) /\ ~Reversed(seen)
  /\ AlreadyCancelled' /\ bk'.pay = "refunded" /\ bk'.refunded = Total
  /\ op'.st = "completed"
  /\ bk'.ledger = [k \in Key |-> IF seen[k] = "succeeded" THEN "succeeded"
                                                          ELSE bk.ledger[k]]

LEMMA FinalizeFacts ==
  ASSUME bk \in BookingDoc, spent \in 0..Total, SpentMatchesRefunds, CompletedMeansCancelled,
         op \in Operation, NEW seen, CanFinalize(seen), Finalize(seen)
  PROVE  /\ Settled
         /\ op' \in Operation
         /\ op'.attempted = op.attempted
         /\ \/ Closes(seen)
            \/ UNCHANGED bk /\ AlreadyCancelled /\ op'.st = "completed"
<1>1. /\ op' \in Operation /\ op'.attempted = op.attempted
      /\ op'.st = IF op.st = "none" /\ AlreadyCancelled THEN op.st ELSE "completed"
  BY DEF Finalize, Operation
<1>2. op'.st = "completed"
  BY <1>1 DEF CompletedMeansCancelled
<1>3. bk.refunded \in 0..Total /\ Total \in Nat
  BY TotalAssumption DEF BookingDoc
<1>4. CASE AlreadyCancelled
  <2>1. UNCHANGED <<bk, spent>>
    BY <1>4 DEF Finalize
  <2>2. Settled
    BY <1>3, <2>1 DEF Settled, SpentMatchesRefunds
  <2> QED BY <1>1, <1>2, <1>4, <2>1, <2>2
<1>5. CASE ~AlreadyCancelled
  <2> DEFINE ledger == [k \in Key |-> IF seen[k] = "succeeded" THEN "succeeded"
                                                               ELSE bk.ledger[k]]
  <2>1. /\ spent' = spent - (Total - bk.refunded)
        /\ bk' = [bk EXCEPT
              !.status = "cancelled", !.pay = "refunded", !.refunded = Total,
              !.released = TRUE, !.cancelReq = TRUE, !.ledger = ledger]
    BY <1>5 DEF Finalize
  <2>2. ledger \in [Key -> LedgerStatus]
    BY DEF BookingDoc, LedgerStatus
  <2> HIDE DEF ledger
  <2>3. /\ bk'.status = "cancelled" /\ bk'.pay = "refunded" /\ bk'.refunded = Total
        /\ bk'.released = TRUE /\ bk'.ledger = ledger
    BY <2>1 DEF BookingDoc
  <2>4. bk' \in BookingDoc
    <3>1. Total \in 0..Total
      BY <1>3
    <3> QED BY <2>1, <2>2, <3>1 DEF BookingDoc
  <2>5. spent' \in 0..Total /\ SpentMatchesRefunds'
    BY <1>3, <2>1, <2>3 DEF SpentMatchesRefunds
  <2>6. Settled
    BY <1>3, <2>3, <2>4, <2>5 DEF Settled
  <2>7. Closes(seen)
    BY <1>2, <1>5, <2>3 DEF CanFinalize, Closes, AlreadyCancelled, ledger
  <2> QED BY <1>1, <2>6, <2>7
<1> QED BY <1>4, <1>5

-----------------------------------------------------------------------------
(* Types.  A process in flight holds what its state says it holds.         *)
LEMMA IdleTyped ==
  /\ IdleWorker \in WorkerState /\ IdleHook \in HookState /\ IdleAdmin \in AdminState
  /\ NothingSeen \in [Key -> LedgerStatus]
<1>1. NothingSeen \in [Key -> LedgerStatus]
  BY DEF NothingSeen, LedgerStatus
<1>2. 0 \in 0..Total /\ 0 \in Nat
  BY TotalAssumption
<1> QED
  BY <1>1, <1>2 DEF IdleWorker, IdleHook, IdleAdmin, WorkerState, HookState, AdminState

(* A worker that goes on takes its listing and an amount along.            *)
LEMMA MovesTyped ==
  ASSUME NEW r \in WorkerState, NEW seen \in [Key -> LedgerStatus], NEW n \in 0..Total,
         NEW pc \in {"attempt", "finalize"}
  PROVE  /\ [r EXCEPT !.pc = pc, !.amount = n, !.seen = seen] \in WorkerState
         /\ [r EXCEPT !.pc = pc, !.seen = seen, !.amount = n] \in WorkerState
BY DEF WorkerState

(* A worker that gives up keeps nothing of what it listed.                 *)
LEMMA FailsTyped ==
  ASSUME wk \in [Worker -> WorkerState], NEW w \in Worker, NEW t \in BOOLEAN, Fails(w, t)
  PROVE  /\ wk' \in [Worker -> WorkerState]
         /\ wk'[w].pc = "error" /\ wk'[w].seen = NothingSeen
<1>1. [IdleWorker EXCEPT !.pc = "error", !.terminal = t, !.last = wk[w].last] \in WorkerState
  BY IdleTyped DEF WorkerState
<1> QED BY <1>1 DEF Fails, Becomes, IdleWorker

(* A refund Stripe takes in is one of at most the price.                   *)
LEMMA AcceptTyped ==
  ASSUME refund \in [Key -> Refund], NEW k, NEW a \in 1..Total,
         NEW st \in {"pending", "succeeded"}, Accept(k, a, st)
  PROVE  refund' \in [Key -> Refund]
<1>1. [st |-> st, amt |-> a] \in Refund
  BY TotalAssumption DEF Refund, RefundStatus, LedgerStatus
<1> QED BY <1>1 DEF Accept

(* The workers' steps.                                                     *)
LEMMA WorkTyped ==
  ASSUME TypeOK, SpentMatchesRefunds, CompletedMeansCancelled, NEW w \in Worker,
         Work(w) \/ WorkerThrows(w) \/ WorkerDies(w)
  PROVE  TypeOK'
<1>0. /\ bk \in BookingDoc /\ spent \in 0..Total /\ op \in Operation
      /\ refund \in [Key -> Refund] /\ dirty \in BOOLEAN
      /\ wk \in [Worker -> WorkerState] /\ hk \in [Hook -> HookState]
      /\ ad \in [Admin -> AdminState]
  BY DEF TypeOK
<1>t. wk[w] \in WorkerState /\ IdleWorker \in WorkerState
  BY <1>0, IdleTyped
<1>1. ASSUME WorkerClaim(w) PROVE TypeOK'
  <2> DEFINE n == IF op.attempts < MaxAttempts THEN op.attempts + 1 ELSE MaxAttempts
  <2>1. n \in 0..MaxAttempts /\ op.attempted \in BOOLEAN
    BY <1>0, MaxAttemptsAssumption DEF Operation
  <2>2. /\ op' = [op EXCEPT !.st = "processing", !.holder = w, !.expired = FALSE,
                            !.attempts = n]
        /\ wk' = [wk EXCEPT ![w] = [IdleWorker EXCEPT !.pc = "read",
                     !.attempted = op.attempted, !.last = (n = MaxAttempts)]]
        /\ UNCHANGED <<bk, spent, refund, dirty, hk, ad>>
    BY <1>1 DEF WorkerClaim, Becomes
  <2> HIDE DEF n
  <2>3. op' \in Operation
    BY <1>0, <2>1, <2>2 DEF Operation
  <2>4. wk' \in [Worker -> WorkerState]
    BY <1>0, <1>t, <2>1, <2>2 DEF WorkerState
  <2> QED BY <1>0, <2>2, <2>3, <2>4 DEF TypeOK
<1>2. ASSUME WorkerRead(w) PROVE TypeOK'
  <2>1. wk' \in [Worker -> WorkerState]
    <3>1. CASE Fails(w, TRUE)
      BY <1>0, <3>1, FailsTyped
    <3>2. [wk[w] EXCEPT !.pc = "finalize"] \in WorkerState
          /\ [wk[w] EXCEPT !.pc = "list"] \in WorkerState
      BY <1>t DEF WorkerState
    <3> QED BY <1>0, <1>2, <3>1, <3>2 DEF WorkerRead, Becomes
  <2> QED BY <1>0, <1>2, <2>1 DEF WorkerRead, TypeOK
<1>3. ASSUME WorkerList(w) PROVE TypeOK'
  <2> DEFINE left == Total - SucceededIn(Seen)
  <2>1. Seen \in [Key -> LedgerStatus] /\ left \in Int /\ left <= Total
    BY <1>0, SeenFacts, SumsNat, TotalAssumption
  <2>2. \/ \E t \in BOOLEAN : Fails(w, t)
        \/ ~(left <= 0) /\ wk' = [wk EXCEPT ![w] =
              [wk[w] EXCEPT !.pc = "attempt", !.amount = left, !.seen = Seen]]
        \/ wk' = [wk EXCEPT ![w] = [wk[w] EXCEPT !.pc = "finalize", !.seen = Seen]]
    BY <1>3 DEF WorkerList, Becomes
  <2> HIDE DEF left
  <2>3. wk' \in [Worker -> WorkerState]
    <3>1. CASE \E t \in BOOLEAN : Fails(w, t)
      BY <1>0, <3>1, FailsTyped
    <3>2. ASSUME ~(left <= 0) PROVE left \in 0..Total
      BY <2>1, <3>2, TotalAssumption
    <3>3. ~(left <= 0) =>
            [wk[w] EXCEPT !.pc = "attempt", !.amount = left, !.seen = Seen] \in WorkerState
      BY <1>t, <2>1, <3>2, MovesTyped
    <3>4. [wk[w] EXCEPT !.pc = "finalize", !.seen = Seen] \in WorkerState
      BY <1>t, <2>1 DEF WorkerState
    <3> QED BY <1>0, <2>2, <3>1, <3>3, <3>4
  <2> QED BY <1>0, <1>3, <2>3 DEF WorkerList, TypeOK
<1>4. ASSUME WorkerAttempt(w) PROVE TypeOK'
  <2>1. wk' \in [Worker -> WorkerState]
    <3>1. [wk[w] EXCEPT !.pc = "refund"] \in WorkerState
      BY <1>t DEF WorkerState
    <3> QED BY <1>0, <1>t, <1>4, <3>1 DEF WorkerAttempt, Becomes
  <2>2. op' \in Operation
    BY <1>0, <1>4 DEF WorkerAttempt, Operation
  <2> QED BY <1>0, <1>4, <2>1, <2>2 DEF WorkerAttempt, TypeOK
<1>5. ASSUME WorkerRefund(w) PROVE TypeOK'
  <2>1. ASSUME NEW st \in {"pending", "succeeded"}, Accept(Cancel, wk[w].amount, st)
        PROVE  refund' \in [Key -> Refund]
    <3>1. [st |-> st, amt |-> wk[w].amount] \in Refund
      BY <1>t, <2>1 DEF Refund, RefundStatus, LedgerStatus, WorkerState
    <3> QED BY <1>0, <2>1, <3>1 DEF Accept
  <2>2. refund' \in [Key -> Refund] /\ dirty' \in BOOLEAN
    BY <1>0, <1>5, <2>1 DEF WorkerRefund
  <2>3. ASSUME NEW st \in {"pending", "succeeded"},
               Becomes(w, [wk[w] EXCEPT !.pc = "finalize", !.seen[Cancel] = st, !.amount = 0])
        PROVE  wk' \in [Worker -> WorkerState]
    <3> DEFINE seen == [wk[w].seen EXCEPT ![Cancel] = st]
    <3>1. wk[w].seen \in [Key -> LedgerStatus] /\ st \in LedgerStatus /\ 0 \in 0..Total
      BY <1>t, TotalAssumption DEF WorkerState, LedgerStatus
    <3>2. seen \in [Key -> LedgerStatus]
      BY <3>1
    <3>3. wk' = [wk EXCEPT ![w] = [wk[w] EXCEPT !.pc = "finalize", !.seen = seen, !.amount = 0]]
      BY <2>3 DEF Becomes
    <3> HIDE DEF seen
    <3> QED BY <1>0, <1>t, <3>1, <3>2, <3>3, MovesTyped
  <2>4. wk' \in [Worker -> WorkerState]
    BY <1>0, <1>5, <2>3, FailsTyped DEF WorkerRefund
  <2> QED BY <1>0, <1>5, <2>2, <2>4 DEF WorkerRefund, TypeOK
<1>6. ASSUME WorkerFinalize(w) PROVE TypeOK'
  <2> DEFINE seen == wk[w].seen
  <2>1. \/ CanFinalize(seen) /\ Finalize(seen) /\ Becomes(w, IdleWorker)
        \/ Fails(w, FinalizeTerminal(seen)) /\ UNCHANGED <<bk, spent, op>>
    BY <1>6 DEF WorkerFinalize
  <2>2. FinalizeTerminal(seen) \in BOOLEAN
    BY DEF FinalizeTerminal
  <2> HIDE DEF seen
  <2>3. bk' \in BookingDoc /\ spent' \in 0..Total /\ op' \in Operation
    BY <1>0, <2>1, FinalizeFacts DEF Settled
  <2>4. wk' \in [Worker -> WorkerState]
    BY <1>0, <1>t, <2>1, <2>2, FailsTyped DEF Becomes
  <2> QED BY <1>0, <1>6, <2>3, <2>4 DEF WorkerFinalize, TypeOK
<1>7. ASSUME WorkerError(w) PROVE TypeOK'
  <2>1. op' \in Operation
    BY <1>0, <1>7 DEF WorkerError, Operation
  <2>2. wk' \in [Worker -> WorkerState]
    BY <1>0, <1>t, <1>7 DEF WorkerError, Becomes
  <2> QED BY <1>0, <1>7, <2>1, <2>2 DEF WorkerError, TypeOK
<1>8. ASSUME WorkerThrows(w) PROVE TypeOK'
  BY <1>0, <1>8, FailsTyped DEF WorkerThrows, TypeOK
<1>9. ASSUME WorkerDies(w) PROVE TypeOK'
  <2>1. wk' \in [Worker -> WorkerState]
    BY <1>0, <1>t, <1>9 DEF WorkerDies, Becomes, WorkerState
  <2> QED BY <1>0, <1>9, <2>1 DEF WorkerDies, TypeOK
<1> QED BY <1>1, <1>2, <1>3, <1>4, <1>5, <1>6, <1>7, <1>8, <1>9 DEF Work

(* The deliveries' steps.                                                  *)
LEMMA HookTyped ==
  ASSUME TypeOK, SpentMatchesRefunds, CompletedMeansCancelled, NEW h \in Hook,
         Hooked(h) \/ HookDies(h)
  PROVE  TypeOK'
<1>0. /\ bk \in BookingDoc /\ spent \in 0..Total /\ op \in Operation
      /\ refund \in [Key -> Refund] /\ dirty \in BOOLEAN
      /\ wk \in [Worker -> WorkerState] /\ hk \in [Hook -> HookState]
      /\ ad \in [Admin -> AdminState]
  BY DEF TypeOK
<1>t. hk[h] \in HookState /\ IdleHook \in HookState
  BY <1>0, IdleTyped
<1>1. ASSUME HookRead(h) PROVE TypeOK'
  <2>1. [IdleHook EXCEPT !.pc = "list", !.open = Open] \in HookState
    BY <1>t DEF HookState, Open
  <2> QED BY <1>0, <1>1, <2>1 DEF HookRead, HookBecomes, TypeOK
<1>2. ASSUME HookList(h) PROVE TypeOK'
  <2>1. [hk[h] EXCEPT !.pc = "ledger", !.seen = Seen] \in HookState
    BY <1>0, <1>t, SeenFacts DEF HookState
  <2> QED BY <1>0, <1>2, <2>1 DEF HookList, HookBecomes, TypeOK
<1>3. ASSUME HookLedger(h) PROVE TypeOK'
  <2> DEFINE ledger == [k \in Key |-> Recorded(bk.ledger[k], hk[h].seen[k])]
  <2>1. ledger \in [Key -> LedgerStatus]
    BY <1>0, <1>t DEF Recorded, BookingDoc, HookState
  <2>2. bk' = [bk EXCEPT !.ledger = ledger]
    BY <1>0, <1>3 DEF HookLedger, BookingDoc
  <2> HIDE DEF ledger
  <2>3. bk' \in BookingDoc
    BY <1>0, <2>1, <2>2 DEF BookingDoc
  <2>4. [hk[h] EXCEPT !.pc = "settle"] \in HookState
    BY <1>t DEF HookState
  <2> QED BY <1>0, <1>3, <2>3, <2>4 DEF HookLedger, HookBecomes, TypeOK
<1>4. ASSUME HookSettle(h) PROVE TypeOK'
  <2> DEFINE seen == hk[h].seen
  <2>1. \/ CanFinalize(seen) /\ Finalize(seen) /\ UNCHANGED dirty
        \/ dirty' = TRUE /\ UNCHANGED <<bk, spent, op>>
        \/ ApplyTotal(SucceededIn(seen)) /\ UNCHANGED <<op, dirty>>
        \/ UNCHANGED <<bk, spent, op, dirty>>
    BY <1>4 DEF HookSettle
  <2>2. SucceededIn(seen) \in Nat
    BY SumsNat
  <2> HIDE DEF seen
  <2>3. bk' \in BookingDoc /\ spent' \in 0..Total /\ op' \in Operation /\ dirty' \in BOOLEAN
    BY <1>0, <2>1, <2>2, FinalizeFacts, ApplyTotalFacts DEF Settled
  <2>4. hk' \in [Hook -> HookState]
    BY <1>0, <1>t, <1>4 DEF HookSettle, HookBecomes
  <2> QED BY <1>0, <1>4, <2>3, <2>4 DEF HookSettle, TypeOK
<1>5. ASSUME HookDies(h) PROVE TypeOK'
  <2>1. [IdleHook EXCEPT !.pc = "dead"] \in HookState
    BY <1>t DEF HookState
  <2> QED BY <1>0, <1>5, <2>1 DEF HookDies, HookBecomes, TypeOK
<1> QED BY <1>1, <1>2, <1>3, <1>4, <1>5 DEF Hooked

(* The admin requests' steps.                                              *)
LEMMA AdminTyped ==
  ASSUME TypeOK, SpentMatchesRefunds, AdminsKnow, NEW a \in Admin, Administer(a)
  PROVE  TypeOK'
<1>0. /\ bk \in BookingDoc /\ spent \in 0..Total /\ op \in Operation
      /\ refund \in [Key -> Refund] /\ dirty \in BOOLEAN
      /\ wk \in [Worker -> WorkerState] /\ hk \in [Hook -> HookState]
      /\ ad \in [Admin -> AdminState]
  BY DEF TypeOK
<1>t. ad[a] \in AdminState /\ IdleAdmin \in AdminState /\ Amounts \subseteq 0..Total
  BY <1>0, IdleTyped, AmountsAssumption, TotalAssumption
<1>a. ad[a].pc # "idle" => ad[a].amount \in 1..Total
  BY AmountsAssumption DEF AdminsKnow
<1>1. ASSUME AdminRead(a) PROVE TypeOK'
  <2>1. \A n \in Amounts : [IdleAdmin EXCEPT !.pc = "create", !.amount = n] \in AdminState
    BY <1>t DEF AdminState
  <2> QED BY <1>0, <1>1, <2>1 DEF AdminRead, AdminBecomes, TypeOK
<1>2. ASSUME AdminCreate(a) PROVE TypeOK'
  <2>1. \A st \in {"pending", "succeeded"} :
          [ad[a] EXCEPT !.pc = "ledger", !.answer = st] \in AdminState
    BY <1>t DEF AdminState
  <2>2. ad' \in [Admin -> AdminState]
    BY <1>0, <1>t, <1>2, <2>1 DEF AdminCreate, AdminBecomes, Stored
  <2>3. refund' \in [Key -> Refund] /\ dirty' \in BOOLEAN
    BY <1>0, <1>a, <1>2, AcceptTyped DEF AdminCreate
  <2> QED BY <1>0, <1>2, <2>2, <2>3 DEF AdminCreate, TypeOK
<1>3. ASSUME AdminLedger(a) PROVE TypeOK'
  <2> DEFINE k == AdminKey(ad[a].amount)
             ledger == [bk.ledger EXCEPT ![k] = Recorded(@, ad[a].answer)]
  <2>1. ledger \in [Key -> LedgerStatus]
    BY <1>0, <1>t DEF Recorded, BookingDoc, AdminState, LedgerStatus
  <2>2. bk' = [bk EXCEPT !.ledger = ledger]
    BY <1>0, <1>3 DEF AdminLedger, BookingDoc
  <2> HIDE DEF ledger
  <2>3. bk' \in BookingDoc
    BY <1>0, <2>1, <2>2 DEF BookingDoc
  <2>4. [ad[a] EXCEPT !.pc = "sum"] \in AdminState
    BY <1>t DEF AdminState
  <2> QED BY <1>0, <1>t, <1>3, <2>3, <2>4 DEF AdminLedger, AdminBecomes, TypeOK
<1>4. ASSUME AdminSum(a) PROVE TypeOK'
  <2>1. [ad[a] EXCEPT !.pc = "apply", !.sum = SucceededIn(Seen)] \in AdminState
    BY <1>t, SumsNat DEF AdminState
  <2> QED BY <1>0, <1>4, <2>1 DEF AdminSum, AdminBecomes, TypeOK
<1>5. ASSUME AdminApply(a) PROVE TypeOK'
  <2>1. ad[a].sum \in Nat
    BY <1>t DEF AdminState
  <2>2. bk' \in BookingDoc /\ spent' \in 0..Total
    BY <1>0, <1>5, <2>1, ApplyTotalFacts DEF AdminApply, Settled
  <2> QED BY <1>0, <1>t, <1>5, <2>2 DEF AdminApply, AdminBecomes, TypeOK
<1>6. ASSUME AdminDies(a) PROVE TypeOK'
  BY <1>0, <1>t, <1>6 DEF AdminDies, AdminBecomes, TypeOK
<1> QED BY <1>1, <1>2, <1>3, <1>4, <1>5, <1>6 DEF Administer

(* Stripe's steps and the booking's own.                                   *)
LEMMA OutsideTyped ==
  ASSUME TypeOK, Stripe \/ AdminStatus \/ RequestCancel \/ LeaseExpires
  PROVE  TypeOK'
<1>0. /\ bk \in BookingDoc /\ op \in Operation /\ refund \in [Key -> Refund]
  BY DEF TypeOK
<1>1. ASSUME NEW k \in Key, RefundSettles(k) \/ RefundReverses(k) PROVE TypeOK'
  <2>1. \A st \in {"succeeded", "failed", "reversed"} :
          [refund[k] EXCEPT !.st = st] \in Refund
    BY <1>0 DEF Refund, RefundStatus, LedgerStatus
  <2>2. refund' \in [Key -> Refund]
    BY <1>0, <1>1, <2>1 DEF RefundSettles, RefundReverses
  <2> QED BY <1>1, <2>2 DEF RefundSettles, RefundReverses, TypeOK
<1>2. ASSUME NEW f \in Foreign, DashboardRefund(f) PROVE TypeOK'
  <2>1. \A n \in 1..Refundable : n \in 1..Total
    BY SumsNat, TotalAssumption
  <2>2. refund' \in [Key -> Refund]
    BY <1>0, <1>2, <2>1, AcceptTyped DEF DashboardRefund
  <2> QED BY <1>2, <2>2 DEF DashboardRefund, TypeOK
<1>3. ASSUME AdminStatus PROVE TypeOK'
  <2>1. bk' \in BookingDoc
    BY <1>0, <1>3 DEF AdminStatus, BookingDoc
  <2> QED BY <1>3, <2>1 DEF AdminStatus, TypeOK
<1>4. ASSUME RequestCancel PROVE TypeOK'
  <2>1. bk' \in BookingDoc
    BY <1>0, <1>4 DEF RequestCancel, BookingDoc
  <2>2. op' \in Operation
    BY <1>0, <1>4 DEF RequestCancel, Operation
  <2> QED BY <1>4, <2>1, <2>2 DEF RequestCancel, TypeOK
<1>5. ASSUME LeaseExpires PROVE TypeOK'
  <2>1. op' \in Operation
    BY <1>0, <1>5 DEF LeaseExpires, Operation
  <2> QED BY <1>5, <2>1 DEF LeaseExpires, TypeOK
<1> QED BY <1>1, <1>2, <1>3, <1>4, <1>5 DEF Stripe

(* Every step keeps the types.                                             *)
LEMMA TypeStep == IInv /\ [Next]_vars => TypeOK'
<1> SUFFICES ASSUME IInv, [Next]_vars PROVE TypeOK'
  OBVIOUS
<1>1. CASE UNCHANGED vars
  BY <1>1 DEF IInv, TypeOK, vars
<1>2. CASE Next
  BY <1>2, WorkTyped, HookTyped, AdminTyped, OutsideTyped
     DEF Next, Death, IInv, Facts
<1> QED BY <1>1, <1>2

-----------------------------------------------------------------------------
(* A refund only advances at Stripe, so what happened to it has happened   *)
(* for good; and the cancellation refund is the workers' alone to create.  *)
Advances(k) ==
  \/ refund'[k].st = refund[k].st
  \/ refund[k].st = "none"
  \/ refund[k].st = "pending" /\ refund'[k].st \in {"succeeded", "failed"}
  \/ refund[k].st = "succeeded" /\ refund'[k].st = "reversed"

CancelUnasked ==
  refund[Cancel].st = "none" =>
    \/ refund'[Cancel].st = "none"
    \/ \E w \in Worker : wk[w].pc = "refund" /\ wk'[w].pc # "refund"

(* Every step advances a refund or leaves it where it is.                  *)
LEMMA RefundSteps ==
  IInv /\ [Next]_vars => CancelUnasked /\ \A k \in Key : Advances(k)
<1> SUFFICES ASSUME IInv, [Next]_vars PROVE CancelUnasked /\ \A k \in Key : Advances(k)
  OBVIOUS
<1>0. refund \in [Key -> Refund] /\ wk \in [Worker -> WorkerState] /\ Cancel \in Key
  BY Keys DEF IInv, TypeOK
<1>1. CASE UNCHANGED refund
  BY <1>1 DEF Advances, CancelUnasked
<1>2. ASSUME NEW k \in Key, RefundSettles(k) \/ RefundReverses(k)
      PROVE  CancelUnasked /\ \A j \in Key : Advances(j)
  <2>1. /\ refund[k].st \in {"pending", "succeeded"}
        /\ \E st : refund' = [refund EXCEPT ![k].st = st]
    BY <1>2 DEF RefundSettles, RefundReverses
  <2>2. \A j \in Key : j # k => refund'[j].st = refund[j].st
    BY <1>0, <2>1
  <2>3. Advances(k)
    BY <1>0, <1>2 DEF RefundSettles, RefundReverses, Advances, Refund
  <2> QED BY <1>0, <2>1, <2>2, <2>3 DEF Advances, CancelUnasked
<1>3. ASSUME NEW f \in Foreign, DashboardRefund(f)
      PROVE  CancelUnasked /\ \A j \in Key : Advances(j)
  BY <1>0, <1>3, Keys DEF DashboardRefund, Accept, Advances, CancelUnasked
<1>4. ASSUME NEW w \in Worker, WorkerRefund(w)
      PROVE  CancelUnasked /\ \A j \in Key : Advances(j)
  <2>1. wk[w].pc = "refund" /\ wk'[w].pc # "refund"
    <3>1. CASE \E t : Fails(w, t)
      BY <1>0, <1>4, <3>1 DEF WorkerRefund, Fails, Becomes, IdleWorker
    <3>2. ASSUME NEW st, Becomes(w, [wk[w] EXCEPT !.pc = "finalize", !.seen[Cancel] = st,
                                                  !.amount = 0])
          PROVE  wk'[w].pc = "finalize"
      BY <1>0, <3>2 DEF Becomes, WorkerState
    <3> QED BY <1>4, <3>1, <3>2 DEF WorkerRefund
  <2> QED BY <1>0, <1>4, <2>1 DEF WorkerRefund, Accept, Advances, CancelUnasked
<1>5. ASSUME NEW a \in Admin, AdminCreate(a)
      PROVE  CancelUnasked /\ \A j \in Key : Advances(j)
  <2>1. ad[a].amount \in Amounts
    BY <1>5 DEF AdminCreate, IInv, AdminsKnow
  <2>2. AdminKey(ad[a].amount) # Cancel
    BY <2>1, Keys
  <2> QED
    BY <1>0, <1>5, <2>2 DEF AdminCreate, Accept, Advances, CancelUnasked
<1> QED
  BY <1>1, <1>2, <1>3, <1>4, <1>5
     DEF Next, vars, Work, WorkerClaim, WorkerRead, WorkerList, WorkerAttempt, WorkerFinalize,
         WorkerError, WorkerThrows, Hooked, HookRead, HookList, HookLedger, HookSettle,
         Administer, AdminRead, AdminLedger, AdminSum, AdminApply, AdminDies, Stripe,
         AdminStatus, RequestCancel, LeaseExpires, Death, WorkerDies, HookDies

(* What is true of a refund for an answer to have said it stays true.      *)
LEMMA Lasting ==
  ASSUME IInv, [Next]_vars, NEW k \in Key, NEW st \in LedgerStatus, Happened(k, st)
  PROVE  Happened(k, st)'
<1>1. Advances(k)
  BY RefundSteps
<1> QED BY <1>1 DEF Advances, Happened, LedgerStatus

(* What workers know.                                                      *)
LEMMA WorkersStep == IInv /\ [Next]_vars => WorkersKnow'
<1> SUFFICES ASSUME IInv, [Next]_vars, NEW w \in Worker, NEW k \in Key,
                    NEW st, st = wk'[w].seen[k]
             PROVE  Happened(k, st)'
  BY DEF WorkersKnow, Happened
<1>0. /\ wk \in [Worker -> WorkerState] /\ refund \in [Key -> Refund] /\ Cancel \in Key
      /\ \A v \in Worker : wk[v].seen \in [Key -> LedgerStatus]
  BY Keys DEF IInv, TypeOK, WorkerState
<1>a. wk[w].seen[k] \in LedgerStatus /\ Happened(k, wk[w].seen[k])
  BY <1>0 DEF IInv, WorkersKnow
<1>1. CASE wk'[w].seen[k] = wk[w].seen[k]
  BY <1>1, <1>a, Lasting
<1>2. CASE wk'[w].seen = NothingSeen
  BY <1>2 DEF NothingSeen, Happened
<1>3. CASE UNCHANGED refund /\ wk'[w].seen = Seen
  <2>1. Happened(k, Seen[k]) /\ Seen[k] \in LedgerStatus
    BY <1>0, SeenFacts
  <2> QED BY <1>3, <2>1 DEF Happened
<1>4. CASE /\ wk'[w].seen = [wk[w].seen EXCEPT ![Cancel] = "succeeded"]
           /\ refund'[Cancel].st = "succeeded"
  BY <1>0, <1>1, <1>4 DEF Happened
<1> DEFINE Cases ==
      \/ wk'[w].seen[k] = wk[w].seen[k] \/ wk'[w].seen = NothingSeen
      \/ UNCHANGED refund /\ wk'[w].seen = Seen
      \/ /\ wk'[w].seen = [wk[w].seen EXCEPT ![Cancel] = "succeeded"]
         /\ refund'[Cancel].st = "succeeded"
<1>5. ASSUME NEW v \in Worker, v # w, Work(v) \/ WorkerThrows(v) \/ WorkerDies(v)
      PROVE  wk'[w] = wk[w]
  <2>1. \E r : wk' = [wk EXCEPT ![v] = r]
    BY <1>5
       DEF Work, WorkerClaim, WorkerRead, WorkerList, WorkerAttempt, WorkerRefund,
           WorkerFinalize, WorkerError, WorkerThrows, WorkerDies, Fails, Becomes
  <2> QED BY <1>0, <1>5, <2>1
<1>6. ASSUME NEW t, Fails(w, t) PROVE wk'[w].seen = NothingSeen
  BY <1>0, <1>6 DEF Fails, Becomes, IdleWorker
<1>7. ASSUME WorkerList(w) PROVE Cases
  <2>1. \/ \E t : Fails(w, t)
        \/ \E n : wk' = [wk EXCEPT ![w] = [wk[w] EXCEPT !.pc = "attempt",
                                             !.amount = n, !.seen = Seen]]
        \/ wk' = [wk EXCEPT ![w] = [wk[w] EXCEPT !.pc = "finalize", !.seen = Seen]]
    BY <1>7 DEF WorkerList, Becomes
  <2>2. UNCHANGED refund
    BY <1>7 DEF WorkerList
  <2>3. wk[w] \in WorkerState
    BY <1>0
  <2> QED BY <1>0, <1>6, <2>1, <2>2, <2>3 DEF WorkerState
<1>8. ASSUME WorkerRefund(w) PROVE Cases
  <2>1. \/ \E t : Fails(w, t)
        \/ /\ \E n : Accept(Cancel, n, "succeeded")
           /\ wk' = [wk EXCEPT ![w] = [wk[w] EXCEPT !.pc = "finalize",
                                 !.seen[Cancel] = "succeeded", !.amount = 0]]
    BY <1>8 DEF WorkerRefund, Becomes
  <2>2. wk[w] \in WorkerState
    BY <1>0
  <2>3. ASSUME NEW n, Accept(Cancel, n, "succeeded") PROVE refund'[Cancel].st = "succeeded"
    BY <1>0, <2>3 DEF Accept
  <2>4. ASSUME wk' = [wk EXCEPT ![w] = [wk[w] EXCEPT !.pc = "finalize",
                                   !.seen[Cancel] = "succeeded", !.amount = 0]]
        PROVE  wk'[w].seen = [wk[w].seen EXCEPT ![Cancel] = "succeeded"]
    BY <1>0, <2>2, <2>4 DEF WorkerState
  <2> QED BY <1>6, <2>1, <2>3, <2>4
<1>9. ASSUME WorkerRead(w) \/ WorkerAttempt(w) \/ WorkerThrows(w) PROVE Cases
  <2>1. \/ \E t : Fails(w, t)
        \/ \E pc : wk' = [wk EXCEPT ![w] = [wk[w] EXCEPT !.pc = pc]]
        \/ wk' = [wk EXCEPT ![w] = IdleWorker]
    BY <1>9 DEF WorkerRead, WorkerAttempt, WorkerThrows, Becomes
  <2>2. wk[w] \in WorkerState
    BY <1>0
  <2> QED BY <1>0, <1>6, <2>1, <2>2 DEF WorkerState, IdleWorker
<1>10. ASSUME WorkerClaim(w) \/ WorkerFinalize(w) \/ WorkerError(w) \/ WorkerDies(w)
       PROVE  Cases
  <2>1. CASE WorkerClaim(w)
    <3>1. PICK t, l : wk' = [wk EXCEPT ![w] =
                        [IdleWorker EXCEPT !.pc = "read", !.attempted = t, !.last = l]]
      BY <2>1 DEF WorkerClaim, Becomes
    <3> QED BY <1>0, <3>1 DEF IdleWorker
  <2>2. CASE WorkerFinalize(w)
    <3>1. (\E t : Fails(w, t)) \/ wk' = [wk EXCEPT ![w] = IdleWorker]
      BY <2>2 DEF WorkerFinalize, Becomes
    <3> QED BY <1>0, <1>6, <3>1 DEF IdleWorker
  <2>3. CASE WorkerError(w)
    BY <1>0, <2>3 DEF WorkerError, Becomes, IdleWorker
  <2>4. CASE WorkerDies(w)
    BY <1>0, <2>4 DEF WorkerDies, Becomes, IdleWorker
  <2> QED BY <1>10, <2>1, <2>2, <2>3, <2>4
<1>11. ASSUME UNCHANGED wk PROVE Cases
  BY <1>11
<1>12. ASSUME NEW v \in Worker, Work(v) \/ WorkerThrows(v) \/ WorkerDies(v) PROVE Cases
  BY <1>5, <1>7, <1>8, <1>9, <1>10, <1>12 DEF Work
<1>13. (\E v \in Worker : Work(v) \/ WorkerThrows(v) \/ WorkerDies(v)) \/ UNCHANGED wk
  BY DEF Next, vars, Hooked, HookRead, HookList, HookLedger, HookSettle, HookDies,
         Administer, AdminRead, AdminCreate, AdminLedger, AdminSum, AdminApply, AdminDies,
         Stripe, RefundSettles, RefundReverses, DashboardRefund, AdminStatus, RequestCancel,
         LeaseExpires, Death
<1> HIDE DEF Cases
<1>14. Cases
  BY <1>11, <1>12, <1>13
<1> QED BY <1>1, <1>2, <1>3, <1>4, <1>14 DEF Cases

(* What deliveries know.                                                   *)
LEMMA HooksStep == IInv /\ [Next]_vars => HooksKnow'
<1> SUFFICES ASSUME IInv, [Next]_vars, NEW h \in Hook, NEW k \in Key,
                    NEW st, st = hk'[h].seen[k]
             PROVE  Happened(k, st)'
  BY DEF HooksKnow, Happened
<1>0. /\ hk \in [Hook -> HookState] /\ refund \in [Key -> Refund]
      /\ hk[h].seen \in [Key -> LedgerStatus]
  BY DEF IInv, TypeOK, HookState
<1>a. hk[h].seen[k] \in LedgerStatus /\ Happened(k, hk[h].seen[k])
  BY <1>0 DEF IInv, HooksKnow
<1>1. CASE hk'[h].seen = hk[h].seen
  BY <1>1, <1>a, Lasting
<1>2. CASE hk'[h].seen = NothingSeen
  BY <1>2 DEF NothingSeen, Happened
<1>3. CASE UNCHANGED refund /\ hk'[h].seen = Seen
  <2>1. Happened(k, Seen[k])
    BY <1>0, SeenFacts
  <2> QED BY <1>3, <2>1 DEF Happened
<1> DEFINE Cases == \/ hk'[h].seen = hk[h].seen \/ hk'[h].seen = NothingSeen
                    \/ UNCHANGED refund /\ hk'[h].seen = Seen
<1>4. ASSUME NEW g \in Hook, g # h, Hooked(g) \/ HookDies(g) PROVE hk'[h] = hk[h]
  <2>1. \E r : hk' = [hk EXCEPT ![g] = r]
    BY <1>4
       DEF Hooked, HookRead, HookList, HookLedger, HookSettle, HookDies, HookBecomes
  <2> QED BY <1>0, <1>4, <2>1
<1>5. ASSUME Hooked(h) \/ HookDies(h) PROVE Cases
  <2>0. hk[h] \in HookState
    BY <1>0
  <2>1. CASE HookRead(h)
    BY <1>0, <2>1 DEF HookRead, HookBecomes, IdleHook
  <2>2. CASE HookList(h)
    BY <1>0, <2>0, <2>2 DEF HookList, HookBecomes, HookState
  <2>3. CASE HookLedger(h)
    BY <1>0, <2>0, <2>3 DEF HookLedger, HookBecomes, HookState
  <2>4. CASE HookSettle(h)
    BY <1>0, <2>4 DEF HookSettle, HookBecomes, IdleHook
  <2>5. CASE HookDies(h)
    BY <1>0, <2>5 DEF HookDies, HookBecomes, IdleHook
  <2> QED BY <1>5, <2>1, <2>2, <2>3, <2>4, <2>5 DEF Hooked
<1>6. ASSUME UNCHANGED hk PROVE Cases
  BY <1>6
<1>7. (\E g \in Hook : Hooked(g) \/ HookDies(g)) \/ UNCHANGED hk
  BY DEF Next, vars, Work, WorkerClaim, WorkerRead, WorkerList, WorkerAttempt, WorkerRefund,
         WorkerFinalize, WorkerError, WorkerThrows, WorkerDies, Administer, AdminRead,
         AdminCreate, AdminLedger, AdminSum, AdminApply, AdminDies, Stripe, RefundSettles,
         RefundReverses, DashboardRefund, AdminStatus, RequestCancel, LeaseExpires, Death
<1>8. Cases
  BY <1>4, <1>5, <1>6, <1>7
<1> QED BY <1>1, <1>2, <1>3, <1>8

(* What admin requests know.                                               *)
LEMMA AdminsStep == IInv /\ [Next]_vars => AdminsKnow'
<1> SUFFICES ASSUME IInv, [Next]_vars, NEW a \in Admin, ad'[a].pc # "idle",
                    NEW n, n = ad'[a].amount, NEW st, st = ad'[a].answer
             PROVE  n \in Amounts /\ (ad'[a].pc = "ledger" => Happened(AdminKey(n), st)')
  BY DEF AdminsKnow, Happened
<1> DEFINE Knows == n \in Amounts /\ (ad'[a].pc = "ledger" => Happened(AdminKey(n), st)')
<1>0. /\ ad \in [Admin -> AdminState] /\ refund \in [Key -> Refund]
      /\ ad[a] \in AdminState /\ \A m \in Amounts : AdminKey(m) \in Key
  BY Keys DEF IInv, TypeOK
<1>a. ad[a].pc # "idle" =>
        /\ ad[a].amount \in Amounts
        /\ ad[a].pc = "ledger" => Happened(AdminKey(ad[a].amount), ad[a].answer)
  BY DEF IInv, AdminsKnow
<1>1. CASE ad'[a] = ad[a]
  <2>1. st \in LedgerStatus /\ n \in Amounts
    BY <1>0, <1>1, <1>a DEF AdminState, LedgerStatus
  <2> QED BY <1>0, <1>1, <1>a, <2>1, Lasting
<1>2. ASSUME NEW b \in Admin, b # a, Administer(b) PROVE ad'[a] = ad[a]
  <2>1. \E r : ad' = [ad EXCEPT ![b] = r]
    BY <1>2
       DEF Administer, AdminRead, AdminCreate, AdminLedger, AdminSum, AdminApply, AdminDies,
           AdminBecomes
  <2> QED BY <1>0, <1>2, <2>1
<1>3. CASE AdminRead(a)
  BY <1>0, <1>3 DEF AdminRead, AdminBecomes, IdleAdmin
<1>4. CASE AdminCreate(a)
  <2> DEFINE k == AdminKey(ad[a].amount)
  <2>1. ad[a].amount \in Amounts /\ k \in Key
    BY <1>0, <1>4, <1>a DEF AdminCreate
  <2>2. PICK s \in {"pending", "succeeded"} :
          /\ ad' = [ad EXCEPT ![a] = [ad[a] EXCEPT !.pc = "ledger", !.answer = s]]
          /\ \/ UNCHANGED refund /\ s \in Stored(refund[k].st) /\ refund[k].st # "none"
             \/ Accept(k, ad[a].amount, s)
    <3>1. CASE UNCHANGED refund /\ refund[k].st # "none"
      BY <1>4, <3>1 DEF AdminCreate, AdminBecomes, Stored
    <3>2. CASE refund[k].st = "none" /\ ~(ad' = [ad EXCEPT ![a] = IdleAdmin])
      BY <1>4, <3>2 DEF AdminCreate, AdminBecomes
    <3>3. CASE ad' = [ad EXCEPT ![a] = IdleAdmin]
      BY <1>0, <3>3 DEF IdleAdmin
    <3>4. refund[k].st # "none" => UNCHANGED refund
      BY <1>4 DEF AdminCreate
    <3> QED BY <3>1, <3>2, <3>3, <3>4
  <2>3. n = ad[a].amount /\ st = s
    BY <1>0, <2>2 DEF AdminState
  <2>4. \/ UNCHANGED refund /\ s \in Stored(refund[k].st) /\ refund[k].st # "none"
        \/ refund'[k].st = s
    BY <1>0, <2>1, <2>2 DEF Accept
  <2>5. Happened(k, st)'
    BY <2>3, <2>4 DEF Happened, Stored
  <2> QED BY <2>1, <2>3, <2>5
<1>5. CASE AdminLedger(a)
  <2>1. \/ ad' = [ad EXCEPT ![a] = [ad[a] EXCEPT !.pc = "sum"]]
        \/ ad' = [ad EXCEPT ![a] = IdleAdmin]
    BY <1>5 DEF AdminLedger, AdminBecomes
  <2>2. ad[a].amount \in Amounts
    BY <1>5, <1>a DEF AdminLedger
  <2>3. ad' # [ad EXCEPT ![a] = IdleAdmin]
    BY <1>0 DEF IdleAdmin
  <2> QED BY <1>0, <2>1, <2>2, <2>3 DEF AdminState
<1>6. CASE AdminSum(a)
  <2>1. \E m : ad' = [ad EXCEPT ![a] = [ad[a] EXCEPT !.pc = "apply", !.sum = m]]
    BY <1>0, <1>6 DEF AdminSum, AdminBecomes
  <2>2. ad[a].amount \in Amounts
    BY <1>6, <1>a DEF AdminSum
  <2> QED BY <1>0, <2>1, <2>2 DEF AdminState
<1>7. CASE AdminApply(a) \/ AdminDies(a)
  BY <1>0, <1>7 DEF AdminApply, AdminDies, AdminBecomes, IdleAdmin
<1>8. (\E b \in Admin : Administer(b)) \/ UNCHANGED ad
  BY DEF Next, vars, Work, WorkerClaim, WorkerRead, WorkerList, WorkerAttempt, WorkerRefund,
         WorkerFinalize, WorkerError, WorkerThrows, WorkerDies, Hooked, HookRead, HookList,
         HookLedger, HookSettle, HookDies, Stripe, RefundSettles, RefundReverses,
         DashboardRefund, AdminStatus, RequestCancel, LeaseExpires, Death
<1> HIDE DEF Knows
<1>9. Knows
  BY <1>1, <1>2, <1>3, <1>4, <1>5, <1>6, <1>7, <1>8 DEF Administer, Knows
<1> QED BY <1>9 DEF Knows

-----------------------------------------------------------------------------
(* Every step leaves the booking and its command alone, or is one of four. *)
BooksRest ==
  /\ UNCHANGED <<bk, spent>>
  /\ op'.st = "completed" <=> op.st = "completed"

BooksClose ==
  /\ Settled /\ UNCHANGED refund
  /\ \E seen : Closes(seen) /\ \A k \in Key : Happened(k, seen[k])'

BooksApply ==
  /\ Settled
  /\ UNCHANGED op /\ bk'.ledger = bk.ledger /\ bk'.released = bk.released
  /\ bk'.status = bk.status \/ (bk.status \in {"active", "completed"}
                                /\ bk'.status = "refunded")

BooksRecord ==
  /\ UNCHANGED <<spent, op>>
  /\ \E ledger : /\ bk' = [bk EXCEPT !.ledger = ledger]
                 /\ \A k \in Key :
                      \/ ledger[k] = bk.ledger[k]
                      \/ \E st : ledger[k] = Recorded(bk.ledger[k], st) /\ Happened(k, st)'

BooksEdit ==
  /\ UNCHANGED spent
  /\ op.st # "completed" => op'.st # "completed"
  /\ bk.status # "cancelled" /\ bk'.status # "cancelled"
  /\ bk'.ledger = bk.ledger /\ bk'.released = bk.released
  /\ bk'.refunded = bk.refunded /\ bk'.pay = bk.pay

(* Nothing else happens to the books.                                      *)
LEMMA BookSteps ==
  IInv /\ [Next]_vars => BooksRest \/ BooksClose \/ BooksApply \/ BooksRecord \/ BooksEdit
<1> SUFFICES ASSUME IInv, [Next]_vars
             PROVE  BooksRest \/ BooksClose \/ BooksApply \/ BooksRecord \/ BooksEdit
  OBVIOUS
<1>0. /\ bk \in BookingDoc /\ spent \in 0..Total /\ op \in Operation
      /\ SpentMatchesRefunds /\ CompletedMeansCancelled
      /\ wk \in [Worker -> WorkerState] /\ hk \in [Hook -> HookState]
      /\ ad \in [Admin -> AdminState]
  BY DEF IInv, TypeOK, Facts
<1>1. ASSUME NEW seen, CanFinalize(seen), Finalize(seen), UNCHANGED refund,
             \A k \in Key : Happened(k, seen[k])
      PROVE  BooksRest \/ BooksClose
  <2>1. /\ Settled
        /\ \/ Closes(seen)
           \/ UNCHANGED bk /\ AlreadyCancelled /\ op'.st = "completed"
    BY <1>0, <1>1, FinalizeFacts
  <2>2. CASE Closes(seen)
    <3>1. \A k \in Key : Happened(k, seen[k])'
      BY <1>1 DEF Happened
    <3> QED BY <1>1, <2>1, <2>2, <3>1 DEF BooksClose
  <2>3. CASE UNCHANGED bk /\ AlreadyCancelled /\ op'.st = "completed"
    BY <1>0, <1>1, <2>3 DEF Finalize, BooksRest, CompletedMeansCancelled
  <2> QED BY <2>1, <2>2, <2>3
<1>2. ASSUME NEW sum \in Nat, ApplyTotal(sum), UNCHANGED op PROVE BooksApply
  BY <1>0, <1>2, ApplyTotalFacts DEF BooksApply
<1>3. ASSUME NEW w \in Worker, WorkerFinalize(w) PROVE BooksRest \/ BooksClose
  <2>1. \A k \in Key : Happened(k, wk[w].seen[k])
    BY DEF IInv, WorkersKnow
  <2> QED BY <1>1, <1>3, <2>1 DEF WorkerFinalize, BooksRest
<1>4. ASSUME NEW h \in Hook, HookSettle(h) PROVE BooksRest \/ BooksClose \/ BooksApply
  <2>1. \A k \in Key : Happened(k, hk[h].seen[k])
    BY DEF IInv, HooksKnow
  <2>2. SucceededIn(hk[h].seen) \in Nat
    BY SumsNat
  <2> QED BY <1>1, <1>2, <1>4, <2>1, <2>2 DEF HookSettle, BooksRest
<1>5. ASSUME NEW a \in Admin, AdminApply(a) PROVE BooksApply
  <2>1. ad[a].sum \in Nat
    BY <1>0 DEF AdminState
  <2> QED BY <1>2, <1>5, <2>1 DEF AdminApply
<1>6. ASSUME NEW h \in Hook, HookLedger(h) PROVE BooksRecord
  <2> DEFINE ledger == [k \in Key |-> Recorded(bk.ledger[k], hk[h].seen[k])]
  <2>1. bk' = [bk EXCEPT !.ledger = ledger] /\ UNCHANGED <<spent, op, refund>>
    BY <1>0, <1>6 DEF HookLedger, BookingDoc
  <2>2. \A k \in Key : \E st : ledger[k] = Recorded(bk.ledger[k], st) /\ Happened(k, st)'
    <3> SUFFICES ASSUME NEW k \in Key, NEW st, st = hk[h].seen[k]
                 PROVE  ledger[k] = Recorded(bk.ledger[k], st) /\ Happened(k, st)'
      OBVIOUS
    <3> QED BY <2>1 DEF IInv, HooksKnow, Happened
  <2> HIDE DEF ledger
  <2> QED BY <2>1, <2>2 DEF BooksRecord
<1>7. ASSUME NEW a \in Admin, AdminLedger(a) PROVE BooksRecord
  <2> DEFINE key == AdminKey(ad[a].amount)
             ledger == [bk.ledger EXCEPT ![key] = Recorded(@, ad[a].answer)]
  <2>1. bk' = [bk EXCEPT !.ledger = ledger] /\ UNCHANGED <<spent, op, refund>>
    BY <1>0, <1>7 DEF AdminLedger, BookingDoc
  <2>2. ASSUME NEW k \in Key
        PROVE  \/ ledger[k] = bk.ledger[k]
               \/ \E st : ledger[k] = Recorded(bk.ledger[k], st) /\ Happened(k, st)'
    <3>1. CASE k # key
      BY <1>0, <3>1 DEF BookingDoc
    <3>2. CASE k = key
      <4> SUFFICES ASSUME NEW st, st = ad[a].answer
                   PROVE  ledger[k] = Recorded(bk.ledger[k], st) /\ Happened(k, st)'
        OBVIOUS
      <4>1. ledger[k] = Recorded(bk.ledger[k], st)
        BY <1>0, <3>2 DEF BookingDoc
      <4>2. Happened(k, st)
        BY <1>7, <3>2 DEF AdminLedger, IInv, AdminsKnow
      <4> QED BY <2>1, <4>1, <4>2 DEF Happened
    <3> QED BY <3>1, <3>2
  <2> HIDE DEF ledger
  <2> QED BY <2>1, <2>2 DEF BooksRecord
<1>8. ASSUME AdminStatus PROVE BooksEdit
  BY <1>0, <1>8 DEF AdminStatus, BooksEdit, BookingDoc
<1>9. ASSUME RequestCancel PROVE BooksEdit
  BY <1>0, <1>9 DEF RequestCancel, BooksEdit, BookingDoc, Operation
<1>10. ASSUME LeaseExpires PROVE BooksRest
  BY <1>0, <1>10 DEF LeaseExpires, BooksRest, Operation
<1>11. ASSUME NEW w \in Worker, WorkerClaim(w) \/ WorkerAttempt(w) \/ WorkerError(w)
       PROVE  BooksRest
  <2>1. UNCHANGED <<bk, spent>>
    BY <1>11 DEF WorkerClaim, WorkerAttempt, WorkerError
  <2>2. op'.st = "completed" <=> op.st = "completed"
    <3>1. CASE WorkerClaim(w)
      BY <1>0, <3>1 DEF WorkerClaim, Operation
    <3>2. CASE WorkerAttempt(w)
      BY <1>0, <3>2 DEF WorkerAttempt, Operation
    <3>3. CASE WorkerError(w)
      BY <1>0, <3>3 DEF WorkerError, Operation, Holds
    <3> QED BY <1>11, <3>1, <3>2, <3>3
  <2> QED BY <2>1, <2>2 DEF BooksRest
<1>12. CASE UNCHANGED <<bk, spent, op>>
  BY <1>12 DEF BooksRest
<1> QED
  BY <1>3, <1>4, <1>5, <1>6, <1>7, <1>8, <1>9, <1>10, <1>11, <1>12
     DEF Next, vars, Work, WorkerRead, WorkerList, WorkerRefund, WorkerThrows, WorkerDies,
         Hooked, HookRead, HookList, HookDies, Administer, AdminRead, AdminCreate, AdminSum,
         AdminDies, Stripe, RefundSettles, RefundReverses, DashboardRefund, Death

-----------------------------------------------------------------------------
(* The ledger keeps only what happened, and never turns back.              *)
LEMMA LedgerStep == IInv /\ [Next]_vars => LedgerKnows'
<1> SUFFICES ASSUME IInv, [Next]_vars, NEW k \in Key, NEW st, st = bk'.ledger[k]
             PROVE  Happened(k, st)'
  BY DEF LedgerKnows, Happened
<1>0. bk \in BookingDoc /\ bk.ledger[k] \in LedgerStatus /\ Happened(k, bk.ledger[k])
  BY DEF IInv, TypeOK, BookingDoc, LedgerKnows
<1>1. CASE bk'.ledger[k] = bk.ledger[k]
  BY <1>0, <1>1, Lasting
<1>2. CASE BooksClose
  <2>1. PICK seen : Closes(seen) /\ \A j \in Key : Happened(j, seen[j])'
    BY <1>2 DEF BooksClose
  <2>2. (st = "succeeded" /\ seen[k] = "succeeded") \/ st = bk.ledger[k]
    BY <2>1 DEF Closes
  <2> QED BY <1>0, <1>1, <2>1, <2>2 DEF Happened
<1>3. CASE BooksRecord
  <2>1. PICK ledger :
          /\ bk' = [bk EXCEPT !.ledger = ledger]
          /\ \/ ledger[k] = bk.ledger[k]
             \/ \E s : ledger[k] = Recorded(bk.ledger[k], s) /\ Happened(k, s)'
    BY <1>3 DEF BooksRecord
  <2>2. st = ledger[k]
    BY <1>0, <2>1 DEF BookingDoc
  <2> QED BY <1>1, <2>1, <2>2 DEF Recorded, Happened
<1> QED BY <1>1, <1>2, <1>3, BookSteps DEF BooksRest, BooksApply, BooksEdit

Forwards ==
  /\ \A k \in Key :
       /\ bk.ledger[k] = "failed" => bk'.ledger[k] = "failed"
       /\ bk.ledger[k] = "succeeded" => bk'.ledger[k] \in {"succeeded", "failed"}
       /\ bk.ledger[k] = "pending" => bk'.ledger[k] # "none"
  /\ bk'.refunded >= bk.refunded
  /\ bk.pay = "refunded" => bk'.pay = "refunded"
  /\ AlreadyCancelled => AlreadyCancelled'

(* Of the five, only recording and closing touch the ledger, and neither   *)
(* replaces a failure: recording by its rule, closing by looking for it.   *)
LEMMA ForwardStep == IInv /\ [Next]_vars => Forwards
<1> SUFFICES ASSUME IInv, [Next]_vars PROVE Forwards
  OBVIOUS
<1>0. /\ bk \in BookingDoc /\ bk.refunded \in Nat
      /\ \A k \in Key : Happened(k, bk.ledger[k])
  BY TotalAssumption DEF IInv, TypeOK, BookingDoc, LedgerKnows
<1>1. CASE BooksRest \/ BooksApply \/ BooksEdit
  BY <1>0, <1>1
     DEF BooksRest, BooksApply, BooksEdit, Settled, Forwards, AlreadyCancelled
<1>2. CASE BooksClose
  <2>1. PICK seen : Closes(seen) /\ \A k \in Key : Happened(k, seen[k])'
    BY <1>2 DEF BooksClose
  <2>2. ASSUME NEW k \in Key, bk.ledger[k] = "failed" PROVE seen[k] # "succeeded"
    BY <2>1, <2>2 DEF Closes, Reversed
  <2> QED BY <1>0, <1>2, <2>1, <2>2 DEF BooksClose, Closes, Settled, Forwards
<1>3. CASE BooksRecord
  <2>1. PICK ledger :
          /\ bk' = [bk EXCEPT !.ledger = ledger]
          /\ \A k \in Key : \/ ledger[k] = bk.ledger[k]
                            \/ \E st : /\ ledger[k] = Recorded(bk.ledger[k], st)
                                       /\ Happened(k, st)'
    BY <1>3 DEF BooksRecord
  <2>2. /\ bk'.ledger = ledger /\ bk'.refunded = bk.refunded /\ bk'.pay = bk.pay
        /\ bk'.status = bk.status /\ bk'.released = bk.released
    BY <1>0, <2>1 DEF BookingDoc
  <2>3. ASSUME NEW k \in Key
        PROVE  /\ bk.ledger[k] = "failed" => ledger[k] = "failed"
               /\ bk.ledger[k] = "succeeded" => ledger[k] \in {"succeeded", "failed"}
               /\ bk.ledger[k] = "pending" => ledger[k] # "none"
    BY <2>1 DEF Recorded
  <2> QED BY <1>0, <2>2, <2>3 DEF Forwards, AlreadyCancelled
<1> QED BY <1>1, <1>2, <1>3, BookSteps

(* The two books agree, and a closed booking was refunded.                 *)
LEMMA FactsStep ==
  IInv /\ [Next]_vars =>
    SpentMatchesRefunds' /\ ClosedWhole' /\ CompletedMeansCancelled'
<1> SUFFICES ASSUME IInv, [Next]_vars
             PROVE  SpentMatchesRefunds' /\ ClosedWhole' /\ CompletedMeansCancelled'
  OBVIOUS
<1>0. /\ bk \in BookingDoc /\ bk.refunded \in Nat /\ Total \in Nat
      /\ SpentMatchesRefunds /\ ClosedWhole /\ CompletedMeansCancelled
  BY TotalAssumption DEF IInv, TypeOK, Facts, BookingDoc
<1>1. Cancel \in EverSucceeded => Cancel \in EverSucceeded'
  BY Keys, RefundSteps DEF EverSucceeded, Advances
<1>2. CASE BooksRest
  BY <1>0, <1>1, <1>2
     DEF BooksRest, SpentMatchesRefunds, ClosedWhole, Closed, CompletedMeansCancelled,
         AlreadyCancelled
<1>3. CASE BooksClose
  <2>1. PICK seen : Closes(seen) /\ \A k \in Key : Happened(k, seen[k])'
    BY <1>3 DEF BooksClose
  <2>2. Cancel \in EverSucceeded'
    BY <2>1, Keys DEF Closes, Evidence, Happened, EverSucceeded
  <2>3. SpentMatchesRefunds'
    BY <1>0, <1>3 DEF BooksClose, Settled
  <2> QED
    BY <2>1, <2>2, <2>3
       DEF Closes, ClosedWhole, Closed, CompletedMeansCancelled, AlreadyCancelled
<1>4. CASE BooksApply
  <2>1. bk'.refunded \in 0..Total
    BY <1>4 DEF BooksApply, Settled, BookingDoc
  <2>2. bk.refunded = Total => bk'.refunded = Total
    BY <1>0, <1>4, <2>1 DEF BooksApply, Settled
  <2> QED
    BY <1>0, <1>1, <1>4, <2>2
       DEF BooksApply, Settled, ClosedWhole, Closed, CompletedMeansCancelled,
           AlreadyCancelled
<1>5. CASE BooksRecord
  <2>1. /\ bk'.refunded = bk.refunded /\ bk'.pay = bk.pay
        /\ bk'.status = bk.status /\ bk'.released = bk.released
    BY <1>0, <1>5 DEF BooksRecord, BookingDoc
  <2> QED
    BY <1>0, <1>1, <1>5, <2>1
       DEF BooksRecord, SpentMatchesRefunds, ClosedWhole, Closed, CompletedMeansCancelled,
           AlreadyCancelled
<1>6. CASE BooksEdit
  BY <1>0, <1>6
     DEF BooksEdit, SpentMatchesRefunds, ClosedWhole, Closed, CompletedMeansCancelled,
         AlreadyCancelled
<1> QED BY <1>2, <1>3, <1>4, <1>5, <1>6, BookSteps

-----------------------------------------------------------------------------
(* How a worker comes to ask for the cancellation refund.                  *)
Asks(w) ==
  /\ wk[w].pc = "attempt" /\ ~op.attempted /\ op'.attempted
  /\ UNCHANGED refund
  /\ \A v \in Worker \ {w} : wk'[v] = wk[v]

(* A worker is about to write the attempt down only after a listing        *)
(* without the refund, and about to call Stripe only after writing it.     *)
LEMMA AskSteps ==
  ASSUME IInv, [Next]_vars, NEW w \in Worker
  PROVE  /\ op.attempted => op'.attempted
         /\ wk'[w].pc = "attempt" =>
              wk[w].pc = "attempt" \/ (refund[Cancel].st = "none" /\ UNCHANGED refund)
         /\ wk'[w].pc = "refund" => wk[w].pc = "refund" \/ Asks(w)
<1>0. /\ op \in Operation /\ wk \in [Worker -> WorkerState] /\ wk[w] \in WorkerState
      /\ Cancel \in Key
  BY Keys DEF IInv, TypeOK
<1>1. op.attempted => op'.attempted
  <2>1. ASSUME NEW seen, Finalize(seen) PROVE op'.attempted = op.attempted
    BY <1>0, <2>1 DEF Finalize, Operation
  <2>2. ASSUME NEW v \in Worker, WorkerClaim(v) \/ WorkerError(v)
        PROVE  op'.attempted = op.attempted
    <3>1. CASE WorkerClaim(v)
      BY <1>0, <3>1 DEF WorkerClaim, Operation
    <3>2. CASE WorkerError(v)
      BY <1>0, <3>2 DEF WorkerError, Operation
    <3> QED BY <2>2, <3>1, <3>2
  <2>3. ASSUME NEW v \in Worker, WorkerAttempt(v) PROVE op.attempted => op'.attempted
    BY <2>3 DEF WorkerAttempt
  <2>4. ASSUME NEW v \in Worker, WorkerFinalize(v) PROVE op'.attempted = op.attempted
    BY <2>1, <2>4 DEF WorkerFinalize
  <2>5. ASSUME NEW h \in Hook, HookSettle(h) PROVE op'.attempted = op.attempted
    BY <2>1, <2>5 DEF HookSettle
  <2>6. ASSUME RequestCancel \/ LeaseExpires PROVE op'.attempted = op.attempted
    BY <1>0, <2>6 DEF RequestCancel, LeaseExpires, Operation
  <2> QED
    BY <2>2, <2>3, <2>4, <2>5, <2>6
       DEF Next, vars, Work, WorkerRead, WorkerList, WorkerRefund, WorkerThrows, WorkerDies,
           Hooked, HookRead, HookList, HookLedger, HookDies, Administer, AdminRead,
           AdminCreate, AdminLedger, AdminSum, AdminApply, AdminDies, Stripe, RefundSettles,
           RefundReverses, DashboardRefund, AdminStatus, Death
<1>2. ASSUME NEW t, Fails(w, t) PROVE wk'[w].pc = "error"
  BY <1>0, <1>2 DEF Fails, Becomes, IdleWorker
<1>3. ASSUME NEW v \in Worker, v # w, Work(v) \/ WorkerThrows(v) \/ WorkerDies(v)
      PROVE  wk'[w] = wk[w]
  <2>1. \E r : wk' = [wk EXCEPT ![v] = r]
    BY <1>3
       DEF Work, WorkerClaim, WorkerRead, WorkerList, WorkerAttempt, WorkerRefund,
           WorkerFinalize, WorkerError, WorkerThrows, WorkerDies, Fails, Becomes
  <2> QED BY <1>0, <1>3, <2>1
<1>4. CASE WorkerList(w)
  <2>1. \/ \E t : Fails(w, t)
        \/ /\ Seen[Cancel] = "none"
           /\ \E n : wk' = [wk EXCEPT ![w] = [wk[w] EXCEPT !.pc = "attempt",
                                                !.amount = n, !.seen = Seen]]
        \/ wk' = [wk EXCEPT ![w] = [wk[w] EXCEPT !.pc = "finalize", !.seen = Seen]]
    BY <1>4 DEF WorkerList, Becomes
  <2>2. Seen[Cancel] = "none" => refund[Cancel].st = "none"
    BY <1>0 DEF Seen, LedgerOf
  <2>3. UNCHANGED refund
    BY <1>4 DEF WorkerList
  <2>4. wk' = [wk EXCEPT ![w] = [wk[w] EXCEPT !.pc = "finalize", !.seen = Seen]]
          => wk'[w].pc = "finalize"
    BY <1>0 DEF WorkerState
  <2>5. \A n : wk' = [wk EXCEPT ![w] = [wk[w] EXCEPT !.pc = "attempt",
                                               !.amount = n, !.seen = Seen]]
          => wk'[w].pc = "attempt"
    BY <1>0 DEF WorkerState
  <2> QED BY <1>1, <1>2, <2>1, <2>2, <2>3, <2>4, <2>5
<1>5. CASE WorkerAttempt(w)
  <2>1. \/ wk' = [wk EXCEPT ![w] = IdleWorker]
        \/ /\ wk' = [wk EXCEPT ![w] = [wk[w] EXCEPT !.pc = "refund"]]
           /\ wk[w].pc = "attempt" /\ ~op.attempted
           /\ op' = [op EXCEPT !.attempted = TRUE] /\ UNCHANGED refund
    BY <1>5 DEF WorkerAttempt, Becomes
  <2>2. wk' = [wk EXCEPT ![w] = IdleWorker] => wk'[w].pc = "idle"
    BY <1>0 DEF IdleWorker
  <2>3. wk' = [wk EXCEPT ![w] = [wk[w] EXCEPT !.pc = "refund"]] =>
          wk'[w].pc = "refund" /\ \A v \in Worker \ {w} : wk'[v] = wk[v]
    BY <1>0 DEF WorkerState
  <2>4. op' = [op EXCEPT !.attempted = TRUE] => op'.attempted
    BY <1>0 DEF Operation
  <2> QED BY <1>1, <2>1, <2>2, <2>3, <2>4 DEF Asks
<1>6. CASE WorkerRead(w) \/ WorkerRefund(w) \/ WorkerFinalize(w) \/ WorkerThrows(w)
  <2>1. \/ \E t : Fails(w, t)
        \/ \E pc \in {"list", "finalize"} : wk' = [wk EXCEPT ![w] = [wk[w] EXCEPT !.pc = pc]]
        \/ wk' = [wk EXCEPT ![w] = IdleWorker]
        \/ \E st : wk' = [wk EXCEPT ![w] = [wk[w] EXCEPT !.pc = "finalize",
                                              !.seen[Cancel] = st, !.amount = 0]]
    BY <1>6 DEF WorkerRead, WorkerRefund, WorkerFinalize, WorkerThrows, Becomes
  <2>2. wk'[w].pc \in {"error", "list", "finalize", "idle"}
    <3>1. wk' = [wk EXCEPT ![w] = IdleWorker] => wk'[w].pc = "idle"
      BY <1>0 DEF IdleWorker
    <3>2. \A pc : wk' = [wk EXCEPT ![w] = [wk[w] EXCEPT !.pc = pc]] => wk'[w].pc = pc
      BY <1>0 DEF WorkerState
    <3>3. \A st : wk' = [wk EXCEPT ![w] = [wk[w] EXCEPT !.pc = "finalize",
                                       !.seen[Cancel] = st, !.amount = 0]]
                    => wk'[w].pc = "finalize"
      BY <1>0 DEF WorkerState
    <3> QED BY <1>2, <2>1, <3>1, <3>2, <3>3
  <2> QED BY <1>1, <2>2
<1>7. CASE WorkerClaim(w) \/ WorkerError(w) \/ WorkerDies(w)
  <2>1. CASE WorkerClaim(w)
    <3>1. \E t, l : wk' = [wk EXCEPT ![w] =
                      [IdleWorker EXCEPT !.pc = "read", !.attempted = t, !.last = l]]
      BY <2>1 DEF WorkerClaim, Becomes
    <3>2. wk'[w].pc = "read"
      BY <1>0, <3>1 DEF IdleWorker
    <3> QED BY <1>1, <3>2
  <2>2. CASE WorkerError(w)
    BY <1>0, <1>1, <2>2 DEF WorkerError, Becomes, IdleWorker
  <2>3. CASE WorkerDies(w)
    BY <1>0, <1>1, <2>3 DEF WorkerDies, Becomes, IdleWorker
  <2> QED BY <1>7, <2>1, <2>2, <2>3
<1>8. (\E v \in Worker : Work(v) \/ WorkerThrows(v) \/ WorkerDies(v)) \/ UNCHANGED wk
  BY DEF Next, vars, Hooked, HookRead, HookList, HookLedger, HookSettle, HookDies,
         Administer, AdminRead, AdminCreate, AdminLedger, AdminSum, AdminApply, AdminDies,
         Stripe, RefundSettles, RefundReverses, DashboardRefund, AdminStatus, RequestCancel,
         LeaseExpires, Death
<1>9. CASE wk'[w] = wk[w]
  BY <1>1, <1>9
<1> QED BY <1>3, <1>4, <1>5, <1>6, <1>7, <1>8, <1>9 DEF Work

(* So the first to write it down is the only one to call.                  *)
LEMMA AttemptStep == IInv /\ [Next]_vars => FirstAttempt' /\ OneProviderAttempt'
<1> SUFFICES ASSUME IInv, [Next]_vars PROVE FirstAttempt' /\ OneProviderAttempt'
  OBVIOUS
<1>0. FirstAttempt /\ OneProviderAttempt
  BY DEF IInv, Facts
<1>1. CancelUnasked
  BY RefundSteps
<1>2. ASSUME NEW w \in Worker, wk'[w].pc = "attempt", ~op'.attempted
      PROVE  refund'[Cancel].st = "none"
  <2>1. ~op.attempted /\ \A v \in Worker : wk[v].pc # "refund"
    BY <1>0, <1>2, AskSteps DEF OneProviderAttempt
  <2>2. wk[w].pc = "attempt" \/ (refund[Cancel].st = "none" /\ UNCHANGED refund)
    BY <1>2, AskSteps
  <2> QED BY <1>0, <1>1, <2>1, <2>2 DEF FirstAttempt, CancelUnasked
<1>3. ASSUME NEW w \in Worker, wk'[w].pc = "refund"
      PROVE  /\ op'.attempted /\ refund'[Cancel].st = "none"
             /\ \A v \in Worker \ {w} : wk'[v].pc # "refund"
  <2>1. CASE wk[w].pc = "refund"
    <3>1. /\ op.attempted /\ refund[Cancel].st = "none"
          /\ \A v \in Worker \ {w} : wk[v].pc # "refund"
      BY <1>0, <2>1 DEF OneProviderAttempt
    <3>2. op'.attempted /\ refund'[Cancel].st = "none"
      BY <1>1, <1>3, <3>1, AskSteps DEF CancelUnasked
    <3>3. \A v \in Worker \ {w} : wk'[v].pc # "refund"
      BY <3>1, AskSteps DEF Asks
    <3> QED BY <3>2, <3>3
  <2>2. CASE wk[w].pc # "refund"
    <3>1. Asks(w)
      BY <1>3, <2>2, AskSteps
    <3>2. refund[Cancel].st = "none" /\ \A v \in Worker : wk[v].pc # "refund"
      BY <1>0, <3>1 DEF Asks, FirstAttempt, OneProviderAttempt
    <3> QED BY <3>1, <3>2 DEF Asks
  <2> QED BY <2>1, <2>2
<1> QED BY <1>2, <1>3 DEF FirstAttempt, OneProviderAttempt

-----------------------------------------------------------------------------
(* A paid booking starts out so.                                           *)
LEMMA InitIInv == Init => IInv
<1> SUFFICES ASSUME Init PROVE IInv
  OBVIOUS
<1>0. /\ bk = PaidBooking /\ spent = Total /\ op = NoOperation
      /\ wk = [w \in Worker |-> IdleWorker] /\ hk = [h \in Hook |-> IdleHook]
      /\ ad = [a \in Admin |-> IdleAdmin] /\ dirty \in BOOLEAN
  BY DEF Init
<1>1. Total \in Nat /\ 0 \in 0..Total /\ Total \in 0..Total /\ 0 \in 0..MaxAttempts
  BY TotalAssumption, MaxAttemptsAssumption
<1>2. bk \in BookingDoc /\ spent \in 0..Total
  BY <1>0, <1>1, IdleTyped DEF PaidBooking, BookingDoc
<1>3. op \in Operation
  BY <1>0, <1>1 DEF NoOperation, Operation
<1>4. refund \in [Key -> Refund]
  BY <1>1 DEF Init, InitRefund, NoRefund, Refund, RefundStatus, LedgerStatus
<1>5. /\ wk \in [Worker -> WorkerState] /\ hk \in [Hook -> HookState]
      /\ ad \in [Admin -> AdminState]
  BY <1>0, IdleTyped
<1>6. /\ \A w \in Worker : wk[w].pc = "idle" /\ wk[w].seen = NothingSeen
      /\ \A h \in Hook : hk[h].seen = NothingSeen
      /\ \A a \in Admin : ad[a].pc = "idle"
      /\ bk.ledger = NothingSeen
  BY <1>0 DEF IdleWorker, IdleHook, IdleAdmin, PaidBooking
<1>7. WorkersKnow /\ HooksKnow /\ AdminsKnow /\ LedgerKnows
  BY <1>6 DEF WorkersKnow, HooksKnow, AdminsKnow, LedgerKnows, Happened, NothingSeen
<1>8. FirstAttempt /\ OneProviderAttempt
  BY <1>6 DEF FirstAttempt, OneProviderAttempt
<1>9. SpentMatchesRefunds /\ ClosedWhole /\ CompletedMeansCancelled
  BY <1>0, <1>1
     DEF PaidBooking, NoOperation, SpentMatchesRefunds, ClosedWhole, Closed,
         CompletedMeansCancelled, AlreadyCancelled
<1> QED BY <1>0, <1>2, <1>3, <1>4, <1>5, <1>7, <1>8, <1>9 DEF IInv, TypeOK, Facts

(* The invariant of every behaviour.                                       *)
LEMMA Invariance == Spec => []IInv
<1>1. IInv /\ [Next]_vars => IInv'
  BY TypeStep, WorkersStep, HooksStep, AdminsStep, LedgerStep, AttemptStep, FactsStep
     DEF IInv, Facts
<1> QED BY <1>1, InitIInv, PTL DEF Spec

(* Every variable keeps its type: totalSpent never goes below nothing and  *)
(* refundedAmount never above the price, whoever applies what.             *)
THEOREM CancelTyped == Spec => []TypeOK
BY Invariance, PTL DEF IInv

(* Whatever webhooks, admins and workers do to a booking at once, what is  *)
(* taken off totalSpent is what was added to refundedAmount.               *)
THEOREM SpentSafe == Spec => []SpentMatchesRefunds
BY Invariance, PTL DEF IInv, Facts

(* Whoever closes the booking acts on refunds that did succeed and that    *)
(* the ledger does not know to be reversed, and they come to its price.    *)
LEMMA ClosesRepaid ==
  ASSUME IInv, [Next]_vars, Closed', ~Closed
  PROVE  AlreadyCancelled' /\ Cancel \in EverSucceeded /\ Amount(Repaid) >= Total
<1>0. bk \in BookingDoc /\ ~AlreadyCancelled
  BY DEF IInv, TypeOK, Closed, AlreadyCancelled
<1>1. CASE BooksClose
  <2>1. PICK seen : Closes(seen) /\ \A k \in Key : Happened(k, seen[k])'
    BY <1>1 DEF BooksClose
  <2>2. UNCHANGED refund
    BY <1>1 DEF BooksClose
  <2>3. \A k \in Key : seen[k] = "succeeded" => k \in EverSucceeded
    BY <2>1, <2>2 DEF Happened, EverSucceeded
  <2>4. With(seen, {"succeeded"}) \subseteq Repaid /\ Repaid \in SUBSET Key
    BY <2>1, <2>3 DEF Closes, Reversed, With, Repaid, EverSucceeded
  <2>5. Amount(With(seen, {"succeeded"})) <= Amount(Repaid)
    BY <2>4, AmountMonotone
  <2>6. Amount(With(seen, {"succeeded"})) >= Total
    BY <2>1 DEF Closes, Evidence, SucceededIn
  <2>7. Amount(With(seen, {"succeeded"})) \in Nat /\ Amount(Repaid) \in Nat
    BY <2>4, AmountNat DEF With
  <2>8. Amount(Repaid) >= Total
    BY <2>5, <2>6, <2>7, TotalAssumption
  <2>9. Cancel \in EverSucceeded
    BY <2>1, <2>3, Keys DEF Closes, Evidence
  <2> QED BY <2>1, <2>8, <2>9 DEF Closes
<1>2. CASE BooksRest \/ BooksApply \/ BooksEdit
  BY <1>2 DEF BooksRest, BooksApply, BooksEdit, Closed
<1>3. CASE BooksRecord
  BY <1>0, <1>3 DEF BooksRecord, BookingDoc, Closed
<1> QED BY <1>1, <1>2, <1>3, BookSteps

(* A booking is cancelled, and its seats go back on sale, only once the    *)
(* refunds that succeeded at Stripe, without those known to be reversed,   *)
(* come to the whole price, the cancellation's own among them: for any     *)
(* number of refunds, workers, deliveries and admins, however old the list *)
(* they act on.                                                            *)
THEOREM CancelledSafe == Spec => CancelledIsRefunded
<1> DEFINE Backed == Closed' /\ ~Closed =>
             AlreadyCancelled' /\ Cancel \in EverSucceeded /\ Amount(Repaid) >= Total
<1>1. IInv /\ [Next]_vars => [Backed]_bk
  BY ClosesRepaid
<1> QED BY <1>1, Invariance, PTL DEF Spec, CancelledIsRefunded

(* One worker asks for the cancellation refund, once, for any number of    *)
(* workers, takeovers and deaths.                                          *)
THEOREM AttemptSafe == Spec => []OneProviderAttempt
BY Invariance, PTL DEF IInv, Facts

(* The command is completed exactly when its booking is cancelled, also    *)
(* where a webhook finalizes it behind the worker's back.                  *)
THEOREM CommandSafe == Spec => []CompletedMeansCancelled
BY Invariance, PTL DEF IInv, Facts

(* The ledger reports only outcomes the provider reached, although every   *)
(* writer of it works from an answer that may be out of date.              *)
THEOREM LedgerSafe == Spec => []LedgerIsTrue
<1>1. IInv => LedgerIsTrue
  BY DEF IInv, LedgerKnows, LedgerIsTrue, Happened, EverSucceeded
<1> QED BY <1>1, Invariance, PTL

(* No writer takes back a failure, a success, a refunded amount, a refund  *)
(* or a cancellation, in whatever order the deliveries come.               *)
THEOREM NeverBackwardsSafe == Spec => NeverBackwards
<1>1. IInv /\ [Next]_vars => [Forwards]_bk
  BY ForwardStep
<1> QED BY <1>1, Invariance, PTL DEF Spec, NeverBackwards, Forwards

=============================================================================
