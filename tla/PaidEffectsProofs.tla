------------------------- MODULE PaidEffectsProofs -------------------------
(***************************************************************************)
(* Proofs about PaidEffects for any number of workers, addresses and       *)
(* attempts.                                                               *)
(*                                                                         *)
(* AtMostOnce is not inductive: a state in which a mail was taken and a    *)
(* worker is about to send satisfies it.  What rules such states out is    *)
(* that the attempt on record, once a worker is past it, can be taken back *)
(* by nobody but that worker, and only after a 429.  IInv says so.         *)
(***************************************************************************)
EXTENDS PaidEffects, TLAPS

(* Before the payment there is nothing to send and nobody sends it.        *)
Unpaid ==
  booking = "pending" =>
    /\ \A a \in Audience : ev[a].st = "none"
    /\ \A w \in Worker : wk[w].pc = "idle"

(* A record up for a claim has an attempt left and none begun.             *)
Claimable ==
  \A a \in Audience :
    ev[a].st \in {"none", "pending", "retry"} =>
      ~ev[a].attempted /\ ev[a].attempts < MaxAttempts

(* Up to the attempt: the holder knows how many there were, and of none    *)
(* that is begun; the destination it will use is the pinned one.           *)
Preparing ==
  \A w \in Worker :
    LET a == wk[w].a IN
    /\ wk[w].pc \in {"read", "prepare", "start"} /\ Fence(w, a) => ~ev[a].attempted
    /\ wk[w].pc \in {"read", "prepare", "start", "send"} /\ Fence(w, a)
         => wk[w].tries = ev[a].attempts
    /\ wk[w].pc \in {"start", "send"} => wk[w].to \in Address /\ wk[w].to = ev[a].pinned

(* At the provider's door: nothing was sent, the attempt is on record, and *)
(* nobody else has the record.                                             *)
Sending ==
  \A w \in Worker :
    LET a == wk[w].a IN
    wk[w].pc = "send" =>
      /\ ev[a].attempted
      /\ mail[a] = <<>>
      /\ ev[a].st = "processing" => ev[a].holder = w

SoleSender ==
  \A v, w \in Worker :
    wk[v].pc = "send" /\ wk[w].pc = "send" /\ wk[v].a = wk[w].a => v = w

(* A worker that reports knows what it reports.                            *)
Reported ==
  \A w \in Worker :
    LET a == wk[w].a IN
    wk[w].pc = "record" =>
      /\ wk[w].verdict # "none"
      /\ wk[w].verdict = "sent" => mail[a] # <<>>
      /\ wk[w].verdict = "retry" /\ Fence(w, a)
           => mail[a] = <<>> /\ ev[a].attempts < MaxAttempts

(* What was sent was begun, once, and went to the pinned address.          *)
Mailed ==
  \A a \in Audience :
    mail[a] # <<>> =>
      /\ ev[a].attempted
      /\ Len(mail[a]) = 1
      /\ mail[a][1] = ev[a].pinned

(* The ticket's event is part of the record of the attempt.                *)
TicketWithAttempt == ev["customer"].attempted => ev["customer"].ticket

IInv ==
  /\ TypeOK
  /\ Unpaid /\ Claimable
  /\ Preparing /\ Sending /\ SoleSender /\ Reported
  /\ Mailed /\ TicketWithAttempt /\ SentIsTrue
-----------------------------------------------------------------------------
(* What a worker that has come to report looks like.                       *)
LEMMA ReportingState ==
  ASSUME wk \in [Worker -> WorkerState], NEW w \in Worker,
         NEW verdict \in {"none", "sent", "retry", "manual_review"}
  PROVE  LET k == Reporting(w, verdict) IN
         k \in WorkerState /\ k.pc = "record" /\ k.a = wk[w].a /\ k.verdict = verdict
<1>1. wk[w] \in WorkerState /\ 0 \in 0..MaxAttempts
  BY MaxAttemptsAssumption
<1> QED
  BY <1>1 DEF Reporting, Idle, WorkerState, Audience

(* Nothing is written and nobody works before a payment.                   *)
LEMMA InitIInv == Init => IInv
<1> SUFFICES ASSUME Init PROVE IInv
  OBVIOUS
<1>1. 0 \in 0..MaxAttempts /\ 0 < MaxAttempts
  BY MaxAttemptsAssumption
<1>2. TypeOK
  <2>1. ev \in [Audience -> Effect]
    BY <1>1 DEF Init, Effect
  <2>2. wk \in [Worker -> WorkerState]
    BY <1>1 DEF Init, Idle, WorkerState, Audience
  <2>3. mail \in [Audience -> Seq(Address)]
    BY DEF Init
  <2> QED
    BY <2>1, <2>2, <2>3 DEF Init, TypeOK
<1>3. Unpaid /\ Claimable /\ TicketWithAttempt /\ SentIsTrue /\ Mailed
  BY <1>1 DEF Init, Unpaid, Claimable, TicketWithAttempt, SentIsTrue, Mailed, Idle, Audience
<1>4. Preparing /\ Sending /\ SoleSender /\ Reported
  BY DEF Init, Preparing, Sending, SoleSender, Reported, Idle
<1> QED
  BY <1>2, <1>3, <1>4 DEF IInv
-----------------------------------------------------------------------------
(* The steps of the booking, the addresses, the leases and the person.     *)

(* finalizePaidBooking writes records nobody has claimed.                  *)
LEMMA FinalizeKeeps == IInv /\ FinalizePaidBooking => IInv'
<1> SUFFICES ASSUME IInv, FinalizePaidBooking PROVE IInv'
  OBVIOUS
<1> USE DEF FinalizePaidBooking
<1>1. PICK presentation \in BOOLEAN :
        ev' = [a \in Audience |->
                 [ev[a] EXCEPT !.st = IF address[a] # NoAddress /\ presentation
                                        THEN "pending" ELSE "manual_review",
                               !.pinned = address[a]]]
  OBVIOUS
<1>2. /\ \A a \in Audience : ev[a].st = "none"
      /\ \A w \in Worker : wk[w].pc = "idle"
      /\ wk' = wk /\ mail' = mail
  BY DEF IInv, Unpaid
<1>3. \A a \in Audience :
        /\ ev[a] \in Effect /\ ev'[a] \in Effect
        /\ ev'[a].st \in {"pending", "manual_review"}
        /\ ev'[a].attempted = ev[a].attempted /\ ev'[a].attempts = ev[a].attempts
        /\ ev'[a].ticket = ev[a].ticket
        /\ mail[a] = <<>> /\ ~ev[a].attempted /\ ev[a].attempts < MaxAttempts
  <2> SUFFICES ASSUME NEW a \in Audience
               PROVE  /\ ev[a] \in Effect /\ ev'[a] \in Effect
                      /\ ev'[a].st \in {"pending", "manual_review"}
                      /\ ev'[a].attempted = ev[a].attempted
                      /\ ev'[a].attempts = ev[a].attempts
                      /\ ev'[a].ticket = ev[a].ticket
                      /\ mail[a] = <<>> /\ ~ev[a].attempted /\ ev[a].attempts < MaxAttempts
    OBVIOUS
  <2>1. ev[a] \in Effect /\ address[a] \in Address \cup {NoAddress}
    BY DEF IInv, TypeOK
  <2>2. mail[a] = <<>> /\ ~ev[a].attempted /\ ev[a].attempts < MaxAttempts
    BY <1>2 DEF IInv, Claimable, Mailed
  <2> QED
    BY <1>1, <2>1, <2>2 DEF Effect
<1>4. TypeOK'
  <2>1. ev' \in [Audience -> Effect]
    BY <1>1, <1>3
  <2> QED
    BY <1>2, <2>1 DEF IInv, TypeOK
<1>5. (Unpaid /\ Claimable /\ TicketWithAttempt /\ SentIsTrue /\ Mailed)'
  BY <1>2, <1>3 DEF Unpaid, Claimable, TicketWithAttempt, SentIsTrue, Mailed, Audience
<1>6. (Preparing /\ Sending /\ SoleSender /\ Reported)'
  BY <1>2 DEF Preparing, Sending, SoleSender, Reported
<1> QED
  BY <1>4, <1>5, <1>6 DEF IInv

(* Nothing of IInv but Unpaid speaks of the booking's later states or of   *)
(* what an address is now.                                                 *)
LEMMA EditsKeep ==
  ASSUME IInv, BookingChanges \/ \E a \in Audience : AddressChanges(a)
  PROVE  IInv'
<1>1. UNCHANGED <<ev, wk, mail>> /\ (booking' = "pending" => booking = "pending")
  BY DEF BookingChanges, AddressChanges
<1>2. TypeOK'
  <2>1. CASE BookingChanges
    BY <2>1 DEF BookingChanges, IInv, TypeOK
  <2>2. ASSUME NEW a \in Audience, AddressChanges(a) PROVE TypeOK'
    BY <2>2 DEF AddressChanges, IInv, TypeOK
  <2> QED
    BY <2>1, <2>2
<1>3. (Unpaid /\ Claimable /\ TicketWithAttempt /\ SentIsTrue /\ Mailed)'
  BY <1>1 DEF IInv, Unpaid, Claimable, TicketWithAttempt, SentIsTrue, Mailed
<1>4. (Preparing /\ Sending /\ SoleSender /\ Reported)'
  BY <1>1 DEF IInv, Preparing, Sending, SoleSender, Reported, Fence
<1> QED
  BY <1>2, <1>3, <1>4 DEF IInv

(* A lease that runs out takes nothing from the record but its time.       *)
LEMMA LeaseKeeps ==
  ASSUME IInv, NEW a \in Audience, LeaseExpires(a)
  PROVE  IInv'
<1> USE DEF LeaseExpires
<1>1. /\ ev[a] \in Effect /\ [ev[a] EXCEPT !.expired = TRUE] \in Effect
      /\ UNCHANGED <<booking, address, wk, mail>>
  BY DEF IInv, TypeOK, Effect
<1>2. \A b \in Audience :
        /\ ev'[b].st = ev[b].st /\ ev'[b].attempted = ev[b].attempted
        /\ ev'[b].attempts = ev[b].attempts /\ ev'[b].holder = ev[b].holder
        /\ ev'[b].pinned = ev[b].pinned /\ ev'[b].ticket = ev[b].ticket
        /\ ev'[b].reconciled = ev[b].reconciled
  BY <1>1 DEF IInv, TypeOK, Effect
<1>3. TypeOK'
  BY <1>1 DEF IInv, TypeOK
<1>4. (Unpaid /\ Claimable /\ TicketWithAttempt /\ SentIsTrue /\ Mailed)'
  BY <1>1, <1>2 DEF IInv, Unpaid, Claimable, TicketWithAttempt, SentIsTrue, Mailed, Audience
<1>5. (Preparing /\ Sending /\ SoleSender /\ Reported)'
  <2>1. \A w \in Worker : wk[w].a \in Audience
    BY DEF IInv, TypeOK, WorkerState
  <2> QED
    BY <1>1, <1>2, <2>1 DEF IInv, Preparing, Sending, SoleSender, Reported, Fence
<1> QED
  BY <1>3, <1>4, <1>5 DEF IInv

(* Changes of one record that leave its attempt, its count and its pinned  *)
(* destination alone and take it out of every worker's hands: a lease      *)
(* recovered, a person's decision.                                         *)
LEMMA FreeingKeeps ==
  ASSUME IInv, NEW a \in Audience, NEW e \in Effect,
         UNCHANGED <<booking, address, wk, mail>>, ev' = [ev EXCEPT ![a] = e],
         booking # "pending",
         e.st \in {"retry", "sent", "manual_review", "resolved"},
         e.st = "retry" => ~ev[a].attempted /\ ev[a].attempts < MaxAttempts,
         e.st = "sent" => e.reconciled \/ mail[a] # <<>>,
         e.attempted = ev[a].attempted, e.attempts = ev[a].attempts,
         e.pinned = ev[a].pinned, e.ticket = ev[a].ticket
  PROVE  IInv'
<1>1. /\ ev'[a] = e
      /\ \A b \in Audience : b # a => ev'[b] = ev[b]
  BY DEF IInv, TypeOK
<1>2. TypeOK'
  BY DEF IInv, TypeOK
<1>3. (Unpaid /\ Claimable /\ TicketWithAttempt /\ SentIsTrue /\ Mailed)'
  BY <1>1 DEF IInv, Unpaid, Claimable, TicketWithAttempt, SentIsTrue, Mailed, Audience
<1>4. (Preparing /\ Sending /\ SoleSender /\ Reported)'
  <2>1. \A w \in Worker : wk[w].a \in Audience
    BY DEF IInv, TypeOK, WorkerState
  <2>2. Preparing'
    BY <1>1, <2>1 DEF IInv, Preparing, Fence
  <2>3. Sending'
    BY <1>1, <2>1 DEF IInv, Sending
  <2>4. SoleSender' /\ Reported'
    BY <1>1, <2>1 DEF IInv, SoleSender, Reported, Fence
  <2> QED
    BY <2>2, <2>3, <2>4
<1> QED
  BY <1>2, <1>3, <1>4 DEF IInv

(* A person's decision about a record that no worker holds.                *)
LEMMA ReconcileKeeps ==
  ASSUME IInv, NEW a \in Audience, Reconcile(a)
  PROVE  IInv'
<1>1. PICK decision \in {"sent", "resolved"} :
        ev' = [ev EXCEPT ![a].st = decision, ![a].reconciled = TRUE]
  BY DEF Reconcile
<1> DEFINE e == [ev[a] EXCEPT !.st = decision, !.reconciled = TRUE]
<1>2. ev[a] \in Effect /\ e \in Effect
  BY DEF IInv, TypeOK, Effect
<1>3. ev' = [ev EXCEPT ![a] = e]
  BY <1>1 DEF IInv, TypeOK
<1>4. /\ e.st = decision /\ e.reconciled /\ e.attempted = ev[a].attempted
      /\ e.attempts = ev[a].attempts /\ e.pinned = ev[a].pinned /\ e.ticket = ev[a].ticket
  BY <1>2 DEF Effect
<1>5. UNCHANGED <<booking, address, wk, mail>> /\ booking # "pending"
  BY DEF Reconcile, IInv, Unpaid
<1> HIDE DEF e
<1> QED
  BY <1>2, <1>3, <1>4, <1>5, FreeingKeeps

(* A worker finds an expired lease.                                        *)
LEMMA RecoverKeeps ==
  ASSUME IInv, NEW w \in Worker, NEW a \in Audience, Recover(w, a)
  PROVE  IInv'
<1> DEFINE st == IF ev[a].attempted \/ ev[a].attempts >= MaxAttempts
                   THEN "manual_review" ELSE "retry"
           e == Freed(ev[a], st)
<1>1. ev[a] \in Effect /\ e \in Effect
  BY DEF IInv, TypeOK, Effect, Freed
<1>2. ev' = [ev EXCEPT ![a] = e]
  BY DEF Recover, IInv, TypeOK
<1>3. /\ e.st = st /\ e.attempted = ev[a].attempted /\ e.attempts = ev[a].attempts
      /\ e.pinned = ev[a].pinned /\ e.ticket = ev[a].ticket
  BY <1>1 DEF Effect, Freed
<1>4. UNCHANGED <<booking, address, wk, mail>> /\ booking # "pending"
  BY DEF Recover, IInv, Unpaid
<1>5. st = "retry" => ~ev[a].attempted /\ ev[a].attempts < MaxAttempts
  BY <1>1, MaxAttemptsAssumption DEF Effect
<1>6. st \in {"retry", "manual_review"}
  OBVIOUS
<1> HIDE DEF e, st
<1> QED
  BY <1>1, <1>2, <1>3, <1>4, <1>5, <1>6, FreeingKeeps
-----------------------------------------------------------------------------
(* The steps of a worker.                                                  *)

(* A worker's own step touches nobody else's state.                        *)
LEMMA Claims ==
  ASSUME IInv, NEW w \in Worker, NEW a \in Audience, Claim(w, a)
  PROVE  IInv'
<1> DEFINE e == [ev[a] EXCEPT !.st = "processing", !.holder = w, !.expired = FALSE,
                              !.attempts = @ + 1]
           k == [Idle EXCEPT !.pc = "read", !.a = a, !.tries = ev[a].attempts + 1]
<1>1. /\ ev[a] \in Effect /\ ~ev[a].attempted /\ ev[a].attempts < MaxAttempts
      /\ ev[a].st \in {"pending", "retry"} /\ wk[w].pc = "idle"
      /\ UNCHANGED <<booking, address, mail>>
  BY DEF Claim, IInv, TypeOK, Claimable
<1>2. e \in Effect /\ ev[a].attempts + 1 \in 0..MaxAttempts
  <2>1. ev[a].attempts + 1 \in 0..MaxAttempts
    BY <1>1, MaxAttemptsAssumption DEF Effect
  <2> QED
    BY <1>1, <2>1 DEF Effect
<1>3. k \in WorkerState
  BY <1>2, MaxAttemptsAssumption DEF Idle, WorkerState, Audience
<1>4. ev' = [ev EXCEPT ![a] = e] /\ wk' = [wk EXCEPT ![w] = k]
  BY DEF Claim, IInv, TypeOK
<1>5. /\ e.st = "processing" /\ e.holder = w /\ e.attempted = ev[a].attempted
      /\ e.attempts = ev[a].attempts + 1 /\ e.pinned = ev[a].pinned
      /\ e.ticket = ev[a].ticket
  BY <1>1 DEF Effect
<1>6. k.pc = "read" /\ k.a = a /\ k.tries = e.attempts
  BY <1>1, <1>5 DEF Idle
<1> HIDE DEF e, k
<1>7. /\ ev'[a] = e /\ \A b \in Audience : b # a => ev'[b] = ev[b]
      /\ wk'[w] = k /\ \A v \in Worker : v # w => wk'[v] = wk[v]
      /\ \A v \in Worker : wk[v].a \in Audience
  BY <1>4 DEF IInv, TypeOK, WorkerState
<1>8. TypeOK'
  BY <1>1, <1>2, <1>3, <1>4 DEF IInv, TypeOK
<1>9. (Unpaid /\ Claimable /\ TicketWithAttempt /\ SentIsTrue /\ Mailed)'
  BY <1>1, <1>5, <1>7
    DEF IInv, Unpaid, Claimable, TicketWithAttempt, SentIsTrue, Mailed, Audience
<1>10. Preparing'
  BY <1>1, <1>5, <1>6, <1>7 DEF IInv, Preparing, Fence
<1>11. Sending' /\ SoleSender'
  BY <1>1, <1>5, <1>6, <1>7 DEF IInv, Sending, SoleSender
<1>12. Reported'
  BY <1>1, <1>5, <1>6, <1>7 DEF IInv, Reported, Fence
<1> QED
  BY <1>8, <1>9, <1>10, <1>11, <1>12 DEF IInv

(* A worker that goes on without a write: what it keeps about its record   *)
(* still holds, and nobody else notices.                                   *)
LEMMA PrivateStep ==
  ASSUME IInv, NEW w \in Worker, NEW k \in WorkerState,
         UNCHANGED <<booking, address, ev, mail>>, wk' = [wk EXCEPT ![w] = k],
         k.pc # "idle" => k.a = wk[w].a /\ wk[w].pc \in {"read", "prepare", "start"},
         k.pc # "send",
         k.pc \in {"read", "prepare", "start"} => k.tries = wk[w].tries,
         k.pc = "start" => k.to \in Address /\ k.to = ev[wk[w].a].pinned,
         k.pc = "record" => \/ k.verdict = "manual_review"
                            \/ k.verdict = "retry" /\ wk[w].tries < MaxAttempts
  PROVE  IInv'
<1>1. /\ wk'[w] = k /\ \A v \in Worker : v # w => wk'[v] = wk[v]
      /\ \A v \in Worker : wk[v].a \in Audience
  BY DEF IInv, TypeOK, WorkerState
<1>2. TypeOK'
  BY DEF IInv, TypeOK
<1>3. (Unpaid /\ Claimable /\ TicketWithAttempt /\ SentIsTrue /\ Mailed)'
  BY <1>1 DEF IInv, Unpaid, Claimable, TicketWithAttempt, SentIsTrue, Mailed
<1>4. Preparing'
  BY <1>1 DEF IInv, Preparing, Fence
<1>5. Sending' /\ SoleSender'
  BY <1>1 DEF IInv, Sending, SoleSender
<1>6. Reported'
  <2>1. ASSUME k.pc = "record", k.verdict = "retry", Fence(w, wk[w].a)
        PROVE  mail[wk[w].a] = <<>> /\ ev[wk[w].a].attempts < MaxAttempts
    BY <1>1, <2>1 DEF IInv, Preparing, Mailed
  <2> QED
    BY <1>1, <2>1 DEF IInv, Reported, Fence
<1> QED
  BY <1>2, <1>3, <1>4, <1>5, <1>6 DEF IInv

(* The reads, the comparisons, an error before the attempt, a lost lease   *)
(* and the death of the process are such steps.                            *)
LEMMA PrivateSteps ==
  ASSUME IInv, NEW w \in Worker,
         \/ ReadBooking(w) \/ Prepare(w) \/ Throws(w) \/ Dies(w)
         \/ wk' = [wk EXCEPT ![w] = Idle] /\ UNCHANGED <<booking, address, ev, mail>>
  PROVE  IInv'
<1>1. wk[w] \in WorkerState /\ wk[w].a \in Audience /\ Idle \in WorkerState
  BY MaxAttemptsAssumption DEF IInv, TypeOK, WorkerState, Idle, Audience
<1>2. CASE ReadBooking(w)
  <2> DEFINE to == IF wk[w].a = "customer" THEN address["customer"] ELSE NoAddress
             k == [wk[w] EXCEPT !.pc = "prepare", !.fits = booking = "paid", !.to = to]
  <2>1. to \in Address \cup {NoAddress}
    BY DEF IInv, TypeOK, Audience
  <2>2. k \in WorkerState /\ k.pc = "prepare" /\ k.a = wk[w].a /\ k.tries = wk[w].tries
    BY <1>1, <2>1 DEF WorkerState
  <2>3. wk' = [wk EXCEPT ![w] = k]
    BY <1>2 DEF ReadBooking, IInv, TypeOK
  <2>4. wk[w].pc = "read" /\ UNCHANGED <<booking, address, ev, mail>>
    BY <1>2 DEF ReadBooking
  <2> HIDE DEF k
  <2> QED
    BY <2>2, <2>3, <2>4, PrivateStep
<1>3. CASE Prepare(w)
  <2> DEFINE a == wk[w].a
             to == IF a = "operator" THEN address["operator"] ELSE wk[w].to
             agrees == wk[w].fits /\ to # NoAddress /\ to = ev[a].pinned
             k == [wk[w] EXCEPT !.to = IF agrees THEN to ELSE NoAddress, !.fits = FALSE,
                                !.pc = IF agrees THEN "start" ELSE "record",
                                !.verdict = IF agrees THEN "none" ELSE "manual_review"]
  <2>1. to \in Address \cup {NoAddress}
    BY <1>1 DEF IInv, TypeOK, WorkerState, Audience
  <2>2. k \in WorkerState /\ k.a = a /\ k.tries = wk[w].tries
    BY <1>1, <2>1 DEF WorkerState
  <2>3. /\ k.pc = IF agrees THEN "start" ELSE "record"
        /\ k.to = IF agrees THEN to ELSE NoAddress
        /\ k.verdict = IF agrees THEN "none" ELSE "manual_review"
    BY <1>1 DEF WorkerState
  <2>4. wk' = [wk EXCEPT ![w] = k]
    BY <1>3 DEF Prepare, IInv, TypeOK
  <2>5. wk[w].pc = "prepare" /\ UNCHANGED <<booking, address, ev, mail>>
    BY <1>3 DEF Prepare
  <2> HIDE DEF k
  <2>6. \/ k.pc = "start" /\ k.to \in Address /\ k.to = ev[a].pinned
        \/ k.pc = "record" /\ k.verdict = "manual_review"
    BY <2>1, <2>3
  <2> QED
    BY <2>2, <2>4, <2>5, <2>6, PrivateStep
<1>4. CASE Throws(w)
  <2> DEFINE k == Reporting(w, RetryOrReview(w))
  <2>1. /\ k \in WorkerState /\ k.pc = "record" /\ k.a = wk[w].a
        /\ k.verdict = RetryOrReview(w)
    BY <1>1 DEF Reporting, RetryOrReview, Idle, WorkerState
  <2>2. \/ k.verdict = "manual_review"
        \/ k.verdict = "retry" /\ wk[w].tries < MaxAttempts
    BY <2>1 DEF RetryOrReview
  <2>3. /\ wk' = [wk EXCEPT ![w] = k] /\ UNCHANGED <<booking, address, ev, mail>>
        /\ wk[w].pc \in {"read", "prepare", "start"}
    BY <1>4 DEF Throws
  <2> HIDE DEF k
  <2> QED
    BY <2>1, <2>2, <2>3, PrivateStep
<1>5. CASE wk' = [wk EXCEPT ![w] = Idle] /\ UNCHANGED <<booking, address, ev, mail>>
  <2>1. Idle.pc = "idle"
    BY DEF Idle
  <2> QED
    BY <1>1, <1>5, <2>1, PrivateStep
<1> QED
  BY <1>2, <1>3, <1>4, <1>5 DEF Dies

(* The attempt is put on record; the worker goes on to the provider, or    *)
(* believes the transaction failed.                                        *)
LEMMA AttemptKeeps ==
  ASSUME IInv, NEW w \in Worker, wk[w].pc = "start", Attempt(w),
         NEW k \in WorkerState, wk' = [wk EXCEPT ![w] = k],
         UNCHANGED <<booking, address, mail>>, k.a = wk[w].a,
         \/ k.pc = "send" /\ k.to = wk[w].to /\ k.tries = wk[w].tries
         \/ /\ k.pc = "record"
            /\ \/ k.verdict = "manual_review"
               \/ k.verdict = "retry" /\ wk[w].tries < MaxAttempts
  PROVE  IInv'
<1> DEFINE a == wk[w].a
           e == [ev[a] EXCEPT !.attempted = TRUE, !.expired = FALSE,
                              !.ticket = @ \/ a = "customer"]
<1>1. /\ ev[a] \in Effect /\ a \in Audience /\ Fence(w, a)
      /\ ev' = [ev EXCEPT ![a] = e] /\ e \in Effect
  <2>1. ev[a] \in Effect /\ a \in Audience /\ Fence(w, a)
    BY DEF Attempt, IInv, TypeOK, WorkerState
  <2>2. e \in Effect
    BY <2>1 DEF Effect
  <2>3. ev' = [ev EXCEPT ![a] = e]
    BY <2>1 DEF Attempt, IInv, TypeOK
  <2> QED
    BY <2>1, <2>2, <2>3
<1>2. /\ e.st = "processing" /\ e.holder = w /\ e.attempted
      /\ e.attempts = ev[a].attempts /\ e.pinned = ev[a].pinned
      /\ (a = "customer" => e.ticket)
      /\ (ev[a].ticket => e.ticket)
  BY <1>1 DEF Effect, Fence
<1>3. /\ ~ev[a].attempted /\ mail[a] = <<>> /\ wk[w].tries = ev[a].attempts
      /\ wk[w].to \in Address /\ wk[w].to = ev[a].pinned
      /\ booking # "pending"
  BY <1>1 DEF IInv, Preparing, Mailed, Unpaid
<1>4. /\ ev'[a] = e /\ \A b \in Audience : b # a => ev'[b] = ev[b]
      /\ wk'[w] = k /\ \A v \in Worker : v # w => wk'[v] = wk[v]
      /\ \A v \in Worker : wk[v].a \in Audience
  BY <1>1 DEF IInv, TypeOK, WorkerState
<1>5. \A v \in Worker : v # w => ~Fence(v, a)
  BY <1>1 DEF Fence
<1> HIDE DEF e
<1>6. TypeOK'
  BY <1>1, <1>4 DEF IInv, TypeOK
<1>7. (Unpaid /\ Claimable /\ TicketWithAttempt /\ SentIsTrue /\ Mailed)'
  <2>1. Unpaid' /\ Claimable' /\ SentIsTrue' /\ Mailed'
    BY <1>2, <1>3, <1>4 DEF IInv, Unpaid, Claimable, SentIsTrue, Mailed
  <2>2. TicketWithAttempt'
    BY <1>1, <1>2, <1>4 DEF IInv, TicketWithAttempt, Audience
  <2> QED
    BY <2>1, <2>2
<1>8. Preparing'
  BY <1>2, <1>3, <1>4, <1>5 DEF IInv, Preparing, Fence
<1>9. Sending' /\ SoleSender'
  <2>1. \A v \in Worker : wk[v].pc = "send" => wk[v].a # a
    BY <1>1, <1>3 DEF IInv, Sending
  <2> QED
    BY <1>2, <1>3, <1>4, <2>1 DEF IInv, Sending, SoleSender
<1>10. Reported'
  BY <1>2, <1>3, <1>4, <1>5 DEF IInv, Reported, Fence
<1> QED
  BY <1>6, <1>7, <1>8, <1>9, <1>10 DEF IInv

LEMMA StartKeeps ==
  ASSUME IInv, NEW w \in Worker, Start(w)
  PROVE  IInv'
<1>1. wk[w] \in WorkerState /\ wk[w].pc = "start" /\ UNCHANGED <<booking, address, mail>>
  BY DEF Start, IInv, TypeOK
<1>2. CASE wk' = [wk EXCEPT ![w] = Idle] /\ UNCHANGED ev
  BY <1>1, <1>2, PrivateSteps
<1>3. CASE Attempt(w) /\ wk' = [wk EXCEPT ![w].pc = "send"]
  <2> DEFINE k == [wk[w] EXCEPT !.pc = "send"]
  <2>1. /\ k \in WorkerState /\ k.pc = "send" /\ k.a = wk[w].a /\ k.to = wk[w].to
        /\ k.tries = wk[w].tries
    BY <1>1 DEF WorkerState
  <2>2. wk' = [wk EXCEPT ![w] = k]
    BY <1>3 DEF IInv, TypeOK
  <2> HIDE DEF k
  <2> QED
    BY <1>1, <1>3, <2>1, <2>2, AttemptKeeps
<1>4. CASE Attempt(w) /\ wk' = [wk EXCEPT ![w] = Reporting(w, RetryOrReview(w))]
  <2> DEFINE k == Reporting(w, RetryOrReview(w))
  <2>1. /\ k \in WorkerState /\ k.pc = "record" /\ k.a = wk[w].a
        /\ k.verdict = RetryOrReview(w)
    BY ReportingState DEF RetryOrReview, IInv, TypeOK
  <2>2. \/ k.verdict = "manual_review"
        \/ k.verdict = "retry" /\ wk[w].tries < MaxAttempts
    BY <2>1 DEF RetryOrReview
  <2>3. wk' = [wk EXCEPT ![w] = k] /\ Attempt(w)
    BY <1>4
  <2> HIDE DEF k
  <2> QED
    BY <1>1, <2>1, <2>2, <2>3, AttemptKeeps
<1> QED
  BY <1>1, <1>2, <1>3, <1>4 DEF Start

(* The provider's call: the sender is the only one, and nothing was sent.  *)
LEMMA SendKeeps ==
  ASSUME IInv, NEW w \in Worker, Send(w)
  PROVE  IInv'
<1> DEFINE a == wk[w].a
<1>1. /\ wk[w] \in WorkerState /\ a \in Audience /\ wk[w].pc = "send"
      /\ UNCHANGED <<booking, address, ev>> /\ booking # "pending"
  BY DEF Send, IInv, TypeOK, WorkerState, Unpaid
<1>2. /\ ev[a].attempted /\ mail[a] = <<>> /\ (ev[a].st = "processing" => ev[a].holder = w)
      /\ wk[w].to \in Address /\ wk[w].to = ev[a].pinned
      /\ Fence(w, a) => wk[w].tries = ev[a].attempts
  BY <1>1 DEF IInv, Sending, Preparing
<1>3. PICK accepted \in BOOLEAN, verdict \in {"sent", RetryOrReview(w), "manual_review"} :
        /\ verdict = "sent" => accepted
        /\ verdict = "retry" => ~accepted
        /\ mail' = IF accepted THEN [mail EXCEPT ![a] = Append(@, wk[w].to)] ELSE mail
        /\ wk' = [wk EXCEPT ![w] = Reporting(w, verdict)]
  BY DEF Send
<1> DEFINE k == Reporting(w, verdict)
<1>4. /\ k \in WorkerState /\ k.pc = "record" /\ k.a = a /\ k.verdict = verdict
      /\ verdict \in {"sent", "retry", "manual_review"}
  <2>1. verdict \in {"sent", "retry", "manual_review"}
    BY <1>3 DEF RetryOrReview
  <2> QED
    BY <2>1, ReportingState DEF IInv, TypeOK
<1>5. verdict = "retry" => wk[w].tries < MaxAttempts
  BY <1>3 DEF RetryOrReview
<1>6. /\ \A b \in Audience : b # a => mail'[b] = mail[b]
      /\ ~accepted => mail'[a] = <<>>
      /\ accepted => /\ mail'[a] # <<>> /\ Len(mail'[a]) = 1
                     /\ mail'[a][1] = ev[a].pinned
      /\ mail' \in [Audience -> Seq(Address)]
  <2>1. mail \in [Audience -> Seq(Address)]
    BY DEF IInv, TypeOK
  <2>2. /\ Append(<<>>, wk[w].to) \in Seq(Address) /\ Len(Append(<<>>, wk[w].to)) = 1
        /\ Append(<<>>, wk[w].to)[1] = wk[w].to
    BY <1>2
  <2> QED
    BY <1>1, <1>2, <1>3, <2>1, <2>2
<1>7. /\ wk'[w] = k /\ \A v \in Worker : v # w => wk'[v] = wk[v]
      /\ \A v \in Worker : wk[v].a \in Audience
  BY <1>3 DEF IInv, TypeOK, WorkerState
<1> HIDE DEF k
<1>8. TypeOK'
  BY <1>1, <1>3, <1>4, <1>6 DEF IInv, TypeOK, k
<1>9. Unpaid' /\ Claimable' /\ TicketWithAttempt'
  BY <1>1 DEF IInv, Unpaid, Claimable, TicketWithAttempt
<1>10. SentIsTrue' /\ Mailed'
  BY <1>1, <1>2, <1>6 DEF IInv, SentIsTrue, Mailed
<1>11. Preparing'
  BY <1>1, <1>4, <1>7 DEF IInv, Preparing, Fence
<1>12. Sending' /\ SoleSender'
  <2>1. \A v \in Worker : v # w /\ wk[v].pc = "send" => wk[v].a # a
    BY <1>1 DEF IInv, SoleSender
  <2> QED
    BY <1>1, <1>4, <1>6, <1>7, <2>1 DEF IInv, Sending, SoleSender
<1>13. Reported'
  <2>1. ASSUME NEW v \in Worker, v # w, wk[v].pc = "record", wk[v].a = a,
               wk[v].verdict = "retry", Fence(v, a)
        PROVE  FALSE
    BY <1>1, <1>2, <2>1 DEF Fence
  <2>2. ASSUME verdict = "retry", Fence(w, a)
        PROVE  mail'[a] = <<>> /\ ev[a].attempts < MaxAttempts
    BY <1>2, <1>3, <1>5, <1>6, <2>2
  <2> QED
    BY <1>1, <1>3, <1>4, <1>6, <1>7, <2>1, <2>2 DEF IInv, Reported, Fence
<1> QED
  BY <1>8, <1>9, <1>10, <1>11, <1>12, <1>13 DEF IInv

(* The outcome is written by the holder, and only an attempt that sent     *)
(* nothing is taken back.                                                  *)
LEMMA RecordKeeps ==
  ASSUME IInv, NEW w \in Worker, Record(w)
  PROVE  IInv'
<1> DEFINE a == wk[w].a
           st == wk[w].verdict
           e == Concluded(ev[a], st)
<1>1. /\ wk[w] \in WorkerState /\ a \in Audience /\ wk[w].pc = "record"
      /\ wk' = [wk EXCEPT ![w] = Idle] /\ UNCHANGED <<booking, address, mail>>
      /\ st \in {"sent", "retry", "manual_review"} /\ booking # "pending"
      /\ st = "sent" => mail[a] # <<>>
  BY DEF Record, IInv, TypeOK, WorkerState, Reported, Unpaid
<1>2. CASE ~Fence(w, a)
  <2>1. ev' = ev
    BY <1>2 DEF Record
  <2> QED
    BY <1>1, <2>1, PrivateSteps
<1>3. CASE Fence(w, a)
  <2>1. /\ ev[a] \in Effect /\ ev[a].st = "processing" /\ ev[a].holder = w
        /\ st = "retry" => mail[a] = <<>> /\ ev[a].attempts < MaxAttempts
    BY <1>1, <1>3 DEF IInv, TypeOK, Reported, Fence
  <2>2. e \in Effect /\ ev' = [ev EXCEPT ![a] = e]
    <3>1. e \in Effect
      BY <1>1, <2>1 DEF Effect, Freed, Concluded
    <3>2. ev' = [ev EXCEPT ![a] = e]
      BY <1>3 DEF Record
    <3> QED
      BY <3>1, <3>2
  <2>3. /\ e.st = st /\ e.holder = NoWorker /\ e.attempts = ev[a].attempts
        /\ e.attempted <=> ev[a].attempted /\ st # "retry"
        /\ e.pinned = ev[a].pinned /\ e.ticket = ev[a].ticket
    BY <2>1 DEF Effect, Freed, Concluded
  <2>4. /\ ev'[a] = e /\ \A b \in Audience : b # a => ev'[b] = ev[b]
        /\ wk'[w].pc = "idle" /\ \A v \in Worker : v # w => wk'[v] = wk[v]
        /\ \A v \in Worker : wk[v].a \in Audience
        /\ \A v \in Worker : wk[v].pc = "send" => wk[v].a # a
    BY <1>1, <2>1, <2>2 DEF IInv, TypeOK, WorkerState, Idle, Sending
  <2> HIDE DEF e
  <2>5. TypeOK'
    <3>1. Idle \in WorkerState
      BY MaxAttemptsAssumption DEF Idle, WorkerState, Audience
    <3> QED
      BY <1>1, <2>2, <3>1 DEF IInv, TypeOK
  <2>6. Unpaid' /\ Claimable' /\ SentIsTrue' /\ Mailed'
    BY <1>1, <2>1, <2>3, <2>4 DEF IInv, Unpaid, Claimable, SentIsTrue, Mailed
  <2>7. TicketWithAttempt'
    BY <2>3, <2>4 DEF IInv, TicketWithAttempt, Audience
  <2>8. Preparing'
    BY <1>1, <2>1, <2>3, <2>4 DEF IInv, Preparing, Fence
  <2>9. Sending' /\ SoleSender'
    BY <1>1, <2>1, <2>3, <2>4 DEF IInv, Sending, SoleSender
  <2>10. Reported'
    BY <1>1, <2>1, <2>3, <2>4 DEF IInv, Reported, Fence
  <2> QED
    BY <2>5, <2>6, <2>7, <2>8, <2>9, <2>10 DEF IInv
<1> QED
  BY <1>2, <1>3
-----------------------------------------------------------------------------
(* Theorems.                                                               *)

(* What every step of payment, edits, people and workers preserves.        *)
LEMMA StepIInv == IInv /\ [Next]_vars => IInv'
<1> SUFFICES ASSUME IInv, [Next]_vars PROVE IInv'
  OBVIOUS
<1>1. CASE FinalizePaidBooking
  BY <1>1, FinalizeKeeps
<1>2. CASE BookingChanges \/ \E a \in Audience : AddressChanges(a)
  BY <1>2, EditsKeep
<1>3. ASSUME NEW a \in Audience, LeaseExpires(a) PROVE IInv'
  BY <1>3, LeaseKeeps
<1>4. ASSUME NEW a \in Audience, Reconcile(a) PROVE IInv'
  BY <1>4, ReconcileKeeps
<1>5. ASSUME NEW w \in Worker, NEW a \in Audience, Recover(w, a) PROVE IInv'
  BY <1>5, RecoverKeeps
<1>6. ASSUME NEW w \in Worker, NEW a \in Audience, Claim(w, a) PROVE IInv'
  BY <1>6, Claims
<1>7. ASSUME NEW w \in Worker, ReadBooking(w) \/ Prepare(w) \/ Throws(w) \/ Dies(w)
      PROVE  IInv'
  BY <1>7, PrivateSteps
<1>8. ASSUME NEW w \in Worker, Start(w) PROVE IInv'
  BY <1>8, StartKeeps
<1>9. ASSUME NEW w \in Worker, Send(w) PROVE IInv'
  BY <1>9, SendKeeps
<1>10. ASSUME NEW w \in Worker, Record(w) PROVE IInv'
  BY <1>10, RecordKeeps
<1>11. CASE UNCHANGED vars
  BY <1>11 DEF vars, IInv, TypeOK, Unpaid, Claimable, Preparing, Sending, SoleSender,
     Reported, Mailed, TicketWithAttempt, SentIsTrue, Fence
<1> QED
  BY <1>1, <1>2, <1>3, <1>4, <1>5, <1>6, <1>7, <1>8, <1>9, <1>10, <1>11 DEF Next, Work

(* IInv holds in every reachable state of the outbox.                      *)
THEOREM Invariance == Spec => []IInv
<1> QED
  BY InitIInv, StepIInv, PTL DEF Spec

(* Every reachable record and worker state is well formed; in particular   *)
(* no record is claimed more than MaxAttempts times.                       *)
THEOREM TypeCorrect == Spec => []TypeOK
<1>1. IInv => TypeOK
  BY DEF IInv
<1> QED
  BY <1>1, Invariance, PTL

(* No audience gets the confirmation of a paid booking twice.              *)
THEOREM NeverTwice == Spec => []AtMostOnce
<1>1. IInv => AtMostOnce
  <2> SUFFICES ASSUME IInv, NEW a \in Audience PROVE Len(mail[a]) <= 1
    BY DEF AtMostOnce
  <2>1. CASE mail[a] = <<>>
    BY <2>1
  <2>2. CASE mail[a] # <<>>
    <3>1. Len(mail[a]) = 1
      BY <2>2 DEF IInv, Mailed
    <3> QED
      BY <3>1
  <2> QED
    BY <2>1, <2>2
<1> QED
  BY <1>1, Invariance, PTL

(* It goes to the destination pinned at the payment.                       *)
THEOREM NeverRedirected == Spec => []PinnedRecipient
<1>1. IInv => PinnedRecipient
  <2> SUFFICES ASSUME IInv, NEW a \in Audience, NEW i \in 1..Len(mail[a])
               PROVE  mail[a][i] = ev[a].pinned
    BY DEF PinnedRecipient
  <2>1. mail[a] # <<>>
    OBVIOUS
  <2>2. Len(mail[a]) = 1 /\ mail[a][1] = ev[a].pinned
    BY <2>1 DEF IInv, Mailed
  <2>3. i = 1
    BY <2>2
  <2> QED
    BY <2>2, <2>3
<1> QED
  BY <1>1, Invariance, PTL

(* A record a worker left as sent is the record of a mail that was sent,   *)
(* and the ticket's event is written before the customer's mail goes out.  *)
THEOREM MailSafe == Spec => []MailIsBacked
<1>1. IInv => SentIsTrue
  BY DEF IInv
<1>2. IInv => TicketBeforeMail
  BY DEF IInv, Mailed, TicketWithAttempt, TicketBeforeMail, Audience
<1> QED
  BY <1>1, <1>2, Invariance, PTL DEF MailIsBacked

(* No late worker undoes an outcome or takes a record out of a person's    *)
(* hands.                                                                  *)
THEOREM OutcomesSafe == Spec => OutcomesStand
<1> DEFINE Stands ==
      \A a \in Audience :
        /\ ev[a].st \in {"sent", "resolved"} => ev'[a].st = ev[a].st
        /\ ev[a].st = "manual_review" /\ ev'[a].st # "manual_review"
             => ev'[a].reconciled
<1>1. IInv /\ [Next]_vars => [Stands]_ev
  <2> SUFFICES ASSUME IInv, Next, NEW a \in Audience, ev' # ev,
                      ev[a].st \in {"sent", "resolved", "manual_review"}
               PROVE  \/ ev'[a].st = ev[a].st
                      \/ ev[a].st = "manual_review" /\ ev'[a].reconciled
    BY DEF vars
  <2>1. ev \in [Audience -> Effect] /\ \A w \in Worker : wk[w].a \in Audience
    BY DEF IInv, TypeOK, WorkerState
  <2>2. CASE FinalizePaidBooking
    BY <2>2 DEF FinalizePaidBooking, IInv, Unpaid
  <2>3. ASSUME NEW b \in Audience, LeaseExpires(b) \/ Reconcile(b)
        PROVE  \/ ev'[a].st = ev[a].st
               \/ ev[a].st = "manual_review" /\ ev'[a].reconciled
    BY <2>1, <2>3 DEF LeaseExpires, Reconcile, Effect
  <2>4. ASSUME NEW w \in Worker, NEW b \in Audience, Recover(w, b) \/ Claim(w, b)
        PROVE  ev'[a].st = ev[a].st
    BY <2>1, <2>4 DEF Recover, Claim
  <2>5. ASSUME NEW w \in Worker, Start(w)
        PROVE  ev'[a].st = ev[a].st
    BY <2>1, <2>5 DEF Start, Attempt, Fence
  <2>6. ASSUME NEW w \in Worker, Record(w)
        PROVE  ev'[a].st = ev[a].st
    BY <2>1, <2>6 DEF Record, Fence
  <2> QED
    BY <2>2, <2>3, <2>4, <2>5, <2>6
      DEF Next, Work, BookingChanges, AddressChanges, ReadBooking, Prepare, Send, Throws, Dies
<1> QED
  BY <1>1, Invariance, PTL DEF Spec, OutcomesStand
=============================================================================
