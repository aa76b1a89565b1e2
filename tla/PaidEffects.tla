---------------------------- MODULE PaidEffects ----------------------------
(***************************************************************************)
(* What a payment sets off: finalizePaidBooking confirms the booking and,  *)
(* in the same transaction, writes one BookingPaidEffectV1 per audience;   *)
(* processBookingPaidEffects, every 30 seconds in every server process,    *)
(* turns those records into mail.                                          *)
(*                                                                         *)
(* A mail provider cannot be asked twice safely, so a worker leases the    *)
(* record, writes down that it is about to call the provider, calls it,    *)
(* and writes down what came of it.  It may die, or outlive its lease,     *)
(* between any two of these, while guests and sites edit their addresses   *)
(* and a person closes records by hand.                                    *)
(*                                                                         *)
(* Each await is a step.  nextAttemptAt only delays a claim and is left    *)
(* out; a lease token is the name of the worker that took it, for a worker *)
(* holds one record at a time and a restarted one remembers none.          *)
(***************************************************************************)
EXTENDS Naturals, Sequences

CONSTANTS
  Worker,       \* server processes, each running one sweep at a time
  Address,      \* destinations, a main address with its copies
  NoAddress,    \* no usable destination
  NoWorker,
  MaxAttempts   \* MAX_ATTEMPTS, 5 in the code

ASSUME MaxAttemptsAssumption == MaxAttempts \in Nat \ {0}
ASSUME NoWorkerAssumption == NoWorker \notin Worker
ASSUME NoAddressAssumption == NoAddress \notin Address

VARIABLES
  booking,      \* the Booking, as the worker's comparison sees it
  address,      \* where each audience's mail would go now
  ev,           \* the BookingPaidEffectV1 of each audience
  wk,           \* the workers
  mail          \* what the provider accepted for each audience, in order

vars == <<booking, address, ev, wk, mail>>

Audience == {"customer", "operator"}

Effect ==
  [st: {"none", "pending", "processing", "retry", "sent", "manual_review", "resolved"},
   attempts: 0..MaxAttempts,
   attempted: BOOLEAN,          \* providerAttemptedAt
   holder: Worker \cup {NoWorker},      \* leaseToken
   expired: BOOLEAN,            \* leaseUntil has passed
   pinned: Address \cup {NoAddress},    \* recipientFingerprint
   ticket: BOOLEAN,             \* ticketQueuedAt, and the ticket.issued event
   reconciled: BOOLEAN]         \* reconciliation

WorkerState ==
  [pc: {"idle", "read", "prepare", "start", "send", "record"},
   a: Audience,
   tries: 0..MaxAttempts,       \* attempts, as claimed
   fits: BOOLEAN,               \* the booking was as it was paid for
   to: Address \cup {NoAddress},        \* the destination read
   verdict: {"none", "sent", "retry", "manual_review"}]

Idle == [pc |-> "idle", a |-> "customer", tries |-> 0, fits |-> FALSE,
         to |-> NoAddress, verdict |-> "none"]

TypeOK ==
  /\ booking \in {"pending", "paid", "changed"}
  /\ address \in [Audience -> Address \cup {NoAddress}]
  /\ ev \in [Audience -> Effect]
  /\ wk \in [Worker -> WorkerState]
  /\ mail \in [Audience -> Seq(Address)]

Init ==
  /\ booking = "pending"
  /\ address \in [Audience -> Address \cup {NoAddress}]
  /\ ev = [a \in Audience |->
             [st |-> "none", attempts |-> 0, attempted |-> FALSE, holder |-> NoWorker,
              expired |-> FALSE, pinned |-> NoAddress, ticket |-> FALSE,
              reconciled |-> FALSE]]
  /\ wk = [w \in Worker |-> Idle]
  /\ mail = [a \in Audience |-> <<>>]

-----------------------------------------------------------------------------
(* The booking and its surroundings.                                       *)

(* Without a destination, or without the attraction's presentation, the    *)
(* effect begins in a person's hands.                                      *)
FinalizePaidBooking ==
  /\ booking = "pending"
  /\ booking' = "paid"
  /\ \E presentation \in BOOLEAN :
       ev' = [a \in Audience |->
                [ev[a] EXCEPT
                   !.st = IF address[a] # NoAddress /\ presentation
                            THEN "pending" ELSE "manual_review",
                   !.pinned = address[a]]]
  /\ UNCHANGED <<address, wk, mail>>

(* Cancelled, refunded, deleted; a reversed refund makes it paid again.    *)
BookingChanges ==
  /\ booking # "pending"
  /\ booking' = IF booking = "paid" THEN "changed" ELSE "paid"
  /\ UNCHANGED <<address, ev, wk, mail>>

(* A guest's or a site's address is edited.                                *)
AddressChanges(a) ==
  /\ \E d \in Address \cup {NoAddress} : address' = [address EXCEPT ![a] = d]
  /\ UNCHANGED <<booking, ev, wk, mail>>

LeaseExpires(a) ==
  /\ ev[a].st = "processing"
  /\ ~ev[a].expired
  /\ ev' = [ev EXCEPT ![a].expired = TRUE]
  /\ UNCHANGED <<booking, address, wk, mail>>

(* reconcileNotificationFailure: expectedUpdatedAt makes what the person   *)
(* saw and the update one step.                                            *)
Reconcile(a) ==
  /\ ev[a].st \in {"retry", "manual_review"}
  /\ \E decision \in {"sent", "resolved"} :
       ev' = [ev EXCEPT ![a].st = decision, ![a].reconciled = TRUE]
  /\ UNCHANGED <<booking, address, wk, mail>>

-----------------------------------------------------------------------------
(* One worker.                                                             *)

Fence(w, a) == ev[a].st = "processing" /\ ev[a].holder = w

Freed(e, st) == [e EXCEPT !.st = st, !.holder = NoWorker, !.expired = FALSE]

(* Mutant: an expired lease is a reason to try again, whatever was begun.  *)
RecoverAlways(w, a) ==
  /\ wk[w].pc = "idle"
  /\ ev[a].st = "processing" /\ ev[a].expired
  /\ ev' = [ev EXCEPT ![a] = [Freed(@, IF @.attempts >= MaxAttempts
                                         THEN "manual_review" ELSE "retry")
                                EXCEPT !.attempted = FALSE]]
  /\ UNCHANGED <<booking, address, wk, mail>>

(* Mutant: only an uncertain delivery is looked for.                       *)
RecoverAttempted(w, a) ==
  /\ wk[w].pc = "idle"
  /\ ev[a].st = "processing" /\ ev[a].expired /\ ev[a].attempted
  /\ ev' = [ev EXCEPT ![a] = Freed(@, "manual_review")]
  /\ UNCHANGED <<booking, address, wk, mail>>

(* An expired lease: nothing was begun and it may be tried again, or only  *)
(* a person can tell.                                                      *)
Recover(w, a) ==
  /\ wk[w].pc = "idle"
  /\ ev[a].st = "processing"
  /\ ev[a].expired
  /\ ev' = [ev EXCEPT ![a] = Freed(@, IF @.attempted \/ @.attempts >= MaxAttempts
                                        THEN "manual_review" ELSE "retry")]
  /\ UNCHANGED <<booking, address, wk, mail>>

Claim(w, a) ==
  /\ wk[w].pc = "idle"
  /\ ev[a].st \in {"pending", "retry"}
  /\ ~ev[a].attempted
  /\ ev' = [ev EXCEPT ![a].st = "processing", ![a].holder = w, ![a].expired = FALSE,
                      ![a].attempts = @ + 1]
  /\ wk' = [wk EXCEPT ![w] = [Idle EXCEPT !.pc = "read", !.a = a,
                                          !.tries = ev[a].attempts + 1]]
  /\ UNCHANGED <<booking, address, mail>>

(* Booking.findOne: its state, and the guest's address with it.            *)
ReadBooking(w) ==
  /\ wk[w].pc = "read"
  /\ wk' = [wk EXCEPT ![w].pc = "prepare", ![w].fits = booking = "paid",
                      ![w].to = IF wk[w].a = "customer" THEN address["customer"]
                                ELSE NoAddress]
  /\ UNCHANGED <<booking, address, ev, mail>>

(* Tenant.findById, the comparisons, and the rendering of the notice.      *)
Prepare(w) ==
  /\ wk[w].pc = "prepare"
  /\ LET a == wk[w].a
         to == IF a = "operator" THEN address["operator"] ELSE wk[w].to
         agrees == wk[w].fits /\ to # NoAddress /\ to = ev[a].pinned
     IN  wk' = [wk EXCEPT ![w].to = IF agrees THEN to ELSE NoAddress, ![w].fits = FALSE,
                          ![w].pc = IF agrees THEN "start" ELSE "record",
                          ![w].verdict = IF agrees THEN "none" ELSE "manual_review"]
  /\ UNCHANGED <<booking, address, ev, mail>>

RetryOrReview(w) == IF wk[w].tries < MaxAttempts THEN "retry" ELSE "manual_review"

Reporting(w, verdict) ==
  [Idle EXCEPT !.pc = "record", !.a = wk[w].a, !.verdict = verdict]

(* A read, the rendering or the transaction throws: the provider was not   *)
(* called.                                                                 *)
Throws(w) ==
  /\ wk[w].pc \in {"read", "prepare", "start"}
  /\ wk' = [wk EXCEPT ![w] = Reporting(w, RetryOrReview(w))]
  /\ UNCHANGED <<booking, address, ev, mail>>

(* The record that the provider is about to be called.                     *)
Attempt(w) ==
  LET a == wk[w].a IN
  /\ Fence(w, a)
  /\ ~ev[a].expired
  /\ ev' = [ev EXCEPT ![a].attempted = TRUE, ![a].expired = FALSE,
                      ![a].ticket = @ \/ a = "customer"]

(* The lease is lost; or the attempt is on record; or it is, and the       *)
(* commit's answer is not.                                                 *)
Start(w) ==
  /\ wk[w].pc = "start"
  /\ \/ /\ ~(Fence(w, wk[w].a) /\ ~ev[wk[w].a].expired)
        /\ wk' = [wk EXCEPT ![w] = Idle]
        /\ UNCHANGED ev
     \/ /\ Attempt(w)
        /\ wk' = [wk EXCEPT ![w].pc = "send"]
     \/ /\ Attempt(w)
        /\ wk' = [wk EXCEPT ![w] = Reporting(w, RetryOrReview(w))]
  /\ UNCHANGED <<booking, address, mail>>

(* Mutant: a mail that was skipped counts as sent.                         *)
SendSkippedIsSent(w) ==
  /\ wk[w].pc = "send"
  /\ wk' = [wk EXCEPT ![w].pc = "record", ![w].verdict = "sent"]
  /\ \E accepted \in BOOLEAN :
       mail' = IF accepted THEN [mail EXCEPT ![wk[w].a] = Append(@, wk[w].to)] ELSE mail
  /\ UNCHANGED <<booking, address, ev>>

(* The provider accepts and says so; it says 429 and has not accepted; or  *)
(* it refuses, the mail is skipped, or no answer tells which it was.       *)
Send(w) ==
  /\ wk[w].pc = "send"
  /\ \E accepted \in BOOLEAN, verdict \in {"sent", RetryOrReview(w), "manual_review"} :
       /\ verdict = "sent" => accepted
       /\ verdict = "retry" => ~accepted
       /\ mail' = IF accepted THEN [mail EXCEPT ![wk[w].a] = Append(@, wk[w].to)] ELSE mail
       /\ wk' = [wk EXCEPT ![w] = Reporting(w, verdict)]
  /\ UNCHANGED <<booking, address, ev>>

(* Mutant: the outcome is written whoever holds the record by now.         *)
RecordUnfenced(w) ==
  /\ wk[w].pc = "record"
  /\ ev' = [ev EXCEPT ![wk[w].a] = Freed(@, wk[w].verdict)]
  /\ wk' = [wk EXCEPT ![w] = Idle]
  /\ UNCHANGED <<booking, address, mail>>

Concluded(e, st) == [Freed(e, st) EXCEPT !.attempted = @ /\ st # "retry"]

(* What came of it, unless another has the record: the lease may be over.  *)
Record(w) ==
  LET a == wk[w].a IN
  /\ wk[w].pc = "record"
  /\ ev' = IF Fence(w, a) THEN [ev EXCEPT ![a] = Concluded(@, wk[w].verdict)] ELSE ev
  /\ wk' = [wk EXCEPT ![w] = Idle]
  /\ UNCHANGED <<booking, address, mail>>

(* The process ends, wherever it is, and another takes its place.          *)
Dies(w) ==
  /\ wk[w].pc # "idle"
  /\ wk' = [wk EXCEPT ![w] = Idle]
  /\ UNCHANGED <<booking, address, ev, mail>>

Work(w) == ReadBooking(w) \/ Prepare(w) \/ Start(w) \/ Send(w) \/ Record(w)

Next ==
  \/ FinalizePaidBooking
  \/ BookingChanges
  \/ \E a \in Audience : AddressChanges(a) \/ LeaseExpires(a) \/ Reconcile(a)
  \/ \E w \in Worker, a \in Audience : Recover(w, a) \/ Claim(w, a)
  \/ \E w \in Worker : Work(w) \/ Throws(w) \/ Dies(w)

Spec == Init /\ [][Next]_vars

(* The interval timer starts a pass again and again, a pass goes on until  *)
(* its process dies, and leases run out.  Dying is never fair, nor ruled   *)
(* out: a worker may die in every attempt.                                 *)
FairSpec ==
  /\ Spec
  /\ \A a \in Audience :
       /\ WF_vars(LeaseExpires(a))
       /\ WF_vars(\E w \in Worker : Recover(w, a))
       /\ WF_vars(\E w \in Worker : Claim(w, a))
  /\ \A w \in Worker : WF_vars(Work(w))

-----------------------------------------------------------------------------
(* Properties.                                                             *)

(* No audience gets the confirmation twice, however workers die, outlive   *)
(* their leases, are told 429 or get no answer.                            *)
AtMostOnce == \A a \in Audience : Len(mail[a]) <= 1

(* A confirmation goes where it would have gone when the booking was paid: *)
(* no later edit redirects it (recipientFingerprint).                      *)
PinnedRecipient ==
  \A a \in Audience : \A i \in 1..Len(mail[a]) : mail[a][i] = ev[a].pinned

(* A record that says sent, and that no person has set so, is the record   *)
(* of a mail the provider took.                                            *)
SentIsTrue ==
  \A a \in Audience : ev[a].st = "sent" /\ ~ev[a].reconciled => mail[a] # <<>>

(* No customer has a confirmation in hand while the ticket.issued event is *)
(* still to be written: a crash cannot lose the integration's event.       *)
TicketBeforeMail == mail["customer"] # <<>> => ev["customer"].ticket

(* The books and the mailboxes agree, both ways: no record claims a mail   *)
(* that was never taken, no mail is out before its ticket's event.         *)
MailIsBacked == SentIsTrue /\ TicketBeforeMail

(* Outcomes are final, and what a person is to look at is left to a        *)
(* person: late workers change neither.                                    *)
OutcomesStand ==
  [][\A a \in Audience :
       /\ ev[a].st \in {"sent", "resolved"} => ev'[a].st = ev[a].st
       /\ ev[a].st = "manual_review" /\ ev'[a].st # "manual_review"
            => ev'[a].reconciled]_ev

(* Every confirmation of a paid booking is sent or put before a person,    *)
(* even if a worker dies in every attempt.                                 *)
EffectsSettle ==
  \A a \in Audience :
    booking # "pending" ~> ev[a].st \in {"sent", "manual_review", "resolved"}
=============================================================================
