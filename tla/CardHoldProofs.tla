--------------------------- MODULE CardHoldProofs ---------------------------
(***************************************************************************)
(* Theorems about CardHold for any number of requests, sweeps and intents. *)
(*                                                                         *)
(* The safety properties are not inductive: they follow from what is known *)
(* about the requests and sweeps between two of their awaits.  IInv says   *)
(* it, in the parts named below.  The last section is the safety half of   *)
(* the refinement: every behaviour of CardHold is one of HoldContract.     *)
(* (The contract's fairness is checked by TLC.)                            *)
(***************************************************************************)
EXTENDS CardHoldRefinement, TLAPS

(* A session is claimed before anything is created for it at Stripe, and   *)
(* a request past its claim implies the claim.                             *)
ClaimFirst ==
  /\ made # 0 => bk.claimed
  /\ \A h \in Handler :
       /\ hd[h].claimed => bk.claimed
       /\ hd[h].pc \in {"create", "bind"} => bk.claimed

(* There is one intent, number 1; the key answers with it until Stripe     *)
(* forgets the key, and by then nobody may use the key any more.           *)
SoleIntent ==
  /\ made \in {0, 1}
  /\ key \in {0, made}
  /\ bk.pi \in {0, made}
  /\ \A n \in Intents : intent[n] # "absent" => n = made
  /\ made # 0 => intent[1] # "absent"
  /\ made # 0 /\ key = 0 => ~recoverable
  /\ \A h \in Handler :
       /\ hd[h].pc = "create" /\ made # 0 => key # 0
       /\ hd[h].pc = "bind" => made = 1 /\ hd[h].id = 1

(* What a sweep knows at each of its steps.                                *)
SweepKnows ==
  \A s \in Sweeper :
    /\ sw[s].pi \in {0, bk.pi}
    /\ sw[s].found \in {0, made}
    /\ sw[s].status = "cancelled" => bk.status = "cancelled"
    /\ sw[s].pc = "recover" => bk.claimed
    /\ sw[s].pc = "retrieve" => sw[s].pi # 0
    /\ sw[s].pc = "cancel" => SweepIntent(s) # 0
    /\ sw[s].pc = "release" =>
         \/ SweepIntent(s) # 0 /\ intent[SweepIntent(s)] = "canceled"
         \/ SweepIntent(s) = 0 /\ sw[s].status = "pending"

(* Only a bound intent is payable: nobody else has seen its secret.        *)
BoundMoney ==
  /\ shown \subseteq {bk.pi} \ {0}
  /\ \A n \in Intents : intent[n] \in {"processing", "succeeded"} => n = bk.pi

(* The booking's own fields agree with each other and with Stripe.         *)
Consistent ==
  /\ bk.released <=> bk.status = "cancelled"
  /\ bk.legacy => bk.released
  /\ bk.status = "confirmed" <=> bk.pay = "succeeded"
  /\ bk.status = "confirmed" => bk.pi # 0 /\ intent[bk.pi] = "succeeded"
  /\ bk.closed => bk.claimed /\ made # 0 /\ intent[1] = "canceled"
  /\ op # "none" => bk.cancelReq
  /\ bk.cancelReq => ~bk.claimed
  /\ bk.released /\ ~bk.legacy /\ bk.claimed => made # 0 /\ intent[1] = "canceled"

IInv == TypeOK /\ ClaimFirst /\ SoleIntent /\ SweepKnows /\ BoundMoney /\ Consistent
-----------------------------------------------------------------------------
(* A PaymentIntent's name is a number, and not the name of no intent.      *)
LEMMA IntentIsNumber ==
  0 \in IntentOrNone /\ \A n : n \in Intents <=> n \in IntentOrNone /\ n # 0
BY MaxIntentsAssumption DEF Intents, IntentOrNone

(* The records the requests and the sweeps pass through, and the states    *)
(* the booking passes through, are of their types.                         *)
LEMMA HandlerUpdates ==
  ASSUME hd \in [Handler -> HandlerState], NEW h \in Handler, NEW n \in IntentOrNone
  PROVE  /\ hd[h].id \in IntentOrNone
         /\ [hd EXCEPT ![h] = IdleHandler] \in [Handler -> HandlerState]
         /\ [hd EXCEPT ![h].pc = "create"] \in [Handler -> HandlerState]
         /\ [hd EXCEPT ![h].pc = "resume"] \in [Handler -> HandlerState]
         /\ [hd EXCEPT ![h] = [@ EXCEPT !.pc = "bind", !.id = n]]
              \in [Handler -> HandlerState]
<1>1. hd[h] \in HandlerState /\ IdleHandler \in HandlerState
  BY IntentIsNumber DEF HandlerState, IdleHandler
<1>2. /\ [hd[h] EXCEPT !.pc = "create"] \in HandlerState
      /\ [hd[h] EXCEPT !.pc = "resume"] \in HandlerState
      /\ [hd[h] EXCEPT !.pc = "bind", !.id = n] \in HandlerState
  BY <1>1 DEF HandlerState
<1>3. hd[h].id \in IntentOrNone
  BY <1>1 DEF HandlerState
<1> QED
  BY <1>1, <1>2, <1>3

(* The same for each sweep's record: expireStaleCardHolds keeps its types. *)
LEMMA SweepUpdates ==
  ASSUME sw \in [Sweeper -> SweepState], NEW s \in Sweeper, NEW n \in IntentOrNone
  PROVE  /\ sw[s] \in SweepState
         /\ sw[s].pi \in IntentOrNone
         /\ sw[s].found \in IntentOrNone
         /\ [sw EXCEPT ![s] = IdleSweep] \in [Sweeper -> SweepState]
         /\ [sw EXCEPT ![s].pc = "cancel"] \in [Sweeper -> SweepState]
         /\ [sw EXCEPT ![s].pc = "release"] \in [Sweeper -> SweepState]
         /\ [sw EXCEPT ![s] = [@ EXCEPT !.pc = "cancel", !.found = n]]
              \in [Sweeper -> SweepState]
<1>1. sw[s] \in SweepState /\ IdleSweep \in SweepState
  BY IntentIsNumber DEF SweepState, IdleSweep
<1>2. /\ [sw[s] EXCEPT !.pc = "cancel"] \in SweepState
      /\ [sw[s] EXCEPT !.pc = "release"] \in SweepState
      /\ [sw[s] EXCEPT !.pc = "cancel", !.found = n] \in SweepState
  BY <1>1 DEF SweepState
<1>3. sw[s].pi \in IntentOrNone /\ sw[s].found \in IntentOrNone
  BY <1>1 DEF SweepState
<1> QED
  BY <1>1, <1>2, <1>3

(* The same for the booking, whichever conditional write changes it.       *)
LEMMA BookingUpdates ==
  ASSUME bk \in BookingDoc, NEW n \in IntentOrNone, NEW b \in BOOLEAN
  PROVE  /\ bk.pi \in IntentOrNone /\ bk.claimed \in BOOLEAN
         /\ [bk EXCEPT !.claimed = TRUE] \in BookingDoc
         /\ [bk EXCEPT !.pi = n, !.pay = "processing"] \in BookingDoc
         /\ [bk EXCEPT !.pay = "succeeded", !.status = "confirmed"] \in BookingDoc
         /\ [bk EXCEPT !.pay = "failed"] \in BookingDoc
         /\ [bk EXCEPT !.closed = TRUE] \in BookingDoc
         /\ [bk EXCEPT !.cancelReq = TRUE] \in BookingDoc
         /\ [bk EXCEPT !.status = "cancelled", !.released = TRUE] \in BookingDoc
         /\ [bk EXCEPT !.pay = "failed", !.status = "cancelled", !.released = TRUE,
                       !.pi = n, !.closed = b] \in BookingDoc
BY DEF BookingDoc, Unpaid

(* A booking just created, and one an earlier release left, are typed.     *)
LEMMA TypeInit == Init => TypeOK
<1>1. FreshBooking \in BookingDoc
  BY IntentIsNumber DEF FreshBooking, BookingDoc, Unpaid
<1>2. ASSUME Quiet, bk \in BookingDoc
      PROVE  /\ shown \in SUBSET IntentOrNone
             /\ hd \in [Handler -> HandlerState]
             /\ sw \in [Sweeper -> SweepState]
  <2>1. bk.pi \in IntentOrNone
    BY <1>2 DEF BookingDoc
  <2>2. IdleHandler \in HandlerState /\ IdleSweep \in SweepState
    BY IntentIsNumber DEF IdleHandler, IdleSweep, HandlerState, SweepState
  <2> QED
    BY <1>2, <2>1, <2>2, MaxIntentsAssumption DEF Quiet, Intents, IntentOrNone
<1>3. ASSUME InitFresh PROVE TypeOK
  BY <1>1, <1>2, <1>3, IntentIsNumber
     DEF InitFresh, TypeOK, IntentState, Quiet
<1>4. ASSUME InitLegacy PROVE TypeOK
  <2>1. {0, 1} \subseteq IntentOrNone
    BY MaxIntentsAssumption DEF IntentOrNone
  <2>2. bk \in BookingDoc
    <3>1. PICK n \in {0, 1}, q \in Unpaid :
            bk = [FreshBooking EXCEPT !.status = "cancelled", !.released = TRUE,
                                      !.claimed = TRUE, !.legacy = TRUE,
                                      !.pi = n, !.pay = q]
      BY <1>4 DEF InitLegacy
    <3> QED
      BY <1>1, <2>1, <3>1 DEF BookingDoc
  <2>3. made \in IntentOrNone /\ key \in IntentOrNone
    BY <1>4, <2>1 DEF InitLegacy
  <2>4. intent \in [Intents -> IntentState]
    BY <1>4 DEF InitLegacy, IntentState
  <2> QED
    BY <1>2, <1>4, <2>2, <2>3, <2>4 DEF InitLegacy, TypeOK, Quiet
<1> QED
  BY <1>3, <1>4 DEF Init

(* Every action keeps every variable in its type.                          *)
LEMMA TypeStep == TypeOK /\ [Next]_vars => TypeOK'
<1> SUFFICES ASSUME TypeOK, [Next]_vars PROVE TypeOK'
    OBVIOUS
<1> USE IntentIsNumber DEF TypeOK, stripe, clock
<1>1. ASSUME NEW h \in Handler, Pay(h) \/ PayStops(h) PROVE TypeOK'
  <2> USE HandlerUpdates
  <2>1. CASE PayRead(h)
    <3>1. [pc |-> IF bk.pi # 0 THEN "resume" ELSE "claim",
           claimed |-> bk.claimed, id |-> 0] \in HandlerState
      BY BookingUpdates DEF HandlerState
    <3> QED
      BY <2>1, <3>1 DEF PayRead
  <2>2. CASE PayClaim(h)
    <3>1. bk' \in BookingDoc
      BY <2>2, BookingUpdates DEF PayClaim
    <3> QED
      BY <2>2, <3>1 DEF PayClaim
  <2>3. CASE PayCreate(h)
    <3>1. PICK n \in Intents :
            /\ CreateIntent(n)
            /\ hd' = [hd EXCEPT ![h] = [@ EXCEPT !.pc = "bind", !.id = n]]
      BY <2>3 DEF PayCreate
    <3>2. n \in IntentOrNone
      OBVIOUS
    <3>3. hd' \in [Handler -> HandlerState]
      BY <3>1, <3>2
    <3> QED
      BY <2>3, <3>1, <3>2, <3>3 DEF PayCreate, CreateIntent, IntentState
  <2>4. CASE PayBind(h)
    <3>1. hd[h].id \in IntentOrNone
      OBVIOUS
    <3>2. bk' \in BookingDoc
      <4>1. [bk EXCEPT !.pi = hd[h].id, !.pay = "processing"] \in BookingDoc
        BY <3>1, BookingUpdates
      <4> QED
        BY <2>4, <4>1 DEF PayBind
    <3>3. shown' = shown \/ shown' = shown \cup {hd[h].id}
      BY <2>4 DEF PayBind
    <3>4. shown' \in SUBSET IntentOrNone
      BY <3>1, <3>3
    <3> QED
      BY <2>4, <3>2, <3>4 DEF PayBind
  <2>5. CASE PayResume(h)
    BY <2>5, BookingUpdates DEF PayResume
  <2>6. CASE PayStops(h)
    BY <2>6 DEF PayStops
  <2> QED
    BY <1>1, <2>1, <2>2, <2>3, <2>4, <2>5, <2>6 DEF Pay
<1>2. ASSUME NEW s \in Sweeper, Sweep(s) \/ SweepStops(s) PROVE TypeOK'
  <2> USE SweepUpdates
  <2>1. CASE SweepRead(s)
    <3>1. [pc |-> IF bk.pi # 0 THEN "retrieve"
                  ELSE IF bk.claimed THEN "recover" ELSE "release",
           pi |-> bk.pi, status |-> bk.status, found |-> 0] \in SweepState
      BY <2>1 DEF SweepRead, Candidate, SweepState, BookingDoc
    <3> QED
      BY <2>1, <3>1 DEF SweepRead
  <2>2. CASE SweepRecover(s)
    <3>1. CASE sw' = [sw EXCEPT ![s] = IdleSweep] /\ UNCHANGED stripe
      BY <2>2, <3>1 DEF SweepRecover
    <3>2. ASSUME NEW n \in Intents, CreateIntent(n),
                 sw' = [sw EXCEPT ![s] = [@ EXCEPT !.pc = "cancel", !.found = n]]
          PROVE TypeOK'
      <4>1. n \in IntentOrNone
        OBVIOUS
      <4>2. sw' \in [Sweeper -> SweepState]
        BY <3>2, <4>1
      <4> QED
        BY <2>2, <3>2, <4>1, <4>2 DEF SweepRecover, CreateIntent, IntentState
    <3> QED
      BY <2>2, <3>1, <3>2 DEF SweepRecover
  <2>3. CASE SweepRetrieve(s)
    BY <2>3 DEF SweepRetrieve
  <2>4. CASE SweepCancel(s)
    BY <2>4 DEF SweepCancel, IntentState
  <2>5. CASE SweepRelease(s)
    <3>1. ReleaseHold(s) \in BookingDoc
      <4>1. (IF bk.pi = 0 THEN sw[s].found ELSE bk.pi) \in IntentOrNone
        BY BookingUpdates
      <4>2. (SweepIntent(s) # 0) \in BOOLEAN
        OBVIOUS
      <4> QED
        BY <4>1, <4>2, BookingUpdates DEF ReleaseHold
    <3>2. bk' \in BookingDoc
      BY <2>5, <3>1, BookingUpdates DEF SweepRelease
    <3> QED
      BY <2>5, <3>2 DEF SweepRelease
  <2>6. CASE SweepStops(s)
    BY <2>6 DEF SweepStops
  <2> QED
    BY <1>2, <2>1, <2>2, <2>3, <2>4, <2>5, <2>6 DEF Sweep
<1>3. ASSUME NEW n \in Intents, CustomerPays(n) \/ Settles(n) PROVE TypeOK'
  BY <1>3 DEF CustomerPays, Settles, ChargeSucceeds, ChargeDeclined, IntentState
<1>4. CASE StripeForgetsKey \/ HoldAges \/ ClaimAges
  BY <1>4 DEF StripeForgetsKey, HoldAges, ClaimAges
<1>5. CASE FinalizePaid
  BY <1>5, BookingUpdates DEF FinalizePaid
<1>6. CASE DeclineRead \/ DeclineApply \/ DeclineStops
  BY <1>6, BookingUpdates DEF DeclineRead, DeclineApply, DeclineStops
<1>7. CASE RequestCancel \/ CancelRead \/ CancelFinalize \/ CancelStops
  BY <1>7, BookingUpdates DEF RequestCancel, CancelRead, CancelFinalize, CancelStops
<1>8. CASE UNCHANGED vars
  BY <1>8 DEF vars
<1> QED
  BY <1>1, <1>2, <1>3, <1>4, <1>5, <1>6, <1>7, <1>8 DEF Next, Crash

(* The type invariant: every booking, intent, request and sweep the code   *)
(* can reach is one of the states the model enumerates.                    *)
THEOREM TypeCorrect == Spec => []TypeOK
<1>1. Init => TypeOK
  BY TypeInit
<1>2. TypeOK /\ [Next]_vars => TypeOK'
  BY TypeStep
<1> QED
  BY <1>1, <1>2, PTL DEF Spec
-----------------------------------------------------------------------------
(* What the update of each conditional write leaves in the booking.        *)
LEMMA BoundFields ==
  ASSUME bk \in BookingDoc, NEW n \in IntentOrNone,
         bk' = [bk EXCEPT !.pi = n, !.pay = "processing"]
  PROVE  /\ bk'.pi = n /\ bk'.pay = "processing"
         /\ bk'.status = bk.status /\ bk'.claimed = bk.claimed
         /\ bk'.closed = bk.closed /\ bk'.released = bk.released
         /\ bk'.cancelReq = bk.cancelReq /\ bk'.legacy = bk.legacy
BY DEF BookingDoc

(* failCardBookingAndReleaseInventory keeps the payment it is bound to.    *)
LEMMA ReleasedFields ==
  ASSUME bk \in BookingDoc, NEW s \in Sweeper, bk' = ReleaseHold(s)
  PROVE  /\ bk'.pi = IF bk.pi = 0 THEN sw[s].found ELSE bk.pi
         /\ bk'.pay = "failed" /\ bk'.status = "cancelled" /\ bk'.released = TRUE
         /\ bk'.closed => SweepIntent(s) # 0
         /\ bk'.claimed = bk.claimed
         /\ bk'.cancelReq = bk.cancelReq /\ bk'.legacy = bk.legacy
BY DEF BookingDoc, ReleaseHold

(* The invariant survives every action.                                    *)
LEMMA InvStep == IInv /\ [Next]_vars => IInv'
<1> SUFFICES ASSUME IInv, [Next]_vars PROVE IInv'
    OBVIOUS
<1> DEFINE Parts == ClaimFirst /\ SoleIntent /\ SweepKnows /\ BoundMoney /\ Consistent
<1>0. TypeOK'
  BY TypeStep DEF IInv
<1> USE IntentIsNumber
    DEF IInv, TypeOK, BookingDoc, HandlerState, SweepState, IntentState, IdleHandler,
        IdleSweep, Unpaid, stripe, clock, SweepIntent,
        ClaimFirst, SoleIntent, SweepKnows, BoundMoney, Consistent
<1>1. ASSUME NEW h \in Handler, PayRead(h) PROVE Parts'
  <2>1. ClaimFirst'
    BY <1>1 DEF PayRead
  <2>2. SoleIntent'
    BY <1>1 DEF PayRead
  <2>3. SweepKnows'
    BY <1>1 DEF PayRead
  <2>4. BoundMoney'
    BY <1>1 DEF PayRead
  <2>5. Consistent'
    BY <1>1 DEF PayRead
  <2> QED
    BY <2>1, <2>2, <2>3, <2>4, <2>5
<1>2. ASSUME NEW h \in Handler, PayClaim(h) PROVE Parts'
  <2>1. ClaimFirst'
    BY <1>2 DEF PayClaim, SessionClaimable
  <2>2. SoleIntent'
    BY <1>2 DEF PayClaim, SessionClaimable
  <2>3. SweepKnows'
    BY <1>2 DEF PayClaim, SessionClaimable
  <2>4. BoundMoney'
    BY <1>2 DEF PayClaim, SessionClaimable
  <2>5. Consistent'
    BY <1>2 DEF PayClaim, SessionClaimable
  <2> QED
    BY <2>1, <2>2, <2>3, <2>4, <2>5
<1>3. ASSUME NEW h \in Handler, PayCreate(h) PROVE Parts'
  <2>1. ClaimFirst'
    BY <1>3 DEF PayCreate, CreateIntent
  <2>2. SoleIntent'
    BY <1>3 DEF PayCreate, CreateIntent
  <2>3. SweepKnows'
    BY <1>3 DEF PayCreate, CreateIntent
  <2>4. BoundMoney'
    BY <1>3 DEF PayCreate, CreateIntent
  <2>5. Consistent'
    BY <1>3 DEF PayCreate, CreateIntent
  <2> QED
    BY <2>1, <2>2, <2>3, <2>4, <2>5
<1>4. ASSUME NEW h \in Handler, PayBind(h) PROVE Parts'
  <2>1. CASE ~Bindable
    <3>1. UNCHANGED <<bk, stripe, shown, clock, failHook, op, sw>>
      BY <1>4, <2>1 DEF PayBind
    <3>2. hd' = [hd EXCEPT ![h].pc = "resume"]
      BY <1>4, <2>1 DEF PayBind
    <3> QED
      BY <3>1, <3>2
  <2>2. CASE Bindable
    <3>1. hd[h].pc = "bind" /\ hd[h].id = 1 /\ made = 1
      BY <1>4 DEF PayBind
    <3>2. /\ bk' = [bk EXCEPT !.pi = 1, !.pay = "processing"]
          /\ shown' = shown \cup {1}
          /\ hd' = [hd EXCEPT ![h] = IdleHandler]
          /\ UNCHANGED <<stripe, clock, failHook, op, sw>>
      BY <1>4, <2>2, <3>1 DEF PayBind
    <3>3. bk.pi = 0 /\ bk.status = "pending" /\ 1 \in Intents
      BY <2>2, <3>1 DEF Bindable
    <3>4. /\ bk'.pi = 1 /\ bk'.pay = "processing"
          /\ bk'.status = bk.status /\ bk'.claimed = bk.claimed
          /\ bk'.closed = bk.closed /\ bk'.released = bk.released
          /\ bk'.cancelReq = bk.cancelReq /\ bk'.legacy = bk.legacy
      BY <3>2, <3>3, BoundFields
    <3> HIDE DEF BookingDoc
    <3>5. ClaimFirst' /\ SoleIntent'
      BY <3>1, <3>2, <3>4
    <3>6. SweepKnows'
      BY <3>1, <3>2, <3>3, <3>4
    <3>7. BoundMoney'
      BY <3>1, <3>2, <3>3, <3>4
    <3>8. Consistent'
      BY <3>1, <3>2, <3>3, <3>4
    <3> QED
      BY <3>5, <3>6, <3>7, <3>8
  <2> QED
    BY <2>1, <2>2
<1>5. ASSUME NEW h \in Handler, PayResume(h) PROVE Parts'
  <2>1. ClaimFirst'
    BY <1>5 DEF PayResume
  <2>2. SoleIntent'
    BY <1>5 DEF PayResume
  <2>3. SweepKnows'
    BY <1>5 DEF PayResume
  <2>4. BoundMoney'
    BY <1>5 DEF PayResume
  <2>5. Consistent'
    BY <1>5 DEF PayResume
  <2> QED
    BY <2>1, <2>2, <2>3, <2>4, <2>5
<1>6. ASSUME NEW h \in Handler, PayStops(h) PROVE Parts'
  <2>1. ClaimFirst'
    BY <1>6 DEF PayStops
  <2>2. SoleIntent'
    BY <1>6 DEF PayStops
  <2>3. SweepKnows'
    BY <1>6 DEF PayStops
  <2>4. BoundMoney'
    BY <1>6 DEF PayStops
  <2>5. Consistent'
    BY <1>6 DEF PayStops
  <2> QED
    BY <2>1, <2>2, <2>3, <2>4, <2>5
<1>7. ASSUME NEW s \in Sweeper, SweepRead(s) PROVE Parts'
  <2>1. ClaimFirst'
    BY <1>7 DEF SweepRead, Candidate
  <2>2. SoleIntent'
    BY <1>7 DEF SweepRead, Candidate
  <2>3. SweepKnows'
    BY <1>7 DEF SweepRead, Candidate
  <2>4. BoundMoney'
    BY <1>7 DEF SweepRead, Candidate
  <2>5. Consistent'
    BY <1>7 DEF SweepRead, Candidate
  <2> QED
    BY <2>1, <2>2, <2>3, <2>4, <2>5
<1>8. ASSUME NEW s \in Sweeper, SweepRecover(s) PROVE Parts'
  <2>1. CASE sw' = [sw EXCEPT ![s] = IdleSweep] /\ UNCHANGED stripe
    <3>1. ClaimFirst' /\ SoleIntent' /\ BoundMoney' /\ Consistent'
      BY <1>8, <2>1 DEF SweepRecover
    <3>2. UNCHANGED <<bk, intent, made>>
      BY <1>8, <2>1 DEF SweepRecover
    <3>3. SweepKnows'
      BY <2>1, <3>2
    <3> QED
      BY <3>1, <3>3
  <2>2. CASE sw' # [sw EXCEPT ![s] = IdleSweep] \/ ~UNCHANGED stripe
    <3>1. PICK n \in Intents :
            /\ CreateIntent(n)
            /\ sw' = [sw EXCEPT ![s] = [@ EXCEPT !.pc = "cancel", !.found = n]]
      BY <1>8, <2>2 DEF SweepRecover
    <3>2. recoverable /\ bk.claimed /\ UNCHANGED <<bk, shown, clock, failHook, op, hd>>
      BY <1>8, <2>2 DEF SweepRecover
    <3>3. n = 1 /\ made' = 1
      BY <3>1, <3>2 DEF CreateIntent
    <3>4. sw[s].found = 0 \/ sw[s].found = 1
      OBVIOUS
    <3>5. ClaimFirst'
      BY <3>2
    <3>6. SoleIntent'
      BY <3>1, <3>2, <3>3 DEF CreateIntent
    <3>7. SweepKnows'
      <4>1. ASSUME NEW t \in Sweeper
            PROVE  /\ sw'[t].pi = sw[t].pi /\ sw'[t].status = sw[t].status
                   /\ t = s => sw'[t].pc = "cancel" /\ sw'[t].found = 1
                   /\ t # s => sw'[t] = sw[t]
        BY <3>1, <3>3
      <4>2. \A m \in Intents : intent[m] = "canceled" => intent'[m] = "canceled"
        BY <3>1 DEF CreateIntent
      <4> QED
        BY <3>2, <3>3, <4>1, <4>2
    <3>8. BoundMoney' /\ Consistent'
      BY <3>1, <3>2, <3>3 DEF CreateIntent
    <3> QED
      BY <3>5, <3>6, <3>7, <3>8
  <2> QED
    BY <2>1, <2>2
<1>9. ASSUME NEW s \in Sweeper, SweepRetrieve(s) PROVE Parts'
  <2>1. ClaimFirst'
    BY <1>9 DEF SweepRetrieve
  <2>2. SoleIntent'
    BY <1>9 DEF SweepRetrieve
  <2>3. SweepKnows'
    BY <1>9 DEF SweepRetrieve
  <2>4. BoundMoney'
    BY <1>9 DEF SweepRetrieve
  <2>5. Consistent'
    BY <1>9 DEF SweepRetrieve
  <2> QED
    BY <2>1, <2>2, <2>3, <2>4, <2>5
<1>10. ASSUME NEW s \in Sweeper, SweepCancel(s) PROVE Parts'
  <2>1. ClaimFirst' /\ SoleIntent'
    BY <1>10 DEF SweepCancel
  <2>2. SweepKnows'
    <3>1. CASE sw' = [sw EXCEPT ![s] = IdleSweep] /\ UNCHANGED intent
      BY <1>10, <3>1 DEF SweepCancel
    <3>2. CASE /\ intent' = [intent EXCEPT ![SweepIntent(s)] = "canceled"]
               /\ sw' = [sw EXCEPT ![s].pc = "release"]
      <4>1. SweepIntent(s) \in Intents
        BY <1>10 DEF SweepCancel
      <4>2. \A m \in Intents : intent[m] = "canceled" => intent'[m] = "canceled"
        BY <3>2
      <4>3. intent'[SweepIntent(s)] = "canceled"
        BY <3>2, <4>1
      <4>4. ASSUME NEW t \in Sweeper
            PROVE  /\ sw'[t].pi = sw[t].pi /\ sw'[t].found = sw[t].found
                   /\ sw'[t].status = sw[t].status
                   /\ sw'[t].pc = IF t = s THEN "release" ELSE sw[t].pc
        BY <3>2
      <4>5. UNCHANGED <<bk, made>>
        BY <1>10 DEF SweepCancel
      <4> QED
        BY <1>10, <4>1, <4>2, <4>3, <4>4, <4>5 DEF SweepCancel
    <3> QED
      BY <1>10, <3>1, <3>2 DEF SweepCancel
  <2>3. BoundMoney' /\ Consistent'
    BY <1>10 DEF SweepCancel
  <2> QED
    BY <2>1, <2>2, <2>3
<1>11. ASSUME NEW s \in Sweeper, SweepRelease(s) PROVE Parts'
  <2>0. /\ sw[s].pc = "release"
        /\ sw' = [sw EXCEPT ![s] = IdleSweep]
        /\ UNCHANGED <<stripe, shown, clock, failHook, op, hd>>
    BY <1>11 DEF SweepRelease
  <2>1. CASE UNCHANGED bk
    BY <2>0, <2>1
  <2>2. CASE /\ sw[s].status = "pending"
             /\ HoldReleasable(s)
             /\ bk' = ReleaseHold(s)
    <3>1. /\ bk'.pi = IF bk.pi = 0 THEN sw[s].found ELSE bk.pi
          /\ bk'.pay = "failed" /\ bk'.status = "cancelled" /\ bk'.released = TRUE
          /\ bk'.closed => SweepIntent(s) # 0
          /\ bk'.claimed = bk.claimed
          /\ bk'.cancelReq = bk.cancelReq /\ bk'.legacy = bk.legacy
      BY <2>2, ReleasedFields
    <3>2. \/ SweepIntent(s) = 1 /\ made = 1 /\ intent[1] = "canceled"
          \/ SweepIntent(s) = 0 /\ ~bk.claimed /\ made = 0
      BY <2>0, <2>2 DEF HoldReleasable
    <3>3. bk.status = "pending" /\ bk'.pi \in {0, made} /\ (bk.pi # 0 => bk'.pi = bk.pi)
      BY <2>2, <3>1 DEF HoldReleasable
    <3> HIDE DEF BookingDoc
    <3>4. ClaimFirst' /\ SoleIntent'
      BY <2>0, <3>1, <3>3
    <3>5. SweepKnows'
      BY <2>0, <3>1, <3>3
    <3>6. BoundMoney'
      BY <2>0, <3>1, <3>2, <3>3
    <3>7. bk'.closed => bk.claimed /\ made # 0 /\ intent[1] = "canceled"
      BY <3>1, <3>2
    <3>8. bk'.claimed => made # 0 /\ intent[1] = "canceled"
      BY <3>1, <3>2
    <3>9. Consistent'
      BY <2>0, <3>1, <3>7, <3>8
    <3> QED
      BY <3>4, <3>5, <3>6, <3>9
  <2>3. CASE /\ sw[s].status = "cancelled" /\ bk.status = "cancelled"
             /\ bk' = [bk EXCEPT !.closed = TRUE]
    <3>1. SweepIntent(s) = 1 /\ made = 1 /\ intent[1] = "canceled" /\ bk.claimed
      BY <2>0, <2>3
    <3> QED
      BY <2>0, <2>3, <3>1
  <2> QED
    BY <1>11, <2>1, <2>2, <2>3 DEF SweepRelease
<1>12. ASSUME NEW s \in Sweeper, SweepStops(s) PROVE Parts'
  <2>1. ClaimFirst'
    BY <1>12 DEF SweepStops
  <2>2. SoleIntent'
    BY <1>12 DEF SweepStops
  <2>3. SweepKnows'
    BY <1>12 DEF SweepStops
  <2>4. BoundMoney'
    BY <1>12 DEF SweepStops
  <2>5. Consistent'
    BY <1>12 DEF SweepStops
  <2> QED
    BY <2>1, <2>2, <2>3, <2>4, <2>5
<1>13. ASSUME NEW n \in Intents, CustomerPays(n) PROVE Parts'
  BY <1>13 DEF CustomerPays
<1>14. ASSUME NEW n \in Intents, ChargeSucceeds(n) PROVE Parts'
  BY <1>14 DEF ChargeSucceeds
<1>15. ASSUME NEW n \in Intents, ChargeDeclined(n) PROVE Parts'
  BY <1>15 DEF ChargeDeclined
<1>16. ASSUME StripeForgetsKey PROVE Parts'
  BY <1>16 DEF StripeForgetsKey
<1>17. ASSUME HoldAges PROVE Parts'
  BY <1>17 DEF HoldAges
<1>18. ASSUME ClaimAges PROVE Parts'
  <2>1. ClaimFirst' /\ SoleIntent'
    BY <1>18 DEF ClaimAges
  <2>2. SweepKnows' /\ BoundMoney' /\ Consistent'
    BY <1>18 DEF ClaimAges
  <2> QED
    BY <2>1, <2>2
<1>19. ASSUME FinalizePaid PROVE Parts'
  BY <1>19 DEF FinalizePaid
<1>20. ASSUME DeclineRead PROVE Parts'
  BY <1>20 DEF DeclineRead
<1>21. ASSUME DeclineApply PROVE Parts'
  BY <1>21 DEF DeclineApply
<1>22. ASSUME DeclineStops PROVE Parts'
  BY <1>22 DEF DeclineStops
<1>23. ASSUME RequestCancel PROVE Parts'
  BY <1>23 DEF RequestCancel
<1>24. ASSUME CancelRead PROVE Parts'
  BY <1>24 DEF CancelRead, AlreadyReleased
<1>25. ASSUME CancelFinalize PROVE Parts'
  BY <1>25 DEF CancelFinalize, Cancellable
<1>26. ASSUME CancelStops PROVE Parts'
  BY <1>26 DEF CancelStops
<1>27. ASSUME UNCHANGED vars PROVE Parts'
  BY <1>27 DEF vars
<1> QED
  BY <1>0, <1>1, <1>2, <1>3, <1>4, <1>5, <1>6, <1>7, <1>8, <1>9, <1>10, <1>11, <1>12, <1>13, <1>14, <1>15, <1>16, <1>17, <1>18, <1>19, <1>20, <1>21, <1>22, <1>23, <1>24, <1>25, <1>26, <1>27
     DEF Next, Pay, Sweep, Settles, Crash

(* The invariant holds before any request or sweep has run.                *)
LEMMA InvInit == Init => IInv
<1> SUFFICES ASSUME Init PROVE IInv
    OBVIOUS
<1>1. TypeOK
  BY TypeInit
<1> USE IntentIsNumber, MaxIntentsAssumption
    DEF Quiet, IdleHandler, IdleSweep, ClaimFirst, SoleIntent, SweepKnows, BoundMoney,
        Consistent, Unpaid, Intents
<1>2. ASSUME InitFresh PROVE IInv
  BY <1>1, <1>2 DEF InitFresh, FreshBooking, IInv
<1>3. ASSUME InitLegacy PROVE IInv
  <2>1. /\ bk.status = "cancelled" /\ bk.released /\ bk.claimed /\ bk.legacy
        /\ bk.pi \in {0, 1} /\ bk.pay \in Unpaid /\ ~bk.closed /\ ~bk.cancelReq
    BY <1>3 DEF InitLegacy, FreshBooking
  <2>2. ClaimFirst
    BY <1>3, <2>1 DEF InitLegacy
  <2>3. SoleIntent
    BY <1>3, <2>1 DEF InitLegacy
  <2>4. SweepKnows
    BY <1>3, <2>1 DEF InitLegacy
  <2>5. BoundMoney /\ Consistent
    BY <1>3, <2>1 DEF InitLegacy
  <2> QED
    BY <1>1, <2>2, <2>3, <2>4, <2>5 DEF IInv
<1> QED
  BY <1>2, <1>3 DEF Init

(* The strengthening: the claim comes first, the intent is the only one,   *)
(* and what a sweep read of the provider still holds when it releases.     *)
THEOREM Invariance == Spec => []IInv
<1>1. Init => IInv
  BY InvInit
<1>2. IInv /\ [Next]_vars => IInv'
  BY InvStep
<1> QED
  BY <1>1, <1>2, PTL DEF Spec

-----------------------------------------------------------------------------
(* Seats that are back on sale were not and cannot be paid for: whatever   *)
(* the number of requests and sweeps racing on the booking, every intent   *)
(* of a released hold was voided at Stripe first or never existed.         *)
THEOREM ReleasedSafe == Spec => []ReleasedCannotCharge
<1>1. IInv => ReleasedCannotCharge
  BY IntentIsNumber
     DEF IInv, TypeOK, BookingDoc, ClaimFirst, SoleIntent, Consistent, ReleasedCannotCharge
<1> QED
  BY <1>1, Invariance, PTL

(* A confirmed or paid booking's own bound intent has succeeded.           *)
THEOREM PaidSafe == Spec => []PaidMeansCharged
<1>1. IInv => PaidMeansCharged
  BY DEF IInv, Consistent, PaidMeansCharged
<1> QED
  BY <1>1, Invariance, PTL

(* Money that moves or has moved belongs to a booking that is confirmed or *)
(* that finalizePaidBooking still accepts.                                 *)
THEOREM ChargeSafe == Spec => []ChargeIsFinalizable
<1>1. IInv => ChargeIsFinalizable
  BY IntentIsNumber
     DEF IInv, TypeOK, BookingDoc, Unpaid, SoleIntent, ClaimFirst, BoundMoney, Consistent,
         ChargeIsFinalizable
<1> QED
  BY <1>1, Invariance, PTL

(* Any number of retries, concurrent requests, sweeps and recoveries       *)
(* creates at most one PaymentIntent.                                      *)
THEOREM SingleIntent == Spec => []OneIntentPerBooking
<1>1. IInv => OneIntentPerBooking
  BY DEF IInv, SoleIntent, OneIntentPerBooking
<1> QED
  BY <1>1, Invariance, PTL

(* An accepted cancellation and a payment session never meet.              *)
THEOREM CancelSafe == Spec => []CancelExcludesPayment
<1>1. IInv => CancelExcludesPayment
  BY DEF IInv, ClaimFirst, SoleIntent, Consistent, CancelExcludesPayment
<1> QED
  BY <1>1, Invariance, PTL

(* The closed marker is set only once nothing is left to collect.          *)
THEOREM ClosedSafe == Spec => []ClosedMeansVoid
<1>1. IInv => ClosedMeansVoid
  BY IntentIsNumber
     DEF IInv, ClaimFirst, SoleIntent, Consistent, ClosedMeansVoid
<1> QED
  BY <1>1, Invariance, PTL

(* Confirmed stays confirmed and paid, released stays released: no late    *)
(* decline, second sweep or slow request undoes an outcome.                *)
THEOREM OutcomeFinal == Spec => OutcomeIsFinal
<1> DEFINE Final ==
      /\ bk.status = "confirmed" => bk'.status = "confirmed" /\ bk'.pay = "succeeded"
      /\ bk.released => bk'.released /\ bk'.status = "cancelled"
<1>1. ASSUME IInv, [Next]_vars PROVE [Final]_bk
  <2> SUFFICES ASSUME bk' # bk PROVE Final
      OBVIOUS
  <2> USE <1>1 DEF IInv, TypeOK, Consistent, BookingDoc, Unpaid
  <2>1. ASSUME NEW h \in Handler, Pay(h) \/ PayStops(h) PROVE Final
    BY <2>1 DEF Pay, PayRead, PayClaim, SessionClaimable, PayCreate, PayBind, Bindable,
                PayResume, PayStops
  <2>2. ASSUME NEW s \in Sweeper, Sweep(s) \/ SweepStops(s) PROVE Final
    BY <2>2 DEF Sweep, SweepRead, SweepRecover, SweepRetrieve, SweepCancel, SweepRelease,
                HoldReleasable, ReleaseHold, SweepStops
  <2>3. CASE UNCHANGED bk
    BY <2>3
  <2>4. CASE FinalizePaid \/ DeclineApply \/ RequestCancel \/ CancelFinalize
    BY <2>4 DEF FinalizePaid, DeclineApply, RequestCancel, CancelFinalize, Cancellable
  <2> QED
    BY <2>1, <2>2, <2>3, <2>4
       DEF Next, Crash, vars, Settles, CustomerPays, ChargeSucceeds, ChargeDeclined,
           StripeForgetsKey, HoldAges, ClaimAges, DeclineRead, DeclineStops, CancelRead,
           CancelStops
<1>2. IInv /\ [Next]_vars => [Final]_bk
  BY <1>1
<1> QED
  BY <1>2, Invariance, PTL DEF Spec, OutcomeIsFinal
-----------------------------------------------------------------------------
(* The refinement.  A booking of the present release ...                   *)
FreshInv == IInv /\ ~bk.legacy

(* No handler turns a booking of today into one of the old release.        *)
LEMMA LegacyStep == IInv /\ [Next]_vars => bk'.legacy = bk.legacy
<1> SUFFICES ASSUME IInv, [Next]_vars PROVE bk'.legacy = bk.legacy
    OBVIOUS
<1> USE DEF IInv, TypeOK, BookingDoc
<1>1. ASSUME NEW h \in Handler, Pay(h) \/ PayStops(h) PROVE bk'.legacy = bk.legacy
  BY <1>1 DEF Pay, PayRead, PayClaim, PayCreate, PayBind, PayResume, PayStops
<1>2. ASSUME NEW s \in Sweeper, Sweep(s) \/ SweepStops(s) PROVE bk'.legacy = bk.legacy
  BY <1>2 DEF Sweep, SweepRead, SweepRecover, SweepRetrieve, SweepCancel, SweepRelease,
              ReleaseHold, SweepStops
<1>3. CASE UNCHANGED bk
  BY <1>3
<1>4. CASE FinalizePaid \/ DeclineApply \/ RequestCancel \/ CancelFinalize
  BY <1>4 DEF FinalizePaid, DeclineApply, RequestCancel, CancelFinalize
<1> QED
  BY <1>1, <1>2, <1>3, <1>4
     DEF Next, Crash, vars, Settles, CustomerPays, ChargeSucceeds, ChargeDeclined,
         StripeForgetsKey, HoldAges, ClaimAges, ClaimAges, DeclineRead, DeclineStops,
         CancelRead, CancelStops

(* With at most one intent, the money of the contract is its state.        *)
MoneyIsIntent ==
  /\ Money = IF intent[1] = "succeeded" THEN "taken"
             ELSE IF intent[1] = "processing" THEN "moving" ELSE "none"
  /\ Money # "none" => bk.pi = 1

(* The contract's money is the state of the one intent there can be.       *)
LEMMA MoneyOfIntent == FreshInv => MoneyIsIntent
<1>1. 1 \in Intents
  BY MaxIntentsAssumption DEF Intents
<1>2. ASSUME IInv, NEW n \in Intents, intent[n] \in {"processing", "succeeded"}
      PROVE  n = 1 /\ bk.pi = 1
  BY <1>2, IntentIsNumber DEF IInv, SoleIntent, BoundMoney
<1> QED
  BY <1>1, <1>2 DEF FreshInv, Money, MoneyIsIntent

(* The same after a step.                                                  *)
LEMMA MoneyOfNextIntent == FreshInv' => MoneyIsIntent'
BY MoneyOfIntent, PTL

(* createBooking's transaction leaves seats held and no money.             *)
LEMMA InitRefines == Init => Contract!Init
<1>1. ASSUME InitFresh PROVE Contract!Init
  BY <1>1 DEF InitFresh, FreshBooking, Contract!Init, Seats, Money
<1>2. ASSUME InitLegacy PROVE Contract!Init
  BY <1>2 DEF InitLegacy, FreshBooking, Contract!Init, Seats, Money
<1> QED
  BY <1>1, <1>2 DEF Init

(* Each handler's and sweep's step is a step of the contract or none.      *)
LEMMA FreshStepRefines ==
  FreshInv /\ [Next]_vars => [Contract!Next]_(Contract!vars)
<1> SUFFICES ASSUME FreshInv, [Next]_vars
             PROVE  Contract!Next \/ UNCHANGED <<Seats, Money>>
    BY DEF Contract!vars
<1>0. FreshInv' /\ IInv /\ IInv' /\ ~bk'.legacy
  BY InvStep, LegacyStep DEF FreshInv
<1>1. MoneyIsIntent /\ MoneyIsIntent' /\ ~bk.legacy /\ ~bk'.legacy
  <2>1. MoneyIsIntent /\ MoneyIsIntent'
    BY <1>0, MoneyOfIntent, MoneyOfNextIntent
  <2> QED
    BY <1>0, <2>1 DEF FreshInv
<1>2. 1 \in Intents
  BY MaxIntentsAssumption DEF Intents
<1> USE IntentIsNumber
    DEF FreshInv, IInv, TypeOK, BookingDoc, Unpaid, Consistent, Seats, MoneyIsIntent
<1>3. ASSUME NEW h \in Handler, Pay(h) \/ PayStops(h)
      PROVE  UNCHANGED <<Seats, Money>>
  <2>1. bk'.status = bk.status /\ bk'.released = bk.released
    BY <1>3 DEF Pay, PayRead, PayClaim, PayCreate, PayBind, PayResume, PayStops
  <2>2. \/ intent' = intent
        \/ made = 0 /\ intent' = [intent EXCEPT ![1] = "open"]
    <3>1. CASE PayCreate(h)
      <4>1. PICK n \in Intents : CreateIntent(n)
        BY <3>1 DEF PayCreate
      <4> QED
        BY <1>0, <4>1 DEF CreateIntent, stripe, SoleIntent
    <3>2. CASE ~PayCreate(h)
      BY <1>3, <3>2 DEF Pay, PayRead, PayClaim, PayBind, PayResume, PayStops, stripe
    <3> QED
      BY <3>1, <3>2
  <2> QED
    BY <1>0, <1>1, <1>2, <2>1, <2>2 DEF SoleIntent
<1>4. ASSUME NEW s \in Sweeper, Sweep(s) \/ SweepStops(s)
      PROVE  Contract!Return \/ UNCHANGED <<Seats, Money>>
  <2>1. CASE SweepRelease(s)
    <3>0. UNCHANGED intent
      BY <2>1 DEF SweepRelease, stripe
    <3>1. CASE bk' = ReleaseHold(s) /\ HoldReleasable(s) /\ sw[s].status = "pending"
      <4>1. intent[1] \in {"absent", "canceled"}
        BY <1>0, <1>2, <2>1, <3>1
           DEF SweepRelease, HoldReleasable, SweepIntent, SweepKnows, ClaimFirst, SoleIntent
      <4>2. bk'.status = "cancelled" /\ bk'.released = TRUE
        BY <3>1, ReleasedFields
      <4>3. Seats = "held" /\ Seats' = "returned" /\ Money = "none" /\ Money' = "none"
        BY <1>1, <3>0, <3>1, <4>1, <4>2 DEF HoldReleasable
      <4> QED
        BY <4>3 DEF Contract!Return
    <3>2. CASE bk'.status = bk.status /\ bk'.released = bk.released
      BY <1>1, <3>0, <3>2
    <3>3. CASE bk' = [bk EXCEPT !.closed = TRUE]
      BY <1>1, <3>0, <3>3
    <3> QED
      BY <2>1, <3>1, <3>2, <3>3 DEF SweepRelease
  <2>2. CASE ~SweepRelease(s)
    <3>1. UNCHANGED bk
      BY <1>4, <2>2 DEF Sweep, SweepRead, SweepRecover, SweepRetrieve, SweepCancel, SweepStops
    <3>2. \/ intent' = intent
          \/ made = 0 /\ intent' = [intent EXCEPT ![1] = "open"]
          \/ \E n \in Intents : /\ intent[n] \in {"open", "canceled"}
                                /\ intent' = [intent EXCEPT ![n] = "canceled"]
      <4>1. CASE SweepRecover(s)
        <5>1. UNCHANGED intent \/ \E n \in Intents : CreateIntent(n)
          BY <4>1 DEF SweepRecover, stripe
        <5> QED
          BY <1>0, <5>1 DEF CreateIntent, stripe, SoleIntent
      <4>2. CASE SweepCancel(s)
        <5>1. SweepIntent(s) \in Intents
          BY <1>0, <4>2 DEF SweepCancel, SweepIntent, SweepKnows, SweepState
        <5> QED
          BY <4>2, <5>1 DEF SweepCancel
      <4>3. CASE SweepRead(s) \/ SweepRetrieve(s) \/ SweepStops(s)
        BY <4>3 DEF SweepRead, SweepRetrieve, SweepStops, stripe
      <4> QED
        BY <1>4, <2>2, <4>1, <4>2, <4>3 DEF Sweep
    <3> QED
      BY <1>0, <1>1, <1>2, <3>1, <3>2 DEF SoleIntent
  <2> QED
    BY <2>1, <2>2
<1>5. ASSUME NEW n \in Intents, CustomerPays(n) PROVE Contract!Charge
  <2>1. n = 1 /\ bk.pi = 1 /\ intent[1] = "open" /\ intent'[1] = "processing"
    BY <1>0, <1>5 DEF CustomerPays, BoundMoney, SoleIntent
  <2>2. UNCHANGED bk
    BY <1>5 DEF CustomerPays
  <2>3. bk.claimed /\ made = 1
    BY <1>0, <2>1 DEF SoleIntent, ClaimFirst
  <2> QED
    BY <1>0, <1>1, <2>1, <2>2, <2>3 DEF Contract!Charge
<1>6. ASSUME NEW n \in Intents, Settles(n) PROVE Contract!Settle \/ Contract!Decline
  <2>1. n = 1 /\ intent[1] = "processing" /\ intent'[1] \in {"succeeded", "open"}
    BY <1>0, <1>6 DEF Settles, ChargeSucceeds, ChargeDeclined, SoleIntent, BoundMoney
  <2>2. UNCHANGED bk
    BY <1>6 DEF Settles, ChargeSucceeds, ChargeDeclined
  <2> QED
    BY <1>1, <2>1, <2>2 DEF Contract!Settle, Contract!Decline
<1>7. CASE FinalizePaid
  <2>1. bk.status = "pending" /\ ~bk.released /\ bk'.status = "confirmed"
    BY <1>7 DEF FinalizePaid
  <2>2. UNCHANGED intent /\ intent[1] = "succeeded"
    BY <1>0, <1>7 DEF FinalizePaid, stripe, SoleIntent
  <2> QED
    BY <1>1, <2>1, <2>2 DEF Contract!Sell, Contract!Next
<1>8. ASSUME CancelFinalize PROVE Contract!Return \/ UNCHANGED <<Seats, Money>>
  <2>1. intent[1] = "absent" /\ UNCHANGED intent
    BY <1>0, <1>2, <1>8 DEF CancelFinalize, stripe, ClaimFirst, SoleIntent
  <2> QED
    BY <1>1, <1>8, <2>1 DEF CancelFinalize, Cancellable, Contract!Return
<1>9. ASSUME \/ StripeForgetsKey \/ HoldAges \/ ClaimAges \/ UNCHANGED vars
             \/ DeclineRead \/ DeclineApply \/ DeclineStops
             \/ RequestCancel \/ CancelRead \/ CancelStops
      PROVE  UNCHANGED <<Seats, Money>>
  <2>1. UNCHANGED intent /\ bk'.status = bk.status /\ bk'.released = bk.released
    BY <1>9 DEF StripeForgetsKey, HoldAges, ClaimAges, vars, stripe, DeclineRead,
                DeclineApply, DeclineStops, RequestCancel, CancelRead, CancelStops
  <2> QED
    BY <1>1, <2>1
<1> QED
  BY <1>3, <1>4, <1>5, <1>6, <1>7, <1>8, <1>9 DEF Next, Crash, Contract!Next

(* Of a booking of the old release the contract sees nothing.              *)
LEMMA StepRefines == IInv /\ [Next]_vars => [Contract!Next]_(Contract!vars)
<1>1. ASSUME IInv, [Next]_vars, bk.legacy PROVE UNCHANGED Contract!vars
  BY <1>1, LegacyStep DEF Contract!vars, Seats, Money
<1>2. ASSUME IInv, [Next]_vars, ~bk.legacy PROVE [Contract!Next]_(Contract!vars)
  BY <1>2, FreshStepRefines DEF FreshInv
<1> QED
  BY <1>1, <1>2

(* No interleaving of requests, sweeps, webhooks and crashes sells a seat  *)
(* without money, returns one while money moves or was taken, or charges   *)
(* for seats that are no longer held.                                      *)
THEOREM ContractHolds == Spec => Contract!Spec
<1>1. Init => IInv /\ Contract!Init
  BY InvInit, InitRefines
<1>2. IInv /\ [Next]_vars => IInv'
  BY InvStep
<1>3. IInv /\ [Next]_vars => [Contract!Next]_(Contract!vars)
  BY StepRefines
<1> QED
  BY <1>1, <1>2, <1>3, PTL DEF Spec, Contract!Spec
=============================================================================
