------------------------- MODULE BundleOrderProofs -------------------------
(***************************************************************************)
(* Theorems about BundleOrder for any number of departures, requests and   *)
(* sweeps.  The safety properties follow from what is known between the    *)
(* steps of the handlers: which evidence of Stripe's a process has seen,   *)
(* and that no intent exists that a session did not claim first.  IInv     *)
(* says it, in the parts named below.                                      *)
(***************************************************************************)
EXTENDS BundleOrder, TLAPS

(* The stored binding precedes everything that a session leads to.         *)
BindingFirst ==
  /\ order.claimed => order.bound
  /\ order.pi => order.bound
  /\ order.bound /\ order.status \in Held => order.claimed \/ order.pi
  /\ intent # "absent" => order.bound
  /\ \A s \in Session : sess[s] \in {"create", "bind", "lost", "cancel", "flag"} => order.bound

(* Nothing can be charged any more: the intent is void, or there is none   *)
(* and the hold's time is over, after which no session is opened.          *)
Unpayable == intent = "canceled" \/ (expired /\ ~order.bound)

(* The order's fields, its children and departures agree with Stripe.      *)
Books ==
  /\ order.captured <=> order.pay = "succeeded"
  /\ order.captured =>
       /\ intent = "succeeded"
       /\ order.status \in {"paid_allocation_pending", "confirmed", "cancel_pending", "manual_review"}
  /\ order.status = "confirmed" =>
       order.captured /\ \A c \in Component : child[c] = "confirmed" /\ c \notin released
  /\ \A c \in Component : c \notin released => slot[c] = Others + 1
  /\ order.pay = "expired" => Unpayable

(* What a process knows at a step pc of its handler j.                     *)
Grounds(pc, j) ==
  /\ pc \in {"recreate", "rebind"} => order.bound
  /\ pc = "persist" => intent = "succeeded"
  /\ pc \in {"reclaim", "decline", "complete", "refuse"} => j \in Event
  /\ pc = "decline" => j # "charged"
  /\ pc = "reclaim" /\ j = "charged" => intent = "succeeded"
  /\ pc \in {"allocate", "complete"} /\ j = "charged" => order.captured
  /\ pc = "expire" => Unpayable

Knows(p) == Grounds(job[p].pc, job[p].job)

(* What Stripe's events and their rows say of the order.                   *)
Delivered ==
  /\ "charged" \in sent => intent = "succeeded"
  /\ "charged" \in acked => order.captured
  /\ row["charged"].status = "completed" => order.captured

Knowledge == \A p \in Process : Knows(p)

IInv == TypeOK /\ BindingFirst /\ Books /\ Delivered /\ Knowledge

(* What no step ever takes back.                                           *)
Lasting ==
  /\ order.bound => order'.bound
  /\ order.captured => order'.captured
  /\ intent = "succeeded" => intent' = "succeeded"
  /\ Unpayable => Unpayable'
-----------------------------------------------------------------------------
(* A handler's step leaves the other handlers where they are.              *)
LEMMA GoToIs ==
  ASSUME TypeOK, NEW p \in Process, NEW pc \in Pc, GoTo(p, pc)
  PROVE  /\ job' \in [Process -> [job : Job, pc : Pc]]
         /\ \A q \in Process : q # p => job'[q] = job[q]
         /\ job'[p].pc = pc
         /\ job'[p].job = IF pc = "idle" THEN "none" ELSE job[p].job
<1>1. job \in [Process -> [job : Job, pc : Pc]] /\ Idle \in [job : Job, pc : Pc] /\ Idle.pc = "idle"
  BY DEF TypeOK, Idle, Job, Pc
<1>2. CASE pc = "idle"
  BY <1>1, <1>2 DEF GoTo, Idle
<1>3. CASE pc # "idle"
  <2>1. /\ job[p] \in [job : Job, pc : Pc]
        /\ [job[p] EXCEPT !.pc = pc] \in [job : Job, pc : Pc]
        /\ [job[p] EXCEPT !.pc = pc].pc = pc
        /\ [job[p] EXCEPT !.pc = pc].job = job[p].job
    BY <1>1
  <2>2. job' = [job EXCEPT ![p] = [job[p] EXCEPT !.pc = pc]]
    BY <1>3 DEF GoTo
  <2>3. job'[p] = [job[p] EXCEPT !.pc = pc] /\ job' \in [Process -> [job : Job, pc : Pc]]
    BY <1>1, <2>1, <2>2
  <2>4. \A q \in Process : q # p => job'[q] = job[q]
    BY <1>1, <2>2
  <2> QED
    BY <1>3, <2>1, <2>3, <2>4
<1> QED
  BY <1>2, <1>3

(* The same for the first step of a request or a sweep.                    *)
LEMMA StartIs ==
  ASSUME TypeOK, NEW p \in Process, NEW name \in Job, NEW pc \in Pc,
         job' = [job EXCEPT ![p] = [job |-> name, pc |-> pc]]
  PROVE  /\ job' \in [Process -> [job : Job, pc : Pc]]
         /\ \A q \in Process : q # p => job'[q] = job[q]
         /\ job'[p].pc = pc
         /\ job'[p].job = name
<1>1. job \in [Process -> [job : Job, pc : Pc]]
  BY DEF TypeOK
<1>2. [job |-> name, pc |-> pc] \in [job : Job, pc : Pc]
  OBVIOUS
<1> QED
  BY <1>1, <1>2

(* Every conditional write leaves an order document behind.                *)
LEMMA OrderUpdates ==
  ASSUME order \in OrderDoc
  PROVE  /\ [order EXCEPT !.claimed = TRUE, !.bound = TRUE] \in OrderDoc
         /\ BoundTo(order) \in OrderDoc
         /\ [order EXCEPT !.pi = TRUE, !.status = "manual_review",
                          !.pay = "manual_review", !.claimed = FALSE] \in OrderDoc
         /\ [order EXCEPT !.status = "paid_allocation_pending", !.pay = "succeeded",
                          !.captured = TRUE] \in OrderDoc
         /\ [order EXCEPT !.status = "confirmed"] \in OrderDoc
         /\ [order EXCEPT !.status = "cancel_pending"] \in OrderDoc
         /\ [order EXCEPT !.status = "cancelled", !.pay = "cancelled"] \in OrderDoc
         /\ [order EXCEPT !.status = "cancelled", !.pay = "expired"] \in OrderDoc
         /\ [order EXCEPT !.status = "manual_review",
                          !.pay = IF @ = "succeeded" THEN @ ELSE "manual_review"] \in OrderDoc
         /\ [order EXCEPT !.pay = "failed"] \in OrderDoc
         /\ [order EXCEPT !.status = "manual_review", !.pay = "manual_review",
                          !.claimed = FALSE] \in OrderDoc
BY DEF OrderDoc, BoundTo

(* A handler that only begins changes no other state.                      *)
LEMMA StartTypes ==
  ASSUME TypeOK, NEW p \in Process, NEW name \in Job, NEW pc \in Pc, Start(p, name, pc)
  PROVE  TypeOK'
BY StartIs DEF Start, TypeOK, seats, hooks

(* The rows the webhook's claim, completion and failure write.             *)
LEMMA RowUpdates ==
  ASSUME TypeOK, NEW e \in Event
  PROVE  LET Rows == [Event -> [status : {"none", "processing", "completed", "failed"},
                                leased : BOOLEAN]]
         IN /\ [row EXCEPT ![e].leased = FALSE] \in Rows
            /\ [row EXCEPT ![e] = [status |-> "processing", leased |-> TRUE]] \in Rows
            /\ [row EXCEPT ![e] = [status |-> "completed", leased |-> FALSE]] \in Rows
            /\ [row EXCEPT ![e] = [status |-> "failed", leased |-> FALSE]] \in Rows
BY DEF TypeOK

(* Returning the seats is all or nothing, and never of seats not counted.  *)
LEMMA SeatUpdates ==
  ASSUME TypeOK, SeatsReturnable, ReturnSeats
  PROVE  /\ child' \in [Component -> {"pending", "confirmed", "cancelled"}]
         /\ released' = Component
         /\ slot' \in [Component -> 0..(Others + 1)]
<1>1. ASSUME NEW c \in Component PROVE slot[c] - 1 \in 0..(Others + 1)
  <2>1. slot[c] \in 0..(Others + 1) /\ slot[c] >= 1
    BY DEF TypeOK, SeatsReturnable
  <2> QED
    BY <2>1, OthersAssumption
<1> QED
  BY <1>1 DEF TypeOK, ReturnSeats

LEMMA InitIInv == Init => IInv
<1> SUFFICES ASSUME Init PROVE IInv
  OBVIOUS
<1>1. TypeOK
  <2>1. order \in OrderDoc
    BY DEF Init, OrderDoc
  <2>2. slot \in [Component -> 0..(Others + 1)]
    BY OthersAssumption DEF Init
  <2>3. job \in [Process -> [job : Job, pc : Pc]]
    BY DEF Init, Idle, Job, Pc
  <2> QED
    BY <2>1, <2>2, <2>3 DEF Init, TypeOK
<1>2. BindingFirst
  BY DEF Init, BindingFirst, Idle
<1>3. Books
  BY DEF Init, Books
<1>4. Delivered
  BY DEF Init, Delivered, Event
<1>5. Knowledge
  BY DEF Init, Knowledge, Knows, Grounds, Idle
<1> QED
  BY <1>1, <1>2, <1>3, <1>4, <1>5 DEF IInv

(* Every step keeps the types.                                             *)
LEMMA TypeStep ==
  ASSUME TypeOK, Knowledge, [Next]_vars
  PROVE  TypeOK'
<1>1. ASSUME CustomerPays PROVE TypeOK'
  BY <1>1, GoToIs, StartIs, OrderUpdates, SeatUpdates DEF CustomerPays, TypeOK, Pc, Job, Event, seats, hooks
<1>2. ASSUME ChargeSettles PROVE TypeOK'
  BY <1>2, GoToIs, StartIs, OrderUpdates, SeatUpdates DEF ChargeSettles, TypeOK, Pc, Job, Event, seats, hooks
<1>3. ASSUME HoldExpires PROVE TypeOK'
  BY <1>3, GoToIs, StartIs, OrderUpdates, SeatUpdates DEF HoldExpires, TypeOK, Pc, Job, Event, seats, hooks
<1>4. ASSUME LeaseExpires PROVE TypeOK'
  BY <1>4, RowUpdates DEF LeaseExpires, TypeOK, seats
<1>5. ASSUME NEW s \in Session, SessionRead(s) PROVE TypeOK'
  BY <1>5, GoToIs, StartIs, OrderUpdates, SeatUpdates DEF SessionRead, TypeOK, Pc, Job, Event, seats, hooks
<1>6. ASSUME NEW s \in Session, SessionClaim(s) PROVE TypeOK'
  BY <1>6, GoToIs, StartIs, OrderUpdates, SeatUpdates DEF SessionClaim, Claimable, TypeOK, Pc, Job, Event, seats, hooks
<1>7. ASSUME NEW s \in Session, SessionCreate(s) PROVE TypeOK'
  BY <1>7, GoToIs, StartIs, OrderUpdates, SeatUpdates DEF SessionCreate, CreateIntent, TypeOK, Pc, Job, Event, seats, hooks
<1>8. ASSUME NEW s \in Session, SessionBind(s) PROVE TypeOK'
  BY <1>8, GoToIs, StartIs, OrderUpdates, SeatUpdates DEF SessionBind, Bindable, TypeOK, Pc, Job, Event, seats, hooks
<1>9. ASSUME NEW s \in Session, SessionLost(s) PROVE TypeOK'
  BY <1>9, GoToIs, StartIs, OrderUpdates, SeatUpdates DEF SessionLost, TypeOK, Pc, Job, Event, seats, hooks
<1>10. ASSUME NEW s \in Session, SessionCancel(s) PROVE TypeOK'
  BY <1>10, GoToIs, StartIs, OrderUpdates, SeatUpdates DEF SessionCancel, StripeCancel, TypeOK, Pc, Job, Event, seats, hooks
<1>11. ASSUME NEW s \in Session, SessionFlag(s) PROVE TypeOK'
  BY <1>11, GoToIs, StartIs, OrderUpdates, SeatUpdates DEF SessionFlag, TypeOK, Pc, Job, Event, seats, hooks
<1>12. ASSUME NEW s \in Session, SessionShow(s) PROVE TypeOK'
  BY <1>12, GoToIs, StartIs, OrderUpdates, SeatUpdates DEF SessionShow, TypeOK, Pc, Job, Event, seats, hooks
<1>13. ASSUME NEW s \in Session, SessionStops(s) PROVE TypeOK'
  BY <1>13, GoToIs, StartIs, OrderUpdates, SeatUpdates DEF SessionStops, TypeOK, Pc, Job, Event, seats, hooks
<1>14. ASSUME NEW p \in Process, Persist(p) PROVE TypeOK'
  <2>1. GoTo(p, "allocate") \/ GoTo(p, Rescue(p))
    BY <1>14 DEF Persist
  <2>2. Rescue(p) \in Pc /\ "allocate" \in Pc
    BY DEF Rescue, Pc
  <2>3. job' \in [Process -> [job : Job, pc : Pc]]
    BY <2>1, <2>2, GoToIs
  <2> QED
    BY <1>14, <2>3, OrderUpdates DEF Persist, TypeOK, seats, hooks
<1>15. ASSUME NEW p \in Process, Allocate(p) PROVE TypeOK'
  BY <1>15, GoToIs, StartIs, OrderUpdates, SeatUpdates DEF Allocate, Allocatable, Allocated, AfterAllocation, Rescue, TypeOK, Pc, Job, Event, seats, hooks
<1>16. ASSUME NEW p \in Process, Request(p) PROVE TypeOK'
  BY <1>16, GoToIs, StartIs, OrderUpdates, SeatUpdates DEF Request, TypeOK, Pc, Job, Event, seats, hooks
<1>17. ASSUME NEW p \in Process, Release(p) PROVE TypeOK'
  <2>1. job' \in [Process -> [job : Job, pc : Pc]]
    BY <1>17, GoToIs DEF Release, Pc
  <2>2. CASE SeatsReturnable /\ ReturnSeats /\ order' \in OrderDoc
    BY <1>17, <2>1, <2>2, SeatUpdates DEF Release, TypeOK, hooks
  <2>3. CASE UNCHANGED <<order, seats>>
    BY <1>17, <2>1, <2>3 DEF Release, TypeOK, seats, hooks
  <2> QED
    BY <1>17, <2>2, <2>3, OrderUpdates DEF Release, TypeOK
<1>18. ASSUME NEW p \in Process, Review(p) PROVE TypeOK'
  BY <1>18, GoToIs, StartIs, OrderUpdates, SeatUpdates DEF Review, TypeOK, Pc, Job, Event, seats, hooks
<1>19. ASSUME NEW p \in Process, Retrieve(p) PROVE TypeOK'
  BY <1>19, GoToIs, StartIs, OrderUpdates, SeatUpdates DEF Retrieve, TypeOK, Pc, Job, Event, seats, hooks
<1>20. ASSUME NEW p \in Process, CancelIntent(p) PROVE TypeOK'
  BY <1>20, GoToIs, StartIs, OrderUpdates, SeatUpdates DEF CancelIntent, StripeCancel, TypeOK, Pc, Job, Event, seats, hooks
<1>21. ASSUME NEW p \in Process, Dies(p) PROVE TypeOK'
  BY <1>21, GoToIs, StartIs, OrderUpdates, SeatUpdates DEF Dies, TypeOK, Pc, Job, Event, seats, hooks
<1>22. ASSUME NEW p \in Process, Throws(p) PROVE TypeOK'
  BY <1>22, GoToIs, StartIs, OrderUpdates, SeatUpdates DEF Throws, Rescue, TypeOK, Pc, Job, Event, seats, hooks
<1>23. ASSUME NEW p \in Process, CancelRead(p) PROVE TypeOK'
  BY <1>23, StartTypes DEF CancelRead, Job, Pc
<1>24. ASSUME NEW p \in Process, RecoverRead(p) PROVE TypeOK'
  BY <1>24, StartTypes DEF RecoverRead, Job, Pc
<1>25. ASSUME NEW p \in Process, ConfirmRead(p) PROVE TypeOK'
  BY <1>25, GoToIs, StartIs, OrderUpdates, SeatUpdates DEF ConfirmRead, Start, TypeOK, Pc, Job, Event, seats, hooks
<1>26. ASSUME NEW p \in Process, HookReclaim(p) PROVE TypeOK'
  <2>1. job[p].job \in Event
    BY <1>26 DEF Knowledge, Knows, Grounds, HookReclaim, At
  <2>2. job' \in [Process -> [job : Job, pc : Pc]]
    BY <1>26, GoToIs DEF HookReclaim, Pc
  <2>3. row' \in [Event -> [status : {"none", "processing", "completed", "failed"},
                         leased : BOOLEAN]]
    <3>1. row' \in {row, [row EXCEPT ![job[p].job] = [status |-> "processing", leased |-> TRUE]]}
      BY <1>26 DEF HookReclaim
    <3>2. [row EXCEPT ![job[p].job] = [status |-> "processing", leased |-> TRUE]]
            \in [Event -> [status : {"none", "processing", "completed", "failed"},
                                   leased : BOOLEAN]]
      BY <2>1, RowUpdates
    <3>3. row \in [Event -> [status : {"none", "processing", "completed", "failed"},
                           leased : BOOLEAN]]
      BY DEF TypeOK
    <3> QED
      BY <3>1, <3>2, <3>3
  <2> QED
    BY <1>26, <2>2, <2>3 DEF HookReclaim, TypeOK, seats
<1>27. ASSUME NEW p \in Process, Decline(p) PROVE TypeOK'
  <2>1. job' \in [Process -> [job : Job, pc : Pc]]
    BY <1>27, GoToIs DEF Decline, Pc
  <2> QED
    BY <1>27, <2>1, OrderUpdates DEF Decline, TypeOK, seats, hooks
<1>28. ASSUME NEW p \in Process, HookComplete(p) PROVE TypeOK'
  <2>1. job[p].job \in Event
    BY <1>28 DEF Knowledge, Knows, Grounds, HookComplete, At
  <2>2. job' \in [Process -> [job : Job, pc : Pc]]
    BY <1>28, GoToIs DEF HookComplete, Pc
  <2> QED
    BY <1>28, <2>1, <2>2, RowUpdates DEF HookComplete, TypeOK, seats
<1>29. ASSUME NEW p \in Process, HookRefuse(p) PROVE TypeOK'
  BY <1>29, GoToIs, StartIs, OrderUpdates, SeatUpdates DEF HookRefuse, TypeOK, Pc, Job, Event, seats, hooks
<1>30. ASSUME NEW p \in Process, NEW e \in Event, HookRead(p, e) PROVE TypeOK'
  <2>1. job' \in [Process -> [job : Job, pc : Pc]]
    <3>1. e \in Job
      BY DEF Job
    <3>2. {"persist", "decline", "reclaim"} \subseteq Pc
      BY DEF Pc
    <3> QED
      BY <1>30, <3>1, <3>2, StartIs DEF HookRead, TypeOK
  <2>2. row' \in [Event -> [status : {"none", "processing", "completed", "failed"},
                         leased : BOOLEAN]]
    <3>1. row' \in {row, [row EXCEPT ![e] = [status |-> "processing", leased |-> TRUE]]}
      BY <1>30 DEF HookRead
    <3>2. [row EXCEPT ![e] = [status |-> "processing", leased |-> TRUE]]
            \in [Event -> [status : {"none", "processing", "completed", "failed"},
                                   leased : BOOLEAN]]
      BY RowUpdates
    <3>3. row \in [Event -> [status : {"none", "processing", "completed", "failed"},
                           leased : BOOLEAN]]
      BY DEF TypeOK
    <3> QED
      BY <3>1, <3>2, <3>3
  <2>3. acked' \in SUBSET Event
    BY <1>30 DEF HookRead, TypeOK
  <2> QED
    BY <1>30, <2>1, <2>2, <2>3 DEF HookRead, TypeOK, seats
<1>31. ASSUME NEW p \in Process, ExpireRead(p) PROVE TypeOK'
  BY <1>31, StartTypes DEF ExpireRead, Job, Pc
<1>32. ASSUME NEW p \in Process, Recreate(p) PROVE TypeOK'
  BY <1>32, GoToIs, StartIs, OrderUpdates, SeatUpdates DEF Recreate, CreateIntent, TypeOK, Pc, Job, Event, seats, hooks
<1>33. ASSUME NEW p \in Process, Rebind(p) PROVE TypeOK'
  BY <1>33, GoToIs, StartIs, OrderUpdates, SeatUpdates DEF Rebind, TypeOK, Pc, Job, Event, seats, hooks
<1>34. ASSUME NEW p \in Process, Reread(p) PROVE TypeOK'
  BY <1>34, GoToIs, StartIs, OrderUpdates, SeatUpdates DEF Reread, TypeOK, Pc, Job, Event, seats, hooks
<1>35. ASSUME NEW p \in Process, Flag(p) PROVE TypeOK'
  BY <1>35, GoToIs, StartIs, OrderUpdates, SeatUpdates DEF Flag, TypeOK, Pc, Job, Event, seats, hooks
<1>36. ASSUME NEW p \in Process, Expire(p) PROVE TypeOK'
  <2>1. job' \in [Process -> [job : Job, pc : Pc]]
    BY <1>36, GoToIs DEF Expire, Pc
  <2>2. CASE SeatsReturnable /\ ReturnSeats /\ order' \in OrderDoc
    BY <1>36, <2>1, <2>2, SeatUpdates DEF Expire, TypeOK, hooks
  <2>3. CASE UNCHANGED <<order, seats>>
    BY <1>36, <2>1, <2>3 DEF Expire, TypeOK, seats, hooks
  <2> QED
    BY <1>36, <2>2, <2>3, OrderUpdates DEF Expire, TypeOK
<1>37. ASSUME NEW p \in Process, AllocateRead(p) PROVE TypeOK'
  BY <1>37, GoToIs, StartIs, OrderUpdates, SeatUpdates DEF AllocateRead, Start, TypeOK, Pc, Job, Event, seats, hooks
<1>38. CASE UNCHANGED vars
  BY <1>38 DEF vars, TypeOK, Pc, Job, Event
<1> QED
  BY <1>1, <1>2, <1>3, <1>4, <1>5, <1>6, <1>7, <1>8, <1>9, <1>10, <1>11, <1>12, <1>13, <1>14, <1>15, <1>16, <1>17, <1>18, <1>19, <1>20, <1>21, <1>22, <1>23, <1>24, <1>25, <1>26, <1>27, <1>28, <1>29, <1>30, <1>31, <1>32, <1>33, <1>34, <1>35, <1>36, <1>37, <1>38
  DEF Next, Regular, Fault, Pay, Shared, Serve, Sweep, Process

(* No intent is made, bound or held against an order without a binding.    *)
LEMMA BindingStep ==
  ASSUME TypeOK, BindingFirst, Knowledge, [Next]_vars
  PROVE  BindingFirst'
<1>1. ASSUME CustomerPays PROVE BindingFirst'
  BY <1>1 DEF CustomerPays, At, BindingFirst, Knowledge, Knows, Grounds, TypeOK, OrderDoc, Held, seats, hooks
<1>2. ASSUME ChargeSettles PROVE BindingFirst'
  BY <1>2 DEF ChargeSettles, At, BindingFirst, Knowledge, Knows, Grounds, TypeOK, OrderDoc, Held, seats, hooks
<1>3. ASSUME HoldExpires PROVE BindingFirst'
  BY <1>3 DEF HoldExpires, At, BindingFirst, Knowledge, Knows, Grounds, TypeOK, OrderDoc, Held, seats, hooks
<1>4. ASSUME LeaseExpires PROVE BindingFirst'
  BY <1>4 DEF LeaseExpires, At, BindingFirst, Knowledge, Knows, Grounds, TypeOK, OrderDoc, Held, seats, hooks
<1>5. ASSUME NEW s \in Session, SessionRead(s) PROVE BindingFirst'
  BY <1>5 DEF SessionRead, At, BindingFirst, Knowledge, Knows, Grounds, TypeOK, OrderDoc, Held, seats, hooks
<1>6. ASSUME NEW s \in Session, SessionClaim(s) PROVE BindingFirst'
  BY <1>6 DEF SessionClaim, Claimable, At, BindingFirst, Knowledge, Knows, Grounds, TypeOK, OrderDoc, Held, seats, hooks
<1>7. ASSUME NEW s \in Session, SessionCreate(s) PROVE BindingFirst'
  BY <1>7 DEF SessionCreate, CreateIntent, At, BindingFirst, Knowledge, Knows, Grounds, TypeOK, OrderDoc, Held, seats, hooks
<1>8. ASSUME NEW s \in Session, SessionBind(s) PROVE BindingFirst'
  BY <1>8 DEF SessionBind, Bindable, BoundTo, At, BindingFirst, Knowledge, Knows, Grounds, TypeOK, OrderDoc, Held, seats, hooks
<1>9. ASSUME NEW s \in Session, SessionLost(s) PROVE BindingFirst'
  BY <1>9 DEF SessionLost, At, BindingFirst, Knowledge, Knows, Grounds, TypeOK, OrderDoc, Held, seats, hooks
<1>10. ASSUME NEW s \in Session, SessionCancel(s) PROVE BindingFirst'
  BY <1>10 DEF SessionCancel, StripeCancel, At, BindingFirst, Knowledge, Knows, Grounds, TypeOK, OrderDoc, Held, seats, hooks
<1>11. ASSUME NEW s \in Session, SessionFlag(s) PROVE BindingFirst'
  BY <1>11 DEF SessionFlag, At, BindingFirst, Knowledge, Knows, Grounds, TypeOK, OrderDoc, Held, seats, hooks
<1>12. ASSUME NEW s \in Session, SessionShow(s) PROVE BindingFirst'
  BY <1>12 DEF SessionShow, At, BindingFirst, Knowledge, Knows, Grounds, TypeOK, OrderDoc, Held, seats, hooks
<1>13. ASSUME NEW s \in Session, SessionStops(s) PROVE BindingFirst'
  BY <1>13 DEF SessionStops, At, BindingFirst, Knowledge, Knows, Grounds, TypeOK, OrderDoc, Held, seats, hooks
<1>14. ASSUME NEW p \in Process, Persist(p) PROVE BindingFirst'
  BY <1>14 DEF Persist, Capturable, Rescue, At, BindingFirst, Knowledge, Knows, Grounds, TypeOK, OrderDoc, Held, seats, hooks
<1>15. ASSUME NEW p \in Process, Allocate(p) PROVE BindingFirst'
  BY <1>15 DEF Allocate, Allocatable, Allocated, AfterAllocation, Rescue, At, BindingFirst, Knowledge, Knows, Grounds, TypeOK, OrderDoc, Held, seats, hooks
<1>16. ASSUME NEW p \in Process, Request(p) PROVE BindingFirst'
  BY <1>16 DEF Request, At, BindingFirst, Knowledge, Knows, Grounds, TypeOK, OrderDoc, Held, seats, hooks
<1>17. ASSUME NEW p \in Process, Release(p) PROVE BindingFirst'
  BY <1>17 DEF Release, ReturnSeats, At, BindingFirst, Knowledge, Knows, Grounds, TypeOK, OrderDoc, Held, seats, hooks
<1>18. ASSUME NEW p \in Process, Review(p) PROVE BindingFirst'
  BY <1>18 DEF Review, At, BindingFirst, Knowledge, Knows, Grounds, TypeOK, OrderDoc, Held, seats, hooks
<1>19. ASSUME NEW p \in Process, Retrieve(p) PROVE BindingFirst'
  BY <1>19 DEF Retrieve, At, BindingFirst, Knowledge, Knows, Grounds, TypeOK, OrderDoc, Held, seats, hooks
<1>20. ASSUME NEW p \in Process, CancelIntent(p) PROVE BindingFirst'
  BY <1>20 DEF CancelIntent, StripeCancel, At, BindingFirst, Knowledge, Knows, Grounds, TypeOK, OrderDoc, Held, seats, hooks
<1>21. ASSUME NEW p \in Process, Dies(p) PROVE BindingFirst'
  BY <1>21 DEF Dies, At, BindingFirst, Knowledge, Knows, Grounds, TypeOK, OrderDoc, Held, seats, hooks
<1>22. ASSUME NEW p \in Process, Throws(p) PROVE BindingFirst'
  BY <1>22 DEF Throws, Rescue, At, BindingFirst, Knowledge, Knows, Grounds, TypeOK, OrderDoc, Held, seats, hooks
<1>23. ASSUME NEW p \in Process, CancelRead(p) PROVE BindingFirst'
  BY <1>23 DEF CancelRead, Start, At, BindingFirst, Knowledge, Knows, Grounds, TypeOK, OrderDoc, Held, seats, hooks
<1>24. ASSUME NEW p \in Process, RecoverRead(p) PROVE BindingFirst'
  BY <1>24 DEF RecoverRead, Start, At, BindingFirst, Knowledge, Knows, Grounds, TypeOK, OrderDoc, Held, seats, hooks
<1>25. ASSUME NEW p \in Process, ConfirmRead(p) PROVE BindingFirst'
  BY <1>25 DEF ConfirmRead, Start, At, BindingFirst, Knowledge, Knows, Grounds, TypeOK, OrderDoc, Held, seats, hooks
<1>26. ASSUME NEW p \in Process, HookReclaim(p) PROVE BindingFirst'
  BY <1>26 DEF HookReclaim, Reclaimable, At, BindingFirst, Knowledge, Knows, Grounds, TypeOK, OrderDoc, Held, seats, hooks
<1>27. ASSUME NEW p \in Process, Decline(p) PROVE BindingFirst'
  BY <1>27 DEF Decline, At, BindingFirst, Knowledge, Knows, Grounds, TypeOK, OrderDoc, Held, seats, hooks
<1>28. ASSUME NEW p \in Process, HookComplete(p) PROVE BindingFirst'
  BY <1>28 DEF HookComplete, At, BindingFirst, Knowledge, Knows, Grounds, TypeOK, OrderDoc, Held, seats, hooks
<1>29. ASSUME NEW p \in Process, HookRefuse(p) PROVE BindingFirst'
  BY <1>29 DEF HookRefuse, At, BindingFirst, Knowledge, Knows, Grounds, TypeOK, OrderDoc, Held, seats, hooks
<1>30. ASSUME NEW p \in Process, NEW e \in Event, HookRead(p, e) PROVE BindingFirst'
  BY <1>30 DEF HookRead, Reclaimable, At, BindingFirst, Knowledge, Knows, Grounds, TypeOK, OrderDoc, Held, seats, hooks
<1>31. ASSUME NEW p \in Process, ExpireRead(p) PROVE BindingFirst'
  BY <1>31 DEF ExpireRead, Start, At, BindingFirst, Knowledge, Knows, Grounds, TypeOK, OrderDoc, Held, seats, hooks
<1>32. ASSUME NEW p \in Process, Recreate(p) PROVE BindingFirst'
  BY <1>32 DEF Recreate, CreateIntent, At, BindingFirst, Knowledge, Knows, Grounds, TypeOK, OrderDoc, Held, seats, hooks
<1>33. ASSUME NEW p \in Process, Rebind(p) PROVE BindingFirst'
  BY <1>33 DEF Rebind, BoundTo, At, BindingFirst, Knowledge, Knows, Grounds, TypeOK, OrderDoc, Held, seats, hooks
<1>34. ASSUME NEW p \in Process, Reread(p) PROVE BindingFirst'
  BY <1>34 DEF Reread, At, BindingFirst, Knowledge, Knows, Grounds, TypeOK, OrderDoc, Held, seats, hooks
<1>35. ASSUME NEW p \in Process, Flag(p) PROVE BindingFirst'
  BY <1>35 DEF Flag, At, BindingFirst, Knowledge, Knows, Grounds, TypeOK, OrderDoc, Held, seats, hooks
<1>36. ASSUME NEW p \in Process, Expire(p) PROVE BindingFirst'
  BY <1>36 DEF Expire, Expirable, ReturnSeats, At, BindingFirst, Knowledge, Knows, Grounds, TypeOK, OrderDoc, Held, seats, hooks
<1>37. ASSUME NEW p \in Process, AllocateRead(p) PROVE BindingFirst'
  BY <1>37 DEF AllocateRead, Start, At, BindingFirst, Knowledge, Knows, Grounds, TypeOK, OrderDoc, Held, seats, hooks
<1>38. CASE UNCHANGED vars
  BY <1>38 DEF vars, BindingFirst, Knowledge, Knows, Grounds, TypeOK, OrderDoc, Held
<1> QED
  BY <1>1, <1>2, <1>3, <1>4, <1>5, <1>6, <1>7, <1>8, <1>9, <1>10, <1>11, <1>12, <1>13, <1>14, <1>15, <1>16, <1>17, <1>18, <1>19, <1>20, <1>21, <1>22, <1>23, <1>24, <1>25, <1>26, <1>27, <1>28, <1>29, <1>30, <1>31, <1>32, <1>33, <1>34, <1>35, <1>36, <1>37, <1>38
  DEF Next, Regular, Fault, Pay, Shared, Serve, Sweep, Process

(* The order, its children and departures stay in agreement with Stripe.   *)
LEMMA BooksStep ==
  ASSUME TypeOK, BindingFirst, Books, Knowledge, [Next]_vars
  PROVE  Books'
<1>1. ASSUME CustomerPays PROVE Books'
  BY <1>1, OthersAssumption DEF CustomerPays, At, BindingFirst, Books, Unpayable, Knowledge, Knows, Grounds, TypeOK, OrderDoc, Held, Unsettled, seats, hooks
<1>2. ASSUME ChargeSettles PROVE Books'
  BY <1>2, OthersAssumption DEF ChargeSettles, At, BindingFirst, Books, Unpayable, Knowledge, Knows, Grounds, TypeOK, OrderDoc, Held, Unsettled, seats, hooks
<1>3. ASSUME HoldExpires PROVE Books'
  BY <1>3, OthersAssumption DEF HoldExpires, At, BindingFirst, Books, Unpayable, Knowledge, Knows, Grounds, TypeOK, OrderDoc, Held, Unsettled, seats, hooks
<1>4. ASSUME LeaseExpires PROVE Books'
  BY <1>4, OthersAssumption DEF LeaseExpires, At, BindingFirst, Books, Unpayable, Knowledge, Knows, Grounds, TypeOK, OrderDoc, Held, Unsettled, seats, hooks
<1>5. ASSUME NEW s \in Session, SessionRead(s) PROVE Books'
  BY <1>5, OthersAssumption DEF SessionRead, At, BindingFirst, Books, Unpayable, Knowledge, Knows, Grounds, TypeOK, OrderDoc, Held, Unsettled, seats, hooks
<1>6. ASSUME NEW s \in Session, SessionClaim(s) PROVE Books'
  BY <1>6, OthersAssumption DEF SessionClaim, Claimable, At, BindingFirst, Books, Unpayable, Knowledge, Knows, Grounds, TypeOK, OrderDoc, Held, Unsettled, seats, hooks
<1>7. ASSUME NEW s \in Session, SessionCreate(s) PROVE Books'
  BY <1>7, OthersAssumption DEF SessionCreate, CreateIntent, At, BindingFirst, Books, Unpayable, Knowledge, Knows, Grounds, TypeOK, OrderDoc, Held, Unsettled, seats, hooks
<1>8. ASSUME NEW s \in Session, SessionBind(s) PROVE Books'
  BY <1>8, OthersAssumption DEF SessionBind, Bindable, BoundTo, At, BindingFirst, Books, Unpayable, Knowledge, Knows, Grounds, TypeOK, OrderDoc, Held, Unsettled, seats, hooks
<1>9. ASSUME NEW s \in Session, SessionLost(s) PROVE Books'
  BY <1>9, OthersAssumption DEF SessionLost, At, BindingFirst, Books, Unpayable, Knowledge, Knows, Grounds, TypeOK, OrderDoc, Held, Unsettled, seats, hooks
<1>10. ASSUME NEW s \in Session, SessionCancel(s) PROVE Books'
  BY <1>10, OthersAssumption DEF SessionCancel, StripeCancel, At, BindingFirst, Books, Unpayable, Knowledge, Knows, Grounds, TypeOK, OrderDoc, Held, Unsettled, seats, hooks
<1>11. ASSUME NEW s \in Session, SessionFlag(s) PROVE Books'
  BY <1>11, OthersAssumption DEF SessionFlag, At, BindingFirst, Books, Unpayable, Knowledge, Knows, Grounds, TypeOK, OrderDoc, Held, Unsettled, seats, hooks
<1>12. ASSUME NEW s \in Session, SessionShow(s) PROVE Books'
  BY <1>12, OthersAssumption DEF SessionShow, At, BindingFirst, Books, Unpayable, Knowledge, Knows, Grounds, TypeOK, OrderDoc, Held, Unsettled, seats, hooks
<1>13. ASSUME NEW s \in Session, SessionStops(s) PROVE Books'
  BY <1>13, OthersAssumption DEF SessionStops, At, BindingFirst, Books, Unpayable, Knowledge, Knows, Grounds, TypeOK, OrderDoc, Held, Unsettled, seats, hooks
<1>14. ASSUME NEW p \in Process, Persist(p) PROVE Books'
  BY <1>14, OthersAssumption DEF Persist, Capturable, Rescue, At, BindingFirst, Books, Unpayable, Knowledge, Knows, Grounds, TypeOK, OrderDoc, Held, Unsettled, seats, hooks
<1>15. ASSUME NEW p \in Process, Allocate(p) PROVE Books'
  BY <1>15, OthersAssumption DEF Allocate, Allocatable, Allocated, AfterAllocation, Rescue, At, BindingFirst, Books, Unpayable, Knowledge, Knows, Grounds, TypeOK, OrderDoc, Held, Unsettled, seats, hooks
<1>16. ASSUME NEW p \in Process, Request(p) PROVE Books'
  BY <1>16, OthersAssumption DEF Request, At, BindingFirst, Books, Unpayable, Knowledge, Knows, Grounds, TypeOK, OrderDoc, Held, Unsettled, seats, hooks
<1>17. ASSUME NEW p \in Process, Release(p) PROVE Books'
  BY <1>17, OthersAssumption DEF Release, ReturnSeats, At, BindingFirst, Books, Unpayable, Knowledge, Knows, Grounds, TypeOK, OrderDoc, Held, Unsettled, seats, hooks
<1>18. ASSUME NEW p \in Process, Review(p) PROVE Books'
  BY <1>18, OthersAssumption DEF Review, At, BindingFirst, Books, Unpayable, Knowledge, Knows, Grounds, TypeOK, OrderDoc, Held, Unsettled, seats, hooks
<1>19. ASSUME NEW p \in Process, Retrieve(p) PROVE Books'
  BY <1>19, OthersAssumption DEF Retrieve, At, BindingFirst, Books, Unpayable, Knowledge, Knows, Grounds, TypeOK, OrderDoc, Held, Unsettled, seats, hooks
<1>20. ASSUME NEW p \in Process, CancelIntent(p) PROVE Books'
  BY <1>20, OthersAssumption DEF CancelIntent, StripeCancel, At, BindingFirst, Books, Unpayable, Knowledge, Knows, Grounds, TypeOK, OrderDoc, Held, Unsettled, seats, hooks
<1>21. ASSUME NEW p \in Process, Dies(p) PROVE Books'
  BY <1>21, OthersAssumption DEF Dies, At, BindingFirst, Books, Unpayable, Knowledge, Knows, Grounds, TypeOK, OrderDoc, Held, Unsettled, seats, hooks
<1>22. ASSUME NEW p \in Process, Throws(p) PROVE Books'
  BY <1>22, OthersAssumption DEF Throws, Rescue, At, BindingFirst, Books, Unpayable, Knowledge, Knows, Grounds, TypeOK, OrderDoc, Held, Unsettled, seats, hooks
<1>23. ASSUME NEW p \in Process, CancelRead(p) PROVE Books'
  BY <1>23, OthersAssumption DEF CancelRead, Start, At, BindingFirst, Books, Unpayable, Knowledge, Knows, Grounds, TypeOK, OrderDoc, Held, Unsettled, seats, hooks
<1>24. ASSUME NEW p \in Process, RecoverRead(p) PROVE Books'
  BY <1>24, OthersAssumption DEF RecoverRead, Start, At, BindingFirst, Books, Unpayable, Knowledge, Knows, Grounds, TypeOK, OrderDoc, Held, Unsettled, seats, hooks
<1>25. ASSUME NEW p \in Process, ConfirmRead(p) PROVE Books'
  BY <1>25, OthersAssumption DEF ConfirmRead, Start, At, BindingFirst, Books, Unpayable, Knowledge, Knows, Grounds, TypeOK, OrderDoc, Held, Unsettled, seats, hooks
<1>26. ASSUME NEW p \in Process, HookReclaim(p) PROVE Books'
  BY <1>26, OthersAssumption DEF HookReclaim, Reclaimable, At, BindingFirst, Books, Unpayable, Knowledge, Knows, Grounds, TypeOK, OrderDoc, Held, Unsettled, seats, hooks
<1>27. ASSUME NEW p \in Process, Decline(p) PROVE Books'
  BY <1>27, OthersAssumption DEF Decline, At, BindingFirst, Books, Unpayable, Knowledge, Knows, Grounds, TypeOK, OrderDoc, Held, Unsettled, seats, hooks
<1>28. ASSUME NEW p \in Process, HookComplete(p) PROVE Books'
  BY <1>28, OthersAssumption DEF HookComplete, At, BindingFirst, Books, Unpayable, Knowledge, Knows, Grounds, TypeOK, OrderDoc, Held, Unsettled, seats, hooks
<1>29. ASSUME NEW p \in Process, HookRefuse(p) PROVE Books'
  BY <1>29, OthersAssumption DEF HookRefuse, At, BindingFirst, Books, Unpayable, Knowledge, Knows, Grounds, TypeOK, OrderDoc, Held, Unsettled, seats, hooks
<1>30. ASSUME NEW p \in Process, NEW e \in Event, HookRead(p, e) PROVE Books'
  BY <1>30, OthersAssumption DEF HookRead, Reclaimable, At, BindingFirst, Books, Unpayable, Knowledge, Knows, Grounds, TypeOK, OrderDoc, Held, Unsettled, seats, hooks
<1>31. ASSUME NEW p \in Process, ExpireRead(p) PROVE Books'
  BY <1>31, OthersAssumption DEF ExpireRead, Start, At, BindingFirst, Books, Unpayable, Knowledge, Knows, Grounds, TypeOK, OrderDoc, Held, Unsettled, seats, hooks
<1>32. ASSUME NEW p \in Process, Recreate(p) PROVE Books'
  BY <1>32, OthersAssumption DEF Recreate, CreateIntent, At, BindingFirst, Books, Unpayable, Knowledge, Knows, Grounds, TypeOK, OrderDoc, Held, Unsettled, seats, hooks
<1>33. ASSUME NEW p \in Process, Rebind(p) PROVE Books'
  BY <1>33, OthersAssumption DEF Rebind, BoundTo, At, BindingFirst, Books, Unpayable, Knowledge, Knows, Grounds, TypeOK, OrderDoc, Held, Unsettled, seats, hooks
<1>34. ASSUME NEW p \in Process, Reread(p) PROVE Books'
  BY <1>34, OthersAssumption DEF Reread, At, BindingFirst, Books, Unpayable, Knowledge, Knows, Grounds, TypeOK, OrderDoc, Held, Unsettled, seats, hooks
<1>35. ASSUME NEW p \in Process, Flag(p) PROVE Books'
  BY <1>35, OthersAssumption DEF Flag, At, BindingFirst, Books, Unpayable, Knowledge, Knows, Grounds, TypeOK, OrderDoc, Held, Unsettled, seats, hooks
<1>36. ASSUME NEW p \in Process, Expire(p) PROVE Books'
  BY <1>36, OthersAssumption DEF Expire, Expirable, ReturnSeats, At, BindingFirst, Books, Unpayable, Knowledge, Knows, Grounds, TypeOK, OrderDoc, Held, Unsettled, seats, hooks
<1>37. ASSUME NEW p \in Process, AllocateRead(p) PROVE Books'
  BY <1>37, OthersAssumption DEF AllocateRead, Start, At, BindingFirst, Books, Unpayable, Knowledge, Knows, Grounds, TypeOK, OrderDoc, Held, Unsettled, seats, hooks
<1>38. CASE UNCHANGED vars
  BY <1>38 DEF vars, BindingFirst, Books, Unpayable, Knowledge, Knows, Grounds, TypeOK, OrderDoc, Held, Unsettled
<1> QED
  BY <1>1, <1>2, <1>3, <1>4, <1>5, <1>6, <1>7, <1>8, <1>9, <1>10, <1>11, <1>12, <1>13, <1>14, <1>15, <1>16, <1>17, <1>18, <1>19, <1>20, <1>21, <1>22, <1>23, <1>24, <1>25, <1>26, <1>27, <1>28, <1>29, <1>30, <1>31, <1>32, <1>33, <1>34, <1>35, <1>36, <1>37, <1>38
  DEF Next, Regular, Fault, Pay, Shared, Serve, Sweep, Process

(* A binding, a capture, a charge and a void intent are for good.          *)
LEMMA LastingStep ==
  ASSUME TypeOK, BindingFirst, Books, Knowledge, [Next]_vars
  PROVE  Lasting
<1>1. ASSUME CustomerPays PROVE Lasting
  BY <1>1 DEF CustomerPays, At, Lasting, BindingFirst, Books, Unpayable, Knowledge, Knows, Grounds, TypeOK, OrderDoc, Held, Unsettled, seats, hooks
<1>2. ASSUME ChargeSettles PROVE Lasting
  BY <1>2 DEF ChargeSettles, At, Lasting, BindingFirst, Books, Unpayable, Knowledge, Knows, Grounds, TypeOK, OrderDoc, Held, Unsettled, seats, hooks
<1>3. ASSUME HoldExpires PROVE Lasting
  BY <1>3 DEF HoldExpires, At, Lasting, BindingFirst, Books, Unpayable, Knowledge, Knows, Grounds, TypeOK, OrderDoc, Held, Unsettled, seats, hooks
<1>4. ASSUME LeaseExpires PROVE Lasting
  BY <1>4 DEF LeaseExpires, At, Lasting, BindingFirst, Books, Unpayable, Knowledge, Knows, Grounds, TypeOK, OrderDoc, Held, Unsettled, seats, hooks
<1>5. ASSUME NEW s \in Session, SessionRead(s) PROVE Lasting
  BY <1>5 DEF SessionRead, At, Lasting, BindingFirst, Books, Unpayable, Knowledge, Knows, Grounds, TypeOK, OrderDoc, Held, Unsettled, seats, hooks
<1>6. ASSUME NEW s \in Session, SessionClaim(s) PROVE Lasting
  BY <1>6 DEF SessionClaim, Claimable, At, Lasting, BindingFirst, Books, Unpayable, Knowledge, Knows, Grounds, TypeOK, OrderDoc, Held, Unsettled, seats, hooks
<1>7. ASSUME NEW s \in Session, SessionCreate(s) PROVE Lasting
  BY <1>7 DEF SessionCreate, CreateIntent, At, Lasting, BindingFirst, Books, Unpayable, Knowledge, Knows, Grounds, TypeOK, OrderDoc, Held, Unsettled, seats, hooks
<1>8. ASSUME NEW s \in Session, SessionBind(s) PROVE Lasting
  BY <1>8 DEF SessionBind, Bindable, BoundTo, At, Lasting, BindingFirst, Books, Unpayable, Knowledge, Knows, Grounds, TypeOK, OrderDoc, Held, Unsettled, seats, hooks
<1>9. ASSUME NEW s \in Session, SessionLost(s) PROVE Lasting
  BY <1>9 DEF SessionLost, At, Lasting, BindingFirst, Books, Unpayable, Knowledge, Knows, Grounds, TypeOK, OrderDoc, Held, Unsettled, seats, hooks
<1>10. ASSUME NEW s \in Session, SessionCancel(s) PROVE Lasting
  BY <1>10 DEF SessionCancel, StripeCancel, At, Lasting, BindingFirst, Books, Unpayable, Knowledge, Knows, Grounds, TypeOK, OrderDoc, Held, Unsettled, seats, hooks
<1>11. ASSUME NEW s \in Session, SessionFlag(s) PROVE Lasting
  BY <1>11 DEF SessionFlag, At, Lasting, BindingFirst, Books, Unpayable, Knowledge, Knows, Grounds, TypeOK, OrderDoc, Held, Unsettled, seats, hooks
<1>12. ASSUME NEW s \in Session, SessionShow(s) PROVE Lasting
  BY <1>12 DEF SessionShow, At, Lasting, BindingFirst, Books, Unpayable, Knowledge, Knows, Grounds, TypeOK, OrderDoc, Held, Unsettled, seats, hooks
<1>13. ASSUME NEW s \in Session, SessionStops(s) PROVE Lasting
  BY <1>13 DEF SessionStops, At, Lasting, BindingFirst, Books, Unpayable, Knowledge, Knows, Grounds, TypeOK, OrderDoc, Held, Unsettled, seats, hooks
<1>14. ASSUME NEW p \in Process, Persist(p) PROVE Lasting
  BY <1>14 DEF Persist, Capturable, Rescue, At, Lasting, BindingFirst, Books, Unpayable, Knowledge, Knows, Grounds, TypeOK, OrderDoc, Held, Unsettled, seats, hooks
<1>15. ASSUME NEW p \in Process, Allocate(p) PROVE Lasting
  BY <1>15 DEF Allocate, Allocatable, Allocated, AfterAllocation, Rescue, At, Lasting, BindingFirst, Books, Unpayable, Knowledge, Knows, Grounds, TypeOK, OrderDoc, Held, Unsettled, seats, hooks
<1>16. ASSUME NEW p \in Process, Request(p) PROVE Lasting
  BY <1>16 DEF Request, At, Lasting, BindingFirst, Books, Unpayable, Knowledge, Knows, Grounds, TypeOK, OrderDoc, Held, Unsettled, seats, hooks
<1>17. ASSUME NEW p \in Process, Release(p) PROVE Lasting
  BY <1>17 DEF Release, ReturnSeats, At, Lasting, BindingFirst, Books, Unpayable, Knowledge, Knows, Grounds, TypeOK, OrderDoc, Held, Unsettled, seats, hooks
<1>18. ASSUME NEW p \in Process, Review(p) PROVE Lasting
  BY <1>18 DEF Review, At, Lasting, BindingFirst, Books, Unpayable, Knowledge, Knows, Grounds, TypeOK, OrderDoc, Held, Unsettled, seats, hooks
<1>19. ASSUME NEW p \in Process, Retrieve(p) PROVE Lasting
  BY <1>19 DEF Retrieve, At, Lasting, BindingFirst, Books, Unpayable, Knowledge, Knows, Grounds, TypeOK, OrderDoc, Held, Unsettled, seats, hooks
<1>20. ASSUME NEW p \in Process, CancelIntent(p) PROVE Lasting
  BY <1>20 DEF CancelIntent, StripeCancel, At, Lasting, BindingFirst, Books, Unpayable, Knowledge, Knows, Grounds, TypeOK, OrderDoc, Held, Unsettled, seats, hooks
<1>21. ASSUME NEW p \in Process, Dies(p) PROVE Lasting
  BY <1>21 DEF Dies, At, Lasting, BindingFirst, Books, Unpayable, Knowledge, Knows, Grounds, TypeOK, OrderDoc, Held, Unsettled, seats, hooks
<1>22. ASSUME NEW p \in Process, Throws(p) PROVE Lasting
  BY <1>22 DEF Throws, Rescue, At, Lasting, BindingFirst, Books, Unpayable, Knowledge, Knows, Grounds, TypeOK, OrderDoc, Held, Unsettled, seats, hooks
<1>23. ASSUME NEW p \in Process, CancelRead(p) PROVE Lasting
  BY <1>23 DEF CancelRead, Start, At, Lasting, BindingFirst, Books, Unpayable, Knowledge, Knows, Grounds, TypeOK, OrderDoc, Held, Unsettled, seats, hooks
<1>24. ASSUME NEW p \in Process, RecoverRead(p) PROVE Lasting
  BY <1>24 DEF RecoverRead, Start, At, Lasting, BindingFirst, Books, Unpayable, Knowledge, Knows, Grounds, TypeOK, OrderDoc, Held, Unsettled, seats, hooks
<1>25. ASSUME NEW p \in Process, ConfirmRead(p) PROVE Lasting
  BY <1>25 DEF ConfirmRead, Start, At, Lasting, BindingFirst, Books, Unpayable, Knowledge, Knows, Grounds, TypeOK, OrderDoc, Held, Unsettled, seats, hooks
<1>26. ASSUME NEW p \in Process, HookReclaim(p) PROVE Lasting
  BY <1>26 DEF HookReclaim, Reclaimable, At, Lasting, BindingFirst, Books, Unpayable, Knowledge, Knows, Grounds, TypeOK, OrderDoc, Held, Unsettled, seats, hooks
<1>27. ASSUME NEW p \in Process, Decline(p) PROVE Lasting
  BY <1>27 DEF Decline, At, Lasting, BindingFirst, Books, Unpayable, Knowledge, Knows, Grounds, TypeOK, OrderDoc, Held, Unsettled, seats, hooks
<1>28. ASSUME NEW p \in Process, HookComplete(p) PROVE Lasting
  BY <1>28 DEF HookComplete, At, Lasting, BindingFirst, Books, Unpayable, Knowledge, Knows, Grounds, TypeOK, OrderDoc, Held, Unsettled, seats, hooks
<1>29. ASSUME NEW p \in Process, HookRefuse(p) PROVE Lasting
  BY <1>29 DEF HookRefuse, At, Lasting, BindingFirst, Books, Unpayable, Knowledge, Knows, Grounds, TypeOK, OrderDoc, Held, Unsettled, seats, hooks
<1>30. ASSUME NEW p \in Process, NEW e \in Event, HookRead(p, e) PROVE Lasting
  BY <1>30 DEF HookRead, Reclaimable, At, Lasting, BindingFirst, Books, Unpayable, Knowledge, Knows, Grounds, TypeOK, OrderDoc, Held, Unsettled, seats, hooks
<1>31. ASSUME NEW p \in Process, ExpireRead(p) PROVE Lasting
  BY <1>31 DEF ExpireRead, Start, At, Lasting, BindingFirst, Books, Unpayable, Knowledge, Knows, Grounds, TypeOK, OrderDoc, Held, Unsettled, seats, hooks
<1>32. ASSUME NEW p \in Process, Recreate(p) PROVE Lasting
  BY <1>32 DEF Recreate, CreateIntent, At, Lasting, BindingFirst, Books, Unpayable, Knowledge, Knows, Grounds, TypeOK, OrderDoc, Held, Unsettled, seats, hooks
<1>33. ASSUME NEW p \in Process, Rebind(p) PROVE Lasting
  BY <1>33 DEF Rebind, BoundTo, At, Lasting, BindingFirst, Books, Unpayable, Knowledge, Knows, Grounds, TypeOK, OrderDoc, Held, Unsettled, seats, hooks
<1>34. ASSUME NEW p \in Process, Reread(p) PROVE Lasting
  BY <1>34 DEF Reread, At, Lasting, BindingFirst, Books, Unpayable, Knowledge, Knows, Grounds, TypeOK, OrderDoc, Held, Unsettled, seats, hooks
<1>35. ASSUME NEW p \in Process, Flag(p) PROVE Lasting
  BY <1>35 DEF Flag, At, Lasting, BindingFirst, Books, Unpayable, Knowledge, Knows, Grounds, TypeOK, OrderDoc, Held, Unsettled, seats, hooks
<1>36. ASSUME NEW p \in Process, Expire(p) PROVE Lasting
  BY <1>36 DEF Expire, Expirable, ReturnSeats, At, Lasting, BindingFirst, Books, Unpayable, Knowledge, Knows, Grounds, TypeOK, OrderDoc, Held, Unsettled, seats, hooks
<1>37. ASSUME NEW p \in Process, AllocateRead(p) PROVE Lasting
  BY <1>37 DEF AllocateRead, Start, At, Lasting, BindingFirst, Books, Unpayable, Knowledge, Knows, Grounds, TypeOK, OrderDoc, Held, Unsettled, seats, hooks
<1>38. CASE UNCHANGED vars
  BY <1>38 DEF vars, Lasting, BindingFirst, Books, Unpayable, Knowledge, Knows, Grounds, TypeOK, OrderDoc, Held, Unsettled
<1> QED
  BY <1>1, <1>2, <1>3, <1>4, <1>5, <1>6, <1>7, <1>8, <1>9, <1>10, <1>11, <1>12, <1>13, <1>14, <1>15, <1>16, <1>17, <1>18, <1>19, <1>20, <1>21, <1>22, <1>23, <1>24, <1>25, <1>26, <1>27, <1>28, <1>29, <1>30, <1>31, <1>32, <1>33, <1>34, <1>35, <1>36, <1>37, <1>38
  DEF Next, Regular, Fault, Pay, Shared, Serve, Sweep, Process

(* A handler's next step rests on what it knows after this one; the other  *)
(* handlers still know what they knew.                                     *)
LEMMA OthersKnow ==
  ASSUME Lasting, Knowledge, NEW q \in Process, job'[q] = job[q]
  PROVE  Knows(q)'
BY DEF Lasting, Knowledge, Knows, Grounds

LEMMA GoToKnows ==
  ASSUME TypeOK, Lasting, Knowledge, NEW p \in Process, NEW pc \in Pc, GoTo(p, pc),
         NEW j, j = job[p].job, pc = "idle" \/ Grounds(pc, j)'
  PROVE  Knowledge'
<1>1. Knows(p)'
  <2>1. job'[p].pc = pc /\ job'[p].job = IF pc = "idle" THEN "none" ELSE j
    BY GoToIs
  <2>2. Grounds("idle", "none")'
    BY DEF Grounds
  <2> QED
    BY <2>1, <2>2 DEF Knows
<1>2. ASSUME NEW q \in Process, q # p PROVE Knows(q)'
  BY <1>2, GoToIs, OthersKnow
<1> QED
  BY <1>1, <1>2 DEF Knowledge

LEMMA StartKnows ==
  ASSUME TypeOK, Lasting, Knowledge, NEW p \in Process, NEW name \in Job, NEW pc \in Pc,
         job' = [job EXCEPT ![p] = [job |-> name, pc |-> pc]], Grounds(pc, name)'
  PROVE  Knowledge'
<1>1. Knows(p)'
  BY StartIs DEF Knows
<1>2. ASSUME NEW q \in Process, q # p PROVE Knows(q)'
  BY <1>2, StartIs, OthersKnow
<1> QED
  BY <1>1, <1>2 DEF Knowledge

(* What the handlers know stays true while others work on the order.       *)
LEMMA KnowledgeStep ==
  ASSUME TypeOK, BindingFirst, Books, Delivered, Knowledge, Lasting, [Next]_vars
  PROVE  Knowledge'
<1>1. ASSUME UNCHANGED job PROVE Knowledge'
  BY <1>1, OthersKnow DEF Knowledge
<1>2. ASSUME NEW p \in Process, Persist(p) PROVE Knowledge'
  <2>1. CASE order.pay = "succeeded" \/ Capturable
    <3>1. intent = "succeeded" /\ GoTo(p, "allocate")
      BY <1>2, <2>1 DEF Persist, At, Knowledge, Knows, Grounds
    <3>2. order'.captured
      BY <1>2, <2>1 DEF Persist, Books, TypeOK, OrderDoc
    <3>3. ASSUME NEW j PROVE Grounds("allocate", j)'
      BY <3>2 DEF Grounds
    <3> QED
      BY <3>1, <3>3, GoToKnows DEF Pc
  <2>2. CASE ~(order.pay = "succeeded" \/ Capturable)
    <3>1. \/ GoTo(p, "review") \/ GoTo(p, "idle")
          \/ job[p].job \in Event /\ GoTo(p, "refuse")
      BY <1>2, <2>2 DEF Persist, Rescue
    <3>2. CASE GoTo(p, "review")
      BY <3>2, GoToKnows DEF Grounds, Pc
    <3>3. CASE GoTo(p, "idle")
      BY <3>3, GoToKnows DEF Pc
    <3>4. CASE job[p].job \in Event /\ GoTo(p, "refuse")
      BY <3>4, GoToKnows DEF Grounds, Pc, Event
    <3> QED
      BY <3>1, <3>2, <3>3, <3>4
  <2> QED
    BY <2>1, <2>2
<1>3. ASSUME NEW p \in Process, Allocate(p) PROVE Knowledge'
  BY <1>3, GoToKnows DEF Allocate, Allocatable, Allocated, AfterAllocation, Rescue, At, Grounds, Knowledge, Knows, Lasting, Pc, Event
<1>4. ASSUME NEW p \in Process, Request(p) PROVE Knowledge'
  BY <1>4, GoToKnows DEF Request, At, Grounds, Knowledge, Knows, Lasting, Pc, Event
<1>5. ASSUME NEW p \in Process, Release(p) PROVE Knowledge'
  BY <1>5, GoToKnows DEF Release, ReturnSeats, At, Grounds, Knowledge, Knows, Lasting, Pc, Event
<1>6. ASSUME NEW p \in Process, Review(p) PROVE Knowledge'
  BY <1>6, GoToKnows DEF Review, At, Grounds, Knowledge, Knows, Lasting, Pc, Event
<1>7. ASSUME NEW p \in Process, Retrieve(p) PROVE Knowledge'
  BY <1>7, GoToKnows DEF Retrieve, At, Grounds, Knowledge, Knows, Lasting, Pc, Event
<1>8. ASSUME NEW p \in Process, CancelIntent(p) PROVE Knowledge'
  <2>1. PICK canceled \in BOOLEAN :
          /\ StripeCancel(canceled)
          /\ GoTo(p, IF job[p].job = "expire" THEN IF canceled THEN "expire" ELSE "flag"
                     ELSE IF canceled THEN "release" ELSE "review")
    BY <1>8 DEF CancelIntent
  <2>2. canceled => Unpayable'
    BY <2>1 DEF StripeCancel, Unpayable
  <2>3. CASE GoTo(p, "expire") /\ canceled
    BY <2>2, <2>3, GoToKnows DEF Grounds, Pc
  <2>4. CASE GoTo(p, "flag")
    BY <2>4, GoToKnows DEF Grounds, Pc
  <2>5. CASE GoTo(p, "release")
    BY <2>5, GoToKnows DEF Grounds, Pc
  <2>6. CASE GoTo(p, "review")
    BY <2>6, GoToKnows DEF Grounds, Pc
  <2> QED
    BY <2>1, <2>3, <2>4, <2>5, <2>6
<1>9. ASSUME NEW p \in Process, Dies(p) PROVE Knowledge'
  BY <1>9, GoToKnows DEF Dies, At, Grounds, Knowledge, Knows, Lasting, Pc, Event
<1>10. ASSUME NEW p \in Process, Throws(p) PROVE Knowledge'
  BY <1>10, GoToKnows DEF Throws, Rescue, At, Grounds, Knowledge, Knows, Lasting, Pc, Event
<1>11. ASSUME NEW p \in Process, CancelRead(p) PROVE Knowledge'
  <2>1. ASSUME NEW pc \in {"request", "release", "retrieve", "review"}, Start(p, "cancel", pc)
        PROVE  Knowledge'
    <3>1. Grounds(pc, "cancel")'
      BY DEF Grounds
    <3> QED
      BY <2>1, <3>1, StartKnows DEF Start, Job, Pc
  <2> QED
    BY <1>11, <2>1 DEF CancelRead
<1>12. ASSUME NEW p \in Process, RecoverRead(p) PROVE Knowledge'
  BY <1>12, StartKnows DEF RecoverRead, Start, At, Grounds, Knowledge, Knows, Lasting, Pc, Event, Job
<1>13. ASSUME NEW p \in Process, ConfirmRead(p) PROVE Knowledge'
  BY <1>13, StartKnows DEF ConfirmRead, Start, At, Grounds, Knowledge, Knows, Lasting, Pc, Event, Job
<1>14. ASSUME NEW p \in Process, HookReclaim(p) PROVE Knowledge'
  BY <1>14, GoToKnows DEF HookReclaim, Reclaimable, At, Grounds, Knowledge, Knows, Lasting, Pc, Event
<1>15. ASSUME NEW p \in Process, Decline(p) PROVE Knowledge'
  BY <1>15, GoToKnows DEF Decline, At, Grounds, Knowledge, Knows, Lasting, Pc, Event
<1>16. ASSUME NEW p \in Process, HookComplete(p) PROVE Knowledge'
  BY <1>16, GoToKnows DEF HookComplete, At, Grounds, Knowledge, Knows, Lasting, Pc, Event
<1>17. ASSUME NEW p \in Process, HookRefuse(p) PROVE Knowledge'
  BY <1>17, GoToKnows DEF HookRefuse, At, Grounds, Knowledge, Knows, Lasting, Pc, Event
<1>18. ASSUME NEW p \in Process, NEW e \in Event, HookRead(p, e) PROVE Knowledge'
  <2>1. ASSUME NEW pc \in {"persist", "decline", "reclaim"},
               pc = "persist" <=> (e = "charged" /\ pc # "reclaim"),
               job' = [job EXCEPT ![p] = [job |-> e, pc |-> pc]]
        PROVE  Knowledge'
    <3>1. e = "charged" => intent' = "succeeded"
      BY <1>18 DEF HookRead, Delivered
    <3>2. Grounds(pc, e)'
      BY <2>1, <3>1 DEF Grounds, Event
    <3> QED
      BY <2>1, <3>2, StartKnows DEF Job, Pc
  <2> QED
    BY <1>18, <2>1, <1>1 DEF HookRead
<1>19. ASSUME NEW p \in Process, ExpireRead(p) PROVE Knowledge'
  <2>1. ASSUME NEW pc \in {"retrieve", "recreate", "expire", "flag"}, Start(p, "expire", pc),
               pc = "recreate" => order.claimed,
               pc = "expire" => Unpayable
        PROVE  Knowledge'
    <3>1. Grounds(pc, "expire")'
      BY <2>1 DEF Grounds, BindingFirst, Unpayable, Start
    <3> QED
      BY <2>1, <3>1, StartKnows DEF Start, Job, Pc
  <2>2. order.status \in Held /\ expired
    BY <1>19 DEF ExpireRead
  <2>3. ~order.pi /\ ~order.claimed => Unpayable
    BY <2>2 DEF BindingFirst, Unpayable
  <2> QED
    BY <1>19, <2>1, <2>3 DEF ExpireRead
<1>20. ASSUME NEW p \in Process, Recreate(p) PROVE Knowledge'
  BY <1>20, GoToKnows DEF Recreate, CreateIntent, At, Grounds, Knowledge, Knows, Lasting, Pc, Event, Job, BindingFirst, Unpayable, Books, OrderDoc
<1>21. ASSUME NEW p \in Process, Rebind(p) PROVE Knowledge'
  BY <1>21, GoToKnows DEF Rebind, BoundTo, At, Grounds, Knowledge, Knows, Lasting, Pc, Event, Job, BindingFirst, Unpayable, Books, OrderDoc
<1>22. ASSUME NEW p \in Process, Reread(p) PROVE Knowledge'
  BY <1>22, GoToKnows DEF Reread, At, Grounds, Knowledge, Knows, Lasting, Pc, Event, Job, BindingFirst, Unpayable, Books, OrderDoc
<1>23. ASSUME NEW p \in Process, Flag(p) PROVE Knowledge'
  BY <1>23, GoToKnows DEF Flag, At, Grounds, Knowledge, Knows, Lasting, Pc, Event, Job, BindingFirst, Unpayable, Books, OrderDoc
<1>24. ASSUME NEW p \in Process, Expire(p) PROVE Knowledge'
  BY <1>24, GoToKnows DEF Expire, Expirable, ReturnSeats, At, Grounds, Knowledge, Knows, Lasting, Pc, Event, Job, BindingFirst, Unpayable, Books, OrderDoc
<1>25. ASSUME NEW p \in Process, AllocateRead(p) PROVE Knowledge'
  BY <1>25, StartKnows DEF AllocateRead, Start, At, Grounds, Knowledge, Knows, Lasting, Pc, Event, Job, BindingFirst, Unpayable, Books, OrderDoc
<1> QED
  BY <1>1, <1>2, <1>3, <1>4, <1>5, <1>6, <1>7, <1>8, <1>9, <1>10, <1>11, <1>12, <1>13, <1>14, <1>15, <1>16, <1>17, <1>18, <1>19, <1>20, <1>21, <1>22, <1>23, <1>24, <1>25
  DEF Next, Regular, Fault, Pay, Shared, Serve, Sweep, Process, vars,
      CustomerPays, ChargeSettles, HoldExpires, LeaseExpires, SessionRead, SessionClaim, SessionCreate, SessionBind, SessionLost, SessionCancel, SessionFlag, SessionShow, SessionStops

(* An event is acknowledged, and its row completed, only once the order    *)
(* has recorded what it says.                                              *)
LEMMA DeliveredStep ==
  ASSUME TypeOK, Delivered, Knowledge, Lasting, [Next]_vars
  PROVE  Delivered'
<1>1. ASSUME UNCHANGED hooks PROVE Delivered'
  BY <1>1 DEF Delivered, Lasting, hooks
<1>2. ASSUME ChargeSettles PROVE Delivered'
  BY <1>2 DEF ChargeSettles, Delivered, Lasting
<1>3. ASSUME LeaseExpires PROVE Delivered'
  BY <1>3 DEF LeaseExpires, Delivered, Lasting, TypeOK, Event
<1>4. ASSUME NEW p \in Process, HookReclaim(p) PROVE Delivered'
  BY <1>4 DEF HookReclaim, Delivered, Lasting, TypeOK, Event
<1>5. ASSUME NEW p \in Process, HookComplete(p) PROVE Delivered'
  BY <1>5 DEF HookComplete, At, Knowledge, Knows, Grounds, Delivered, Lasting, TypeOK, Event
<1>6. ASSUME NEW p \in Process, HookRefuse(p) PROVE Delivered'
  BY <1>6 DEF HookRefuse, At, Knowledge, Knows, Grounds, Delivered, Lasting, TypeOK, Event
<1>7. ASSUME NEW p \in Process, NEW e \in Event, HookRead(p, e) PROVE Delivered'
  BY <1>7 DEF HookRead, Delivered, Lasting, TypeOK, Event
<1> QED
  BY <1>1, <1>2, <1>3, <1>4, <1>5, <1>6, <1>7
  DEF Next, Regular, Fault, Pay, Shared, Serve, Sweep, Process, vars, hooks, Start, CustomerPays, HoldExpires,
      SessionRead, SessionClaim, SessionCreate, SessionBind, SessionLost,
      SessionCancel, SessionFlag, SessionShow, SessionStops,
      Persist, Allocate, Request, Release, Review, Retrieve, CancelIntent,
      Dies, Throws, CancelRead, RecoverRead, ConfirmRead, Decline,
      ExpireRead, Recreate, Rebind, Reread, Flag, Expire, AllocateRead

(* The invariant is inductive.                                             *)
THEOREM Inductive == Spec => []IInv
<1>1. ASSUME IInv, [Next]_vars PROVE IInv'
  <2>1. Lasting
    BY <1>1, LastingStep DEF IInv
  <2> QED
    BY <1>1, <2>1, TypeStep, BindingStep, BooksStep, DeliveredStep, KnowledgeStep DEF IInv
<1> QED
  BY InitIInv, <1>1, PTL DEF Spec

(* The order's document, rows and handlers stay of their types, and no     *)
(* departure counts fewer parties than none.                               *)
THEOREM OrderTyped == Spec => []TypeOK
BY Inductive, PTL DEF IInv

(* All or nothing: a confirmed order has every child confirmed, every      *)
(* departure counting its party, and the whole charge received.            *)
THEOREM ConfirmedWhole == Spec => []ConfirmedIsWhole
<1>1. IInv => ConfirmedIsWhole
  BY DEF IInv, Books, ConfirmedIsWhole
<1> QED
  BY <1>1, Inductive, PTL

(* Captured money is never written back to an unpaid order.                *)
THEOREM CapturedPaid == Spec => []CapturedStaysPaid
<1>1. IInv => CapturedStaysPaid
  BY DEF IInv, Books, CapturedStaysPaid
<1> QED
  BY <1>1, Inductive, PTL

(* Nothing can be charged for an order that the sweep expired.             *)
THEOREM ExpiredVoid == Spec => []ExpiredCannotCharge
<1>1. IInv => ExpiredCannotCharge
  BY DEF IInv, Books, BindingFirst, Unpayable, ExpiredCannotCharge
<1> QED
  BY <1>1, Inductive, PTL

(* An acknowledged payment_intent.succeeded has been recorded.             *)
THEOREM AckCaptured == Spec => []AckMeansCaptured
<1>1. IInv => AckMeansCaptured
  BY DEF IInv, Delivered, AckMeansCaptured
<1> QED
  BY <1>1, Inductive, PTL
=============================================================================
