----------------------------- MODULE Checkout ------------------------------
(***************************************************************************)
(* Buying a tour, a package or a bundle.  A request claims its idempotency *)
(* key, prices the purchase and, in one transaction, takes the seats and   *)
(* the use of a discount, writes the booking and completes the key, while  *)
(* admins change a site's fees, the package and the discount.              *)
(*                                                                         *)
(* MongoDB runs the transactions under snapshot isolation: Begin reads and *)
(* checks everything in the transaction's snapshot, Commit succeeds only   *)
(* if nobody has since written a document the transaction writes.  That is *)
(* why the code writes "fence" fields into documents it means only to      *)
(* read: the site (fenceFinancePolicy) and the package                     *)
(* (fencePackageBooking).                                                  *)
(***************************************************************************)
EXTENDS Integers, Sequences, FiniteSetsExt

CONSTANTS
  Sites,         \* storefronts, each with fees of its own
  Tours, Packages,
  Bundles,       \* quotes for bundles, each bought at most once
  Site,          \* [Items -> the site that sells it]
  Uses,          \* [Items -> the departures it takes seats of]
  Party,         \* [Items -> how many travel]
  Discounted,    \* tours and packages bought with the promo code
  Keys,          \* idempotency keys for tours and packages
  BundleKeys,    \* idempotency keys for bundles
  Clients,       \* requests being handled
  Departures,
  Seats,         \* seats of a departure
  Allotment,     \* seats of a departure its supplier lends to bundles
  UsageLimit,    \* uses of the promo code
  Promo,         \* the promo code's document
  None,
  MaxEdits       \* bound: edits of fees, packages and code in a behaviour

Items == Tours \union Packages \union Bundles
AllKeys == Keys \union BundleKeys

ASSUME CheckoutAssumption ==
  /\ Tours \cap Packages = {} /\ Bundles \cap (Tours \union Packages) = {}
  /\ Keys \cap BundleKeys = {}
  /\ Discounted \subseteq Tours \union Packages
  /\ Site \in [Items -> Sites]
  /\ Uses \in [Items -> SUBSET Departures]
  /\ Party \in [Items -> Nat]
  /\ Seats \in [Departures -> Nat] /\ Allotment \in [Departures -> Nat]
  /\ UsageLimit \in Nat
  /\ None \notin Items \union AllKeys
  /\ MaxEdits \in Nat

VARIABLES
  policy,    \* [Sites -> financeRevision]
  edition,   \* [Packages -> packageRevision]
  promo,     \* the promo code: its terms and its usageCount
  quote,     \* [Bundles -> BundleQuote]
  booked,    \* [Departures -> seats taken]
  reserved,  \* [Departures -> seats of the allotment taken]
  record,    \* [AllKeys -> idempotency record]
  sold,      \* bookings and bundle orders, in the order they were written
  client     \* [Clients -> request]

vars == <<policy, edition, promo, quote, booked, reserved, record, sold, client>>
stock == <<promo, quote, booked, reserved, sold>>

(* What the price of a purchase hangs on, at present.                      *)
Terms == [policy : Nat, promo : Nat, edition : Nat]
Present(i) ==
  [policy  |-> policy[Site[i]],
   promo   |-> IF i \in Discounted THEN promo.terms ELSE 0,
   edition |-> IF i \in Packages THEN edition[i] ELSE 0]

(* "again" is failed_retryable, "final" failed_final.  wait: the lease of  *)
(* a bundle's record, or the backoff of one that may be retried, runs.     *)
RecordStates == {"absent", "processing", "again", "final", "completed"}
NoRecord == [st |-> "absent", item |-> None, wait |-> FALSE]
Processing(i) == [st |-> "processing", item |-> i, wait |-> TRUE]

Idle == [at |-> "idle", key |-> None, item |-> None, fresh |-> FALSE,
         terms |-> [policy |-> 0, promo |-> 0, edition |-> 0]]

TypeOK ==
  /\ policy \in [Sites -> Nat] /\ edition \in [Packages -> Nat]
  /\ promo \in [terms : Nat, used : Int]
  /\ quote \in [Bundles -> [st : {"none", "active", "consumed"},
                            policy : Nat, late : BOOLEAN]]
  /\ booked \in [Departures -> Int] /\ reserved \in [Departures -> Int]
  /\ record \in [AllKeys -> [st : RecordStates, item : Items \union {None},
                             wait : BOOLEAN]]
  /\ sold \in Seq([key : AllKeys, item : Items, terms : Terms,
                   held : BOOLEAN, claim : BOOLEAN])
  /\ client \in [Clients ->
       [at : {"idle", "claim", "price", "begin", "commit", "failed", "blip"},
        key : AllKeys \union {None}, item : Items \union {None},
        fresh : BOOLEAN, terms : Terms]]

Init ==
  /\ policy = [s \in Sites |-> 0]
  /\ edition = [p \in Packages |-> 0]
  /\ promo = [terms |-> 0, used |-> 0]
  /\ quote = [q \in Bundles |-> [st |-> "none", policy |-> 0, late |-> FALSE]]
  /\ booked = [d \in Departures |-> 0]
  /\ reserved = [d \in Departures |-> 0]
  /\ record = [k \in AllKeys |-> NoRecord]
  /\ sold = <<>>
  /\ client = [c \in Clients |-> Idle]

-----------------------------------------------------------------------------
(* Snapshot isolation.                                                     *)

(* The documents the transaction that sells i under key k writes.          *)
WriteSetUnfenced(k, i) ==
  {k} \union Uses[i] \union (IF i \in Discounted THEN {Promo} ELSE {})
      \union (IF i \in Bundles THEN {i} ELSE {})
WriteSet(k, i) ==
  {Site[i], k} \union Uses[i] \union (IF i \in Discounted THEN {Promo} ELSE {})
              \union (IF i \in Tours THEN {} ELSE {i})

(* Once docs are written, a transaction that was to write one is stale.    *)
Disturbed(docs) ==
  [c \in Clients |->
     IF /\ client[c].at = "commit"
        /\ WriteSet(client[c].key, client[c].item) \cap docs # {}
     THEN [client[c] EXCEPT !.fresh = FALSE]
     ELSE client[c]]

(* Nothing is written by the step but the request itself.                  *)
Moves(c, at) == client' = [client EXCEPT ![c].at = at]
Ends(c) == client' = [client EXCEPT ![c] = Idle]
EndsAfter(c, docs) == client' = [Disturbed(docs) EXCEPT ![c] = Idle]

-----------------------------------------------------------------------------
(* A request: claim and price, in the order of each kind of checkout.      *)

(* The site's settings come with the request; a bundle's quote is read     *)
(* from the database.  A package answers a known key before anything else. *)
Ask(c, k, i) ==
  /\ client[c].at = "idle"
  /\ k \in BundleKeys <=> i \in Bundles
  /\ i \in Bundles => quote[i].st # "none"
  /\ i \in Packages => record[k].st = "absent"
  /\ client' = [client EXCEPT ![c] =
       [at |-> IF i \in Packages THEN "price" ELSE "claim",
        key |-> k, item |-> i, fresh |-> FALSE,
        terms |-> [policy |-> IF i \in Bundles THEN quote[i].policy ELSE policy[Site[i]],
                   promo |-> 0, edition |-> 0]]]
  /\ UNCHANGED <<stock, policy, edition, record>>

(* A new key, for all kinds of purchase: the unique index decides.         *)
FirstClaim(c) ==
  LET k == client[c].key  i == client[c].item IN
  /\ client[c].at = "claim"
  /\ record[k].st = "absent"
  /\ record' = [record EXCEPT ![k] = Processing(i)]
  /\ Moves(c, IF i \in Tours THEN "price" ELSE "begin")
  /\ UNCHANGED <<stock, policy, edition>>

(* A bundle's record is taken over once its lease or its backoff is over.  *)
Reclaim(c) ==
  LET k == client[c].key  i == client[c].item IN
  /\ client[c].at = "claim"
  /\ k \in BundleKeys
  /\ record[k].item = i
  /\ record[k].st \in {"processing", "again"}
  /\ ~record[k].wait
  /\ record' = [record EXCEPT ![k] = Processing(i)]
  /\ client' = [Disturbed({k}) EXCEPT ![c].at = "begin"]
  /\ UNCHANGED <<stock, policy, edition>>

(* The key is known: its booking is answered again, or the request refused.*)
KnownKey(c) ==
  /\ client[c].at = "claim"
  /\ record[client[c].key].st # "absent"
  /\ Ends(c)
  /\ UNCHANGED <<stock, policy, edition, record>>

(* The package, the promo code: read outside the transaction.              *)
Price(c) ==
  LET i == client[c].item IN
  /\ client[c].at = "price"
  /\ i \in Discounted => promo.used < UsageLimit
  /\ client' = [client EXCEPT ![c] = [client[c] EXCEPT
       !.at = IF i \in Tours THEN "begin" ELSE "claim",
       !.terms = [Present(i) EXCEPT !.policy = client[c].terms.policy]]]
  /\ UNCHANGED <<stock, policy, edition, record>>

-----------------------------------------------------------------------------
(* The transaction.                                                        *)

SeatsLeft(i) == \A d \in Uses[i] : booked[d] + Party[i] <= Seats[d]
AllotmentLeft(i) ==
  i \in Bundles => \A d \in Uses[i] : reserved[d] + Party[i] <= Allotment[d]
PromoLeft(i) == i \in Discounted => promo.used < UsageLimit

(* Everything the transaction checks on the way to its commit.             *)
Sellable(c) ==
  LET i == client[c].item IN
  /\ client[c].terms = Present(i)
  /\ SeatsLeft(i) /\ AllotmentLeft(i) /\ PromoLeft(i)
  /\ i \in Bundles => /\ quote[i].st = "active" /\ ~quote[i].late
                      /\ record[client[c].key].st = "processing"

Begin(c) ==
  /\ client[c].at = "begin"
  /\ Sellable(c)
  /\ client' = [client EXCEPT ![c].at = "commit", ![c].fresh = TRUE]
  /\ UNCHANGED <<stock, policy, edition, record>>

Refuse(c) ==
  /\ client[c].at = "begin"
  /\ ~Sellable(c)
  /\ Moves(c, "failed")
  /\ UNCHANGED <<stock, policy, edition, record>>

(* A stale transaction starts over, until withTransaction gives up.        *)
Conflict(c) ==
  /\ client[c].at = "commit"
  /\ ~client[c].fresh
  /\ \E at \in {"begin", "blip"} : Moves(c, at)
  /\ UNCHANGED <<stock, policy, edition, record>>

(* The commit may have happened and yet be reported as failed.             *)
Commit(c) ==
  LET k == client[c].key  i == client[c].item IN
  /\ client[c].at = "commit"
  /\ client[c].fresh
  /\ booked' = [d \in Departures |->
                  IF d \in Uses[i] THEN booked[d] + Party[i] ELSE booked[d]]
  /\ reserved' = [d \in Departures |->
                    IF i \in Bundles /\ d \in Uses[i] THEN reserved[d] + Party[i]
                                                      ELSE reserved[d]]
  /\ promo' = [promo EXCEPT !.used = IF i \in Discounted THEN promo.used + 1 ELSE promo.used]
  /\ quote' = [q \in Bundles |-> IF q = i THEN [quote[q] EXCEPT !.st = "consumed"]
                                          ELSE quote[q]]
  /\ record' = [record EXCEPT ![k].st = "completed", ![k].wait = FALSE]
  /\ sold' = Append(sold, [key |-> k, item |-> i, terms |-> client[c].terms,
                           held |-> TRUE, claim |-> i \in Discounted])
  /\ \/ EndsAfter(c, WriteSet(k, i))
     \/ client' = [Disturbed(WriteSet(k, i)) EXCEPT ![c].at = "failed"]
  /\ UNCHANGED <<policy, edition>>

-----------------------------------------------------------------------------
(* Failures.                                                               *)

(* An error before the commit: "blip" if the driver calls it transient.    *)
Throws(c) ==
  /\ \/ client[c].at \in {"price", "claim"} /\ client[c].item \in Packages /\ Ends(c)
     \/ client[c].at = "price" /\ client[c].item \in Tours /\ Moves(c, "failed")
     \/ client[c].at \in {"begin", "commit"} /\ \E at \in {"failed", "blip"} : Moves(c, at)
  /\ UNCHANGED <<stock, policy, edition, record>>

(* What the handler's catch leaves of the record: an ordinary key is free  *)
(* again, a bundle's says whether the request may be retried.              *)
AfterFailureWhole(k, blip) ==
  IF k \in Keys THEN NoRecord
  ELSE [record[k] EXCEPT !.st = IF blip THEN "again" ELSE "final", !.wait = blip]
AfterFailure(k, blip) ==
  IF record[k].st # "processing" THEN record[k]
  ELSE IF k \in Keys THEN NoRecord
  ELSE [record[k] EXCEPT !.st = IF blip THEN "again" ELSE "final", !.wait = blip]

Fail(c) ==
  LET k == client[c].key IN
  /\ client[c].at \in {"failed", "blip"}
  /\ record' = [record EXCEPT ![k] = AfterFailure(k, client[c].at = "blip")]
  /\ EndsAfter(c, IF record' = record THEN {} ELSE {k})
  /\ UNCHANGED <<stock, policy, edition>>

(* The process dies, or the catch's own write fails.                       *)
Dies(c) ==
  /\ client[c].at # "idle"
  /\ Ends(c)
  /\ UNCHANGED <<stock, policy, edition, record>>

(* Half an hour after a request died its ordinary record expires.          *)
KeyExpires(k) ==
  /\ k \in Keys
  /\ record[k].st = "processing"
  /\ \A c \in Clients : client[c].key # k
  /\ record' = [record EXCEPT ![k] = NoRecord]
  /\ UNCHANGED <<stock, policy, edition, client>>

(* A lease (two minutes) or a backoff (half a minute) runs out.            *)
WaitOver(k) ==
  /\ k \in BundleKeys
  /\ record[k].wait
  /\ record' = [record EXCEPT ![k].wait = FALSE]
  /\ UNCHANGED <<stock, policy, edition, client>>

-----------------------------------------------------------------------------
(* Quotes, returns and the admin's edits.                                  *)

QuoteBundle(q) ==
  /\ quote[q].st = "none"
  /\ quote' = [quote EXCEPT ![q] = [st |-> "active", policy |-> policy[Site[q]], late |-> FALSE]]
  /\ UNCHANGED <<promo, booked, reserved, sold, policy, edition, record, client>>

QuoteLapses(q) ==
  /\ quote[q].st = "active" /\ ~quote[q].late
  /\ quote' = [quote EXCEPT ![q].late = TRUE]
  /\ UNCHANGED <<promo, booked, reserved, sold, policy, edition, record, client>>

(* A sale's seats come back, paid for or not; an unpaid package also       *)
(* returns its use of the code, a tour never does.                         *)
ClaimReturns(s, paid) == s.claim /\ ~paid /\ s.item \in Packages
ReturnForgetsAllotment(s, paid) ==
  /\ booked' = [d \in Departures |->
                  IF d \in Uses[s.item] THEN booked[d] - Party[s.item] ELSE booked[d]]
  /\ promo' = [promo EXCEPT !.used = IF ClaimReturns(s, paid) THEN @ - 1 ELSE @]
  /\ UNCHANGED reserved
GiveBack(s, paid) ==
  /\ booked' = [d \in Departures |->
                  IF d \in Uses[s.item] THEN booked[d] - Party[s.item] ELSE booked[d]]
  /\ reserved' = [d \in Departures |->
                    IF s.item \in Bundles /\ d \in Uses[s.item]
                    THEN reserved[d] - Party[s.item] ELSE reserved[d]]
  /\ promo' = [promo EXCEPT !.used = IF ClaimReturns(s, paid) THEN @ - 1 ELSE @]

Return(n, paid) ==
  LET s == sold[n] IN
  /\ s.held
  /\ GiveBack(s, paid)
  /\ sold' = [sold EXCEPT ![n].held = FALSE,
                          ![n].claim = @ /\ ~ClaimReturns(s, paid)]
  /\ client' = Disturbed(Uses[s.item] \union
                         (IF ClaimReturns(s, paid) THEN {Promo} ELSE {}))
  /\ UNCHANGED <<quote, policy, edition, record>>

Edits == promo.terms + MapThenSumSet(LAMBDA s : policy[s], Sites)
                     + MapThenSumSet(LAMBDA p : edition[p], Packages)

EditFees(s) ==
  /\ Edits < MaxEdits
  /\ policy' = [policy EXCEPT ![s] = @ + 1]
  /\ client' = Disturbed({s})
  /\ UNCHANGED <<stock, edition, record>>

EditPackage(p) ==
  /\ Edits < MaxEdits
  /\ edition' = [edition EXCEPT ![p] = @ + 1]
  /\ client' = Disturbed({p})
  /\ UNCHANGED <<stock, policy, record>>

EditPromo ==
  /\ Edits < MaxEdits
  /\ promo' = [promo EXCEPT !.terms = @ + 1]
  /\ client' = Disturbed({Promo})
  /\ UNCHANGED <<quote, booked, reserved, sold, policy, edition, record>>

-----------------------------------------------------------------------------
Request(c) ==
  \/ \E i \in Items, k \in AllKeys : Ask(c, k, i)
  \/ FirstClaim(c) \/ Reclaim(c) \/ KnownKey(c) \/ Price(c)
  \/ Begin(c) \/ Refuse(c) \/ Conflict(c) \/ Commit(c)
  \/ Throws(c) \/ Fail(c) \/ Dies(c)

Next ==
  \/ \E c \in Clients : Request(c)
  \/ \E k \in AllKeys : KeyExpires(k) \/ WaitOver(k)
  \/ \E q \in Bundles : QuoteBundle(q) \/ QuoteLapses(q)
  \/ \E n \in DOMAIN sold, paid \in BOOLEAN : Return(n, paid)
  \/ EditPromo
  \/ \E s \in Sites : EditFees(s)
  \/ \E p \in Packages : EditPackage(p)

Spec == Init /\ [][Next]_vars

-----------------------------------------------------------------------------
(* Nothing is sold at yesterday's price: at the instant a booking or an    *)
(* order is written, the fees, the package and the discount it was priced  *)
(* with are the ones in force (fenceFinancePolicy, fencePackageBooking,    *)
(* promoClaimFilter, claimPackagePromo), however long ago it was priced.   *)
SoldAtPresentTerms ==
  [][\A n \in DOMAIN sold' :
       n \notin DOMAIN sold => sold'[n].terms = Present(sold'[n].item)]_vars

(* A retry finds its purchase and never makes a second one: a key buys at  *)
(* most once and a quote is bought at most once; the record of a purchase  *)
(* stays completed, and a completed record has its purchase.               *)
FoundByKey ==
  /\ \A m, n \in DOMAIN sold :
       \/ sold[m].key = sold[n].key
       \/ sold[m].item = sold[n].item /\ sold[m].item \in Bundles
       => m = n
  /\ \A n \in DOMAIN sold : /\ record[sold[n].key].st = "completed"
                            /\ record[sold[n].key].item = sold[n].item
  /\ \A k \in AllKeys :
       record[k].st = "completed" => \E n \in DOMAIN sold : sold[n].key = k

(* The books agree with what is sold: the seats of a departure, the part   *)
(* of them lent to bundles and the uses of the code are those of the sales *)
(* that hold them, and none goes over its limit.  Seats are counted one by *)
(* one: a unit is a sale and the number of one of its travellers.          *)
Holding(d, kinds) ==
  {n \in DOMAIN sold : /\ sold[n].held /\ sold[n].item \in kinds
                       /\ d \in Uses[sold[n].item]}
SeatUnits(d, kinds) ==
  UNION {{n} \X (1..Party[sold[n].item]) : n \in Holding(d, kinds)}
SeatsHeld(d, kinds) == Cardinality(SeatUnits(d, kinds))
BooksBalance ==
  /\ \A d \in Departures :
       /\ booked[d] = SeatsHeld(d, Items) /\ booked[d] <= Seats[d]
       /\ reserved[d] = SeatsHeld(d, Bundles) /\ reserved[d] <= Allotment[d]
  /\ promo.used = Cardinality({n \in DOMAIN sold : sold[n].claim})
  /\ promo.used <= UsageLimit
=============================================================================
