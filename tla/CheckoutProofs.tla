--------------------------- MODULE CheckoutProofs ---------------------------
(***************************************************************************)
(* Nothing is sold at yesterday's price, no retry buys twice and nothing   *)
(* is oversold, for any number of requests, keys, items and edits.  The    *)
(* argument is the write set: what a transaction has checked in its        *)
(* snapshot is still so as long as it is fresh, because every step that    *)
(* changes what was checked writes a document of its write set.            *)
(***************************************************************************)
EXTENDS Checkout, TLAPS, FiniteSetTheorems

At(c, states) == client[c].at \in states

(* A request that is not idle knows its key and what it buys.              *)
Asked(c) ==
  ~At(c, {"idle"}) =>
    /\ client[c].key \in AllKeys /\ client[c].item \in Items
    /\ client[c].key \in BundleKeys <=> client[c].item \in Bundles

(* What a fresh transaction has checked.                                   *)
Fresh(c) ==
  At(c, {"commit"}) /\ client[c].fresh =>
    /\ client[c].terms = Present(client[c].item)
    /\ record[client[c].key].st = "processing"
    /\ client[c].item \in Bundles => quote[client[c].item].st = "active"

(* Past the claim a request goes by a record of its own purchase.          *)
Claimed(c) ==
  \/ At(c, {"begin", "commit", "failed", "blip"})
  \/ At(c, {"price"}) /\ client[c].item \in Tours
Recorded(c) ==
  Claimed(c) =>
    /\ record[client[c].key].item = client[c].item
    /\ record[client[c].key].st # "absent"
    /\ client[c].key \in Keys =>
         \/ record[client[c].key].st = "processing"
         \/ At(c, {"failed", "blip"}) /\ record[client[c].key].st = "completed"

(* An ordinary key is worked on by one request.                            *)
Alone ==
  \A c, d \in Clients :
    Claimed(c) /\ Claimed(d) /\ client[c].key = client[d].key /\ client[c].key \in Keys
      => c = d

QuotesSold ==
  \A n \in DOMAIN sold : sold[n].item \in Bundles => quote[sold[n].item].st = "consumed"

Inv ==
  /\ TypeOK
  /\ \A c \in Clients : Asked(c) /\ Fresh(c) /\ Recorded(c)
  /\ Alone
  /\ FoundByKey
  /\ QuotesSold

Positions == {"idle", "claim", "price", "begin", "commit", "failed", "blip"}
Requests == [at : Positions, key : AllKeys \union {None}, item : Items \union {None},
             fresh : BOOLEAN, terms : Terms]
Quotes == [st : {"none", "active", "consumed"}, policy : Nat, late : BOOLEAN]
Records == [st : RecordStates, item : Items \union {None}, wait : BOOLEAN]

-----------------------------------------------------------------------------
(* Going stale changes nothing else of a request, and a request whose      *)
(* transaction writes one of the documents does go stale.                  *)
LEMMA DisturbedFacts ==
  ASSUME client \in [Clients -> Requests], NEW docs
  PROVE  /\ Disturbed(docs) \in [Clients -> Requests]
         /\ \A c \in Clients :
              /\ Disturbed(docs)[c].at = client[c].at
              /\ Disturbed(docs)[c].key = client[c].key
              /\ Disturbed(docs)[c].item = client[c].item
              /\ Disturbed(docs)[c].terms = client[c].terms
              /\ Disturbed(docs)[c].fresh => client[c].fresh
              /\ /\ client[c].at = "commit"
                 /\ WriteSet(client[c].key, client[c].item) \cap docs # {}
                 => ~Disturbed(docs)[c].fresh
BY DEF Disturbed, Requests

(* The terms of an item are terms.                                         *)
LEMMA PresentTyped == ASSUME TypeOK, NEW i \in Items PROVE Present(i) \in Terms
BY CheckoutAssumption DEF TypeOK, Present, Terms

(* A request that only moves is still a request for the same purchase.     *)
LEMMA MovesTyped ==
  ASSUME client \in [Clients -> Requests], \A d \in Clients : Asked(d), NEW c \in Clients,
         NEW at \in Positions, Moves(c, at), client[c].at # "idle"
  PROVE  client' \in [Clients -> Requests] /\ \A d \in Clients : Asked(d)'
<1>1. client' \in [Clients -> Requests]
  BY DEF Moves, Requests
<1> QED BY <1>1 DEF Moves, Asked, At

LEMMA EndsTyped ==
  ASSUME client \in [Clients -> Requests], \A d \in Clients : Asked(d), NEW c \in Clients,
         NEW docs, Ends(c) \/ EndsAfter(c, docs)
  PROVE  client' \in [Clients -> Requests] /\ \A d \in Clients : Asked(d)'
<1> DEFINE D == Disturbed(docs)
<1>1. /\ D \in [Clients -> Requests]
      /\ \A d \in Clients : /\ D[d].at = client[d].at
                            /\ D[d].key = client[d].key /\ D[d].item = client[d].item
  BY DisturbedFacts
<1>2. Idle \in Requests
  BY DEF Idle, Requests, Positions, Terms
<1>3. client' = [client EXCEPT ![c] = Idle] \/ client' = [D EXCEPT ![c] = Idle]
  BY DEF Ends, EndsAfter
<1> HIDE DEF D
<1>4. client' \in [Clients -> Requests]
  BY <1>1, <1>2, <1>3
<1> QED BY <1>1, <1>3, <1>4 DEF Asked, At, Idle

(* Every step of a request keeps the types and what it knows of itself.    *)
LEMMA RequestTyped ==
  ASSUME TypeOK, \A c \in Clients : Asked(c), NEW c \in Clients, Request(c)
  PROVE  TypeOK' /\ \A d \in Clients : Asked(d)'
<1>0. client \in [Clients -> Requests] /\ record \in [AllKeys -> Records]
  BY DEF TypeOK, Requests, Records, Positions
<1> DEFINE k == client[c].key  i == client[c].item
<1>a. client[c].at # "idle" => k \in AllKeys /\ i \in Items
  BY DEF Asked, At
<1>b. ASSUME client' \in [Clients -> Requests], record' \in [AllKeys -> Records],
             UNCHANGED <<stock, policy, edition>>
      PROVE  TypeOK'
  BY <1>b DEF stock, TypeOK, Requests, Records, Positions
<1>c. \A j \in Items : Processing(j) \in Records
  BY DEF Processing, Records, RecordStates
<1>1. ASSUME NEW j \in Items, NEW l \in AllKeys, Ask(c, l, j)
      PROVE  TypeOK' /\ \A d \in Clients : Asked(d)'
  BY <1>1, CheckoutAssumption DEF Ask, stock, TypeOK, Asked, At, Terms, Items, AllKeys
<1>2. ASSUME FirstClaim(c) PROVE TypeOK' /\ \A d \in Clients : Asked(d)'
  <2>1. client[c].at # "idle" /\ \E at \in Positions : Moves(c, at)
    BY <1>2 DEF FirstClaim, Positions
  <2>2. record' \in [AllKeys -> Records]
    BY <1>0, <1>a, <1>c, <1>2, <2>1 DEF FirstClaim
  <2> QED BY <1>0, <1>b, <1>2, <2>1, <2>2, MovesTyped DEF FirstClaim
<1>3. ASSUME Reclaim(c) PROVE TypeOK' /\ \A d \in Clients : Asked(d)'
  <2> DEFINE D == Disturbed({k})
  <2>1. /\ D \in [Clients -> Requests]
        /\ \A d \in Clients : /\ D[d].at = client[d].at
                              /\ D[d].key = client[d].key /\ D[d].item = client[d].item
    BY <1>0, DisturbedFacts
  <2>2. client' = [D EXCEPT ![c].at = "begin"] /\ client[c].at = "claim"
    BY <1>3 DEF Reclaim
  <2> HIDE DEF D
  <2>3. client' \in [Clients -> Requests]
    BY <2>1, <2>2 DEF Requests, Positions
  <2>4. \A d \in Clients : Asked(d)'
    BY <2>1, <2>2, <2>3 DEF Asked, At
  <2>5. record' \in [AllKeys -> Records]
    BY <1>0, <1>a, <1>c, <1>3, <2>2 DEF Reclaim
  <2> QED BY <1>b, <1>3, <2>3, <2>4, <2>5 DEF Reclaim
<1>4. ASSUME KnownKey(c) \/ Dies(c) PROVE TypeOK' /\ \A d \in Clients : Asked(d)'
  <2>1. Ends(c) /\ UNCHANGED <<stock, policy, edition, record>>
    BY <1>4 DEF KnownKey, Dies
  <2> QED BY <1>0, <1>b, <2>1, EndsTyped
<1>5. ASSUME Price(c) PROVE TypeOK' /\ \A d \in Clients : Asked(d)'
  <2>1. client[c].at = "price" /\ Present(i) \in Terms
    BY <1>5, <1>a, PresentTyped DEF Price
  <2>4. client[c].terms \in Terms
    BY <1>0 DEF Requests
  <2>5. [Present(i) EXCEPT !.policy = client[c].terms.policy] \in Terms
    BY <2>1, <2>4 DEF Terms
  <2>2. client' \in [Clients -> Requests]
    <3> DEFINE r == [client[c] EXCEPT !.at = IF i \in Tours THEN "begin" ELSE "claim",
                                      !.terms = [Present(i) EXCEPT !.policy = client[c].terms.policy]]
    <3>1. r \in Requests
      BY <1>0, <2>5 DEF Requests, Positions
    <3>2. client' = [client EXCEPT ![c] = r]
      BY <1>5 DEF Price
    <3> QED BY <1>0, <3>1, <3>2
  <2>3. \A d \in Clients : Asked(d)'
    BY <1>0, <1>5, <2>1 DEF Price, Asked, At
  <2> QED BY <1>0, <1>b, <1>5, <2>2, <2>3 DEF Price
<1>6. ASSUME Begin(c) PROVE TypeOK' /\ \A d \in Clients : Asked(d)'
  <2>1. client' \in [Clients -> Requests]
    BY <1>0, <1>6 DEF Begin, Requests, Positions
  <2>2. \A d \in Clients : Asked(d)'
    BY <1>0, <1>6 DEF Begin, Asked, At
  <2> QED BY <1>0, <1>b, <1>6, <2>1, <2>2 DEF Begin
<1>7. ASSUME Refuse(c) \/ Conflict(c) \/ Throws(c)
      PROVE  TypeOK' /\ \A d \in Clients : Asked(d)'
  <2>1. /\ UNCHANGED <<stock, policy, edition, record>>
        /\ \/ Ends(c)
           \/ client[c].at # "idle" /\ (Moves(c, "begin") \/ Moves(c, "failed") \/ Moves(c, "blip"))
    BY <1>7 DEF Refuse, Conflict, Throws
  <2>2. {"begin", "failed", "blip"} \subseteq Positions
    BY DEF Positions
  <2> QED BY <1>0, <1>b, <2>1, <2>2, EndsTyped, MovesTyped
<1>8. ASSUME Commit(c) PROVE TypeOK' /\ \A d \in Clients : Asked(d)'
  <2> DEFINE D == Disturbed(WriteSet(k, i))
  <2>1. /\ D \in [Clients -> Requests]
        /\ \A d \in Clients : /\ D[d].at = client[d].at
                              /\ D[d].key = client[d].key /\ D[d].item = client[d].item
    BY <1>0, DisturbedFacts
  <2>2. client[c].at = "commit" /\ (EndsAfter(c, WriteSet(k, i)) \/ client' = [D EXCEPT ![c].at = "failed"])
    BY <1>8 DEF Commit
  <2> HIDE DEF D
  <2>3. client' \in [Clients -> Requests] /\ \A d \in Clients : Asked(d)'
    <3>1. CASE EndsAfter(c, WriteSet(k, i))
      BY <1>0, <3>1, EndsTyped
    <3>2. CASE client' = [D EXCEPT ![c].at = "failed"]
      <4>1. client' \in [Clients -> Requests]
        BY <2>1, <3>2 DEF Requests, Positions
      <4> QED BY <2>1, <2>2, <3>2, <4>1 DEF Asked, At
    <3> QED BY <2>2, <3>1, <3>2
  <2>4. k \in AllKeys /\ i \in Items /\ Party[i] \in Nat
    BY <1>a, <2>2, CheckoutAssumption
  <2>5. record' \in [AllKeys -> Records]
    BY <1>0, <1>8, <2>4 DEF Commit, Records, RecordStates
  <2>6. booked' \in [Departures -> Int] /\ reserved' \in [Departures -> Int]
    BY <1>8, <2>4 DEF Commit, TypeOK
  <2>7. promo' \in [terms : Nat, used : Int]
    <3>1. promo \in [terms : Nat, used : Int]
      BY DEF TypeOK
    <3>2. promo' = [promo EXCEPT !.used = promo.used + 1] \/ promo' = [promo EXCEPT !.used = promo.used]
      BY <1>8 DEF Commit
    <3> QED BY <3>1, <3>2
  <2>8. quote' \in [Bundles -> Quotes]
    <3>1. quote \in [Bundles -> Quotes]
      BY DEF TypeOK, Quotes
    <3>2. \A q \in Bundles : [quote[q] EXCEPT !.st = "consumed"] \in Quotes
      BY <3>1 DEF Quotes
    <3>3. quote' = [q \in Bundles |-> IF q = i THEN [quote[q] EXCEPT !.st = "consumed"] ELSE quote[q]]
      BY <1>8 DEF Commit
    <3> QED BY <3>1, <3>2, <3>3
  <2>9. [key |-> k, item |-> i, terms |-> client[c].terms, held |-> TRUE, claim |-> i \in Discounted]
          \in [key : AllKeys, item : Items, terms : Terms, held : BOOLEAN, claim : BOOLEAN]
    BY <1>0, <2>4 DEF Requests
  <2>10. sold' \in Seq([key : AllKeys, item : Items, terms : Terms, held : BOOLEAN, claim : BOOLEAN])
    BY <1>8, <2>9 DEF Commit, TypeOK
  <2> QED BY <1>8, <2>3, <2>5, <2>6, <2>7, <2>8, <2>10 DEF Commit, TypeOK, Quotes, Requests, Records, Positions
<1>9. ASSUME Fail(c) PROVE TypeOK' /\ \A d \in Clients : Asked(d)'
  <2>1. PICK docs : EndsAfter(c, docs)
    BY <1>9 DEF Fail
  <2>2. client[c].at # "idle" /\ UNCHANGED <<stock, policy, edition>>
    BY <1>9 DEF Fail
  <2>3. AfterFailure(k, client[c].at = "blip") \in Records
    BY <1>0, <1>a, <2>2 DEF AfterFailure, NoRecord, Records, RecordStates
  <2>4. record' \in [AllKeys -> Records]
    BY <1>0, <1>9, <2>3 DEF Fail
  <2> QED BY <1>0, <1>b, <2>1, <2>2, <2>4, EndsTyped
<1> QED BY <1>1, <1>2, <1>3, <1>4, <1>5, <1>6, <1>7, <1>8, <1>9 DEF Request

(* So does every other step.                                               *)
LEMMA StepTyped ==
  ASSUME TypeOK, \A c \in Clients : Asked(c), [Next]_vars
  PROVE  TypeOK' /\ \A d \in Clients : Asked(d)'
<1>0. client \in [Clients -> Requests] /\ record \in [AllKeys -> Records]
      /\ quote \in [Bundles -> Quotes]
  BY DEF TypeOK, Requests, Records, Positions, Quotes
<1>a. ASSUME UNCHANGED client PROVE \A d \in Clients : Asked(d)'
  BY <1>a DEF Asked, At
<1>b. ASSUME NEW docs, client' = Disturbed(docs)
      PROVE  client' \in [Clients -> Requests] /\ \A d \in Clients : Asked(d)'
  BY <1>0, <1>b, DisturbedFacts DEF Asked, At
<1>1. ASSUME NEW c \in Clients, Request(c) PROVE TypeOK' /\ \A d \in Clients : Asked(d)'
  BY <1>1, RequestTyped
<1>2. ASSUME NEW k \in AllKeys, KeyExpires(k) \/ WaitOver(k)
      PROVE  TypeOK' /\ \A d \in Clients : Asked(d)'
  <2>1. record' \in [AllKeys -> Records]
    <3>1. NoRecord \in Records /\ [record[k] EXCEPT !.wait = FALSE] \in Records
      BY <1>0 DEF NoRecord, Records, RecordStates
    <3>2. \/ record' = [record EXCEPT ![k] = NoRecord]
          \/ record' = [record EXCEPT ![k] = [record[k] EXCEPT !.wait = FALSE]]
      BY <1>2 DEF KeyExpires, WaitOver
    <3> QED BY <1>0, <3>1, <3>2
  <2>2. UNCHANGED <<stock, policy, edition, client>>
    BY <1>2 DEF KeyExpires, WaitOver
  <2> QED BY <1>a, <2>1, <2>2 DEF TypeOK, stock, Records
<1>3. ASSUME NEW q \in Bundles, QuoteBundle(q) \/ QuoteLapses(q)
      PROVE  TypeOK' /\ \A d \in Clients : Asked(d)'
  <2>1. policy[Site[q]] \in Nat
    BY CheckoutAssumption DEF TypeOK, Items
  <2>2. quote' \in [Bundles -> Quotes]
    <3>1. [st |-> "active", policy |-> policy[Site[q]], late |-> FALSE] \in Quotes
          /\ [quote[q] EXCEPT !.late = TRUE] \in Quotes
      BY <1>0, <2>1 DEF Quotes
    <3>2. \/ quote' = [quote EXCEPT ![q] = [st |-> "active", policy |-> policy[Site[q]], late |-> FALSE]]
          \/ quote' = [quote EXCEPT ![q] = [quote[q] EXCEPT !.late = TRUE]]
      BY <1>3 DEF QuoteBundle, QuoteLapses
    <3> QED BY <1>0, <3>1, <3>2
  <2>3. UNCHANGED <<promo, booked, reserved, sold, policy, edition, record, client>>
    BY <1>3 DEF QuoteBundle, QuoteLapses
  <2> QED BY <1>a, <2>2, <2>3 DEF TypeOK, Quotes
<1>4. ASSUME NEW n \in DOMAIN sold, NEW paid \in BOOLEAN, Return(n, paid)
      PROVE  TypeOK' /\ \A d \in Clients : Asked(d)'
  <2> DEFINE Sales == [key : AllKeys, item : Items, terms : Terms, held : BOOLEAN, claim : BOOLEAN]
  <2>0. sold \in Seq(Sales)
    BY DEF TypeOK
  <2> HIDE DEF Sales
  <2>1. sold \in Seq(Sales) /\ sold[n] \in Sales /\ n \in 1 .. Len(sold)
    BY <2>0
  <2>2. sold[n].item \in Items /\ Party[sold[n].item] \in Nat
    BY <2>1, CheckoutAssumption DEF Sales
  <2>3. booked' \in [Departures -> Int] /\ reserved' \in [Departures -> Int]
    BY <1>4, <2>2 DEF Return, GiveBack, TypeOK
  <2>4. promo' \in [terms : Nat, used : Int]
    <3>1. promo \in [terms : Nat, used : Int]
      BY DEF TypeOK
    <3>2. promo' = [promo EXCEPT !.used = promo.used - 1] \/ promo' = [promo EXCEPT !.used = promo.used]
      BY <1>4 DEF Return, GiveBack
    <3> QED BY <3>1, <3>2
  <2>5. sold' \in Seq(Sales)
    <3>1. sold' = [sold EXCEPT ![n] = [sold[n] EXCEPT !.held = FALSE,
                     !.claim = sold[n].claim /\ ~ClaimReturns(sold[n], paid)]]
      BY <1>4 DEF Return
    <3>2. [sold[n] EXCEPT !.held = FALSE, !.claim = sold[n].claim /\ ~ClaimReturns(sold[n], paid)] \in Sales
      BY <2>1 DEF Sales
    <3> QED BY <2>1, <3>1, <3>2
  <2>6. client' \in [Clients -> Requests] /\ \A d \in Clients : Asked(d)'
    BY <1>4, <1>b DEF Return
  <2> QED BY <1>4, <2>3, <2>4, <2>5, <2>6 DEF Return, TypeOK, Requests, Positions, Sales
<1>5. ASSUME (\E s \in Sites : EditFees(s)) \/ EditPromo \/ \E p \in Packages : EditPackage(p)
      PROVE  TypeOK' /\ \A d \in Clients : Asked(d)'
  <2>1. client' \in [Clients -> Requests] /\ \A d \in Clients : Asked(d)'
    BY <1>5, <1>b DEF EditFees, EditPromo, EditPackage
  <2>2. policy' \in [Sites -> Nat] /\ edition' \in [Packages -> Nat]
    <3>1. policy \in [Sites -> Nat] /\ edition \in [Packages -> Nat]
      BY DEF TypeOK
    <3>2. \/ UNCHANGED <<policy, edition>>
          \/ \E s \in Sites : policy' = [policy EXCEPT ![s] = policy[s] + 1] /\ edition' = edition
          \/ \E p \in Packages : edition' = [edition EXCEPT ![p] = edition[p] + 1] /\ policy' = policy
      BY <1>5 DEF EditFees, EditPromo, EditPackage, stock
    <3> QED BY <3>1, <3>2
  <2>3. promo' \in [terms : Nat, used : Int]
    <3>1. promo \in [terms : Nat, used : Int]
      BY DEF TypeOK
    <3>2. promo' = promo \/ promo' = [promo EXCEPT !.terms = promo.terms + 1]
      BY <1>5 DEF EditFees, EditPromo, EditPackage, stock
    <3> QED BY <3>1, <3>2
  <2>4. UNCHANGED <<quote, booked, reserved, sold, record>>
    BY <1>5 DEF EditFees, EditPromo, EditPackage, stock
  <2> QED BY <2>1, <2>2, <2>3, <2>4 DEF TypeOK, Requests, Positions
<1>6. CASE UNCHANGED vars
  BY <1>6, <1>a DEF vars, TypeOK
<1> QED BY <1>1, <1>2, <1>3, <1>4, <1>5, <1>6 DEF Next

-----------------------------------------------------------------------------
(* A transaction that stays fresh was fresh, and none of the documents it  *)
(* writes was written.                                                     *)
LEMMA StaysFresh ==
  ASSUME client \in [Clients -> Requests], NEW docs, NEW d \in Clients,
         client'[d] = Disturbed(docs)[d], At(d, {"commit"})', client'[d].fresh
  PROVE  /\ At(d, {"commit"}) /\ client[d].fresh
         /\ client'[d].key = client[d].key /\ client'[d].item = client[d].item
         /\ client'[d].terms = client[d].terms
         /\ WriteSet(client[d].key, client[d].item) \cap docs = {}
BY DisturbedFacts DEF At

(* An edit that leaves a purchase's write set alone leaves its terms alone.*)
LEMMA EditKeepsTerms ==
  ASSUME TypeOK, NEW k, NEW j \in Items, NEW docs, WriteSet(k, j) \cap docs = {},
         \/ \E s \in Sites : EditFees(s) /\ docs = {s}
         \/ EditPromo /\ docs = {Promo}
         \/ \E p \in Packages : EditPackage(p) /\ docs = {p}
  PROVE  Present(j)' = Present(j)
<1>1. ASSUME NEW s \in Sites, EditFees(s), docs = {s} PROVE Present(j)' = Present(j)
  <2>1. Site[j] # s
    BY <1>1 DEF WriteSet
  <2>2. policy \in [Sites -> Nat] /\ Site[j] \in Sites
    BY CheckoutAssumption DEF TypeOK
  <2>3. policy' = [policy EXCEPT ![s] = policy[s] + 1] /\ UNCHANGED <<promo, edition>>
    BY <1>1 DEF EditFees, stock
  <2>4. policy'[Site[j]] = policy[Site[j]]
    BY <2>1, <2>2, <2>3
  <2> QED BY <2>3, <2>4 DEF Present
<1>2. ASSUME EditPromo, docs = {Promo} PROVE Present(j)' = Present(j)
  BY <1>2 DEF WriteSet, EditPromo, Present
<1>3. ASSUME NEW p \in Packages, EditPackage(p), docs = {p} PROVE Present(j)' = Present(j)
  <2>1. j # p
    BY <1>3, CheckoutAssumption DEF WriteSet
  <2>2. edition \in [Packages -> Nat]
    BY DEF TypeOK
  <2>3. edition' = [edition EXCEPT ![p] = edition[p] + 1] /\ UNCHANGED <<policy, promo>>
    BY <1>3 DEF EditPackage, stock
  <2>4. j \in Packages => edition'[j] = edition[j]
    BY <2>1, <2>2, <2>3
  <2> QED BY <2>3, <2>4 DEF Present
<1> QED BY <1>1, <1>2, <1>3

(* What a fresh transaction has checked.                                   *)
Checked(k, j, terms) ==
  /\ terms = Present(j)
  /\ record[k].st = "processing"
  /\ j \in Bundles => quote[j].st = "active"

(* The step leaves true what was checked by those who write none of docs.  *)
Lasts(docs) ==
  \A k \in AllKeys, j \in Items, terms \in Terms :
    Checked(k, j, terms) /\ WriteSet(k, j) \cap docs = {} => Checked(k, j, terms)'

(* A transaction stays right while the step, whatever it is, only makes    *)
(* stale or leaves alone, and what was checked lasts outside docs.         *)
LEMMA FreshLasts ==
  ASSUME Inv, NEW docs, NEW d \in Clients,
         client'[d] = Disturbed(docs)[d] \/ (client'[d] = client[d] /\ docs = {}),
         Lasts(docs)
  PROVE  Fresh(d)'
<1> SUFFICES ASSUME client'[d].at = "commit", client'[d].fresh PROVE Fresh(d)'
  BY DEF Fresh, At
<1>0. client \in [Clients -> Requests]
  BY DEF Inv, TypeOK, Requests, Positions
<1>1. /\ client[d].at = "commit" /\ client[d].fresh
      /\ client'[d].key = client[d].key /\ client'[d].item = client[d].item
      /\ client'[d].terms = client[d].terms
      /\ WriteSet(client[d].key, client[d].item) \cap docs = {}
  BY <1>0, StaysFresh DEF At
<1>2. PICK k \in AllKeys, j \in Items, terms \in Terms :
        k = client[d].key /\ j = client[d].item /\ terms = client[d].terms
  BY <1>0, <1>1 DEF Inv, Asked, At, Requests
<1>3. Checked(k, j, terms)
  BY <1>1, <1>2 DEF Inv, Fresh, At, Checked
<1>4. Checked(k, j, terms)'
  BY <1>1, <1>2, <1>3 DEF Lasts
<1> QED BY <1>1, <1>2, <1>4 DEF Fresh, Checked

(* Every step keeps what fresh transactions have checked: a request's,     *)
LEMMA RequestKeepsFresh ==
  ASSUME Inv, NEW c \in Clients, Request(c), NEW d \in Clients
  PROVE  Fresh(d)'
<1> USE DEF At
<1>0. client \in [Clients -> Requests] /\ record \in [AllKeys -> Records]
  BY DEF Inv, TypeOK, Requests, Records, Positions
<1>a. ASSUME client'[d].at # "commit" PROVE Fresh(d)'
  BY <1>a DEF Fresh
<1>b. ASSUME UNCHANGED <<stock, policy, edition, record>>, client'[d] = client[d]
      PROVE  Fresh(d)'
  <2>1. Lasts({})
    BY <1>b DEF Lasts, Checked, Present, stock
  <2> QED BY <1>b, <2>1, FreshLasts
<1>1. ASSUME NEW i \in Items, NEW k \in AllKeys, Ask(c, k, i) PROVE Fresh(d)'
  BY <1>0, <1>1, <1>a, <1>b DEF Ask
<1>2. ASSUME FirstClaim(c) PROVE Fresh(d)'
  <2>1. CASE d = c
    BY <1>0, <1>2, <1>a, <2>1 DEF FirstClaim, Moves
  <2>2. CASE d # c
    <3>1. client'[d] = client[d]
      BY <1>0, <1>2, <2>2 DEF FirstClaim, Moves
    <3>2. Lasts({})
      BY <1>0, <1>2 DEF FirstClaim, Lasts, Checked, Present, stock
    <3> QED BY <3>1, <3>2, FreshLasts
  <2> QED BY <2>1, <2>2
<1>3. ASSUME Reclaim(c) PROVE Fresh(d)'
  <2> DEFINE D == Disturbed({client[c].key})
  <2>0. D \in [Clients -> Requests]
    BY <1>0, DisturbedFacts
  <2> HIDE DEF D
  <2>1. client' = [D EXCEPT ![c].at = "begin"]
    BY <1>3 DEF Reclaim, D
  <2>2. CASE d = c
    BY <1>a, <2>0, <2>1, <2>2
  <2>3. CASE d # c
    <3>1. client'[d] = D[d]
      BY <2>0, <2>1, <2>3
    <3>2. ASSUME NEW k \in AllKeys, NEW j \in Items, NEW terms \in Terms,
                 Checked(k, j, terms), WriteSet(k, j) \cap {client[c].key} = {}
          PROVE  Checked(k, j, terms)'
      <4>1. k # client[c].key
        BY <3>2 DEF WriteSet
      <4>2. record'[k] = record[k] /\ UNCHANGED <<stock, policy, edition>>
        BY <1>0, <1>3, <4>1 DEF Reclaim
      <4> QED BY <3>2, <4>2 DEF Checked, Present, stock
    <3>3. Lasts({client[c].key})
      BY <3>2 DEF Lasts
    <3>4. client'[d] = Disturbed({client[c].key})[d]
      BY <3>1 DEF D
    <3> QED BY <3>3, <3>4, FreshLasts
  <2> QED BY <2>2, <2>3
<1>4. ASSUME KnownKey(c) \/ Dies(c) PROVE Fresh(d)'
  BY <1>0, <1>4, <1>a, <1>b DEF KnownKey, Dies, Ends, Idle
<1>5. ASSUME Price(c) PROVE Fresh(d)'
  BY <1>0, <1>5, <1>a, <1>b DEF Price, Requests
<1>6. ASSUME Begin(c) PROVE Fresh(d)'
  <2>1. CASE d # c
    BY <1>0, <1>6, <1>b, <2>1 DEF Begin
  <2>2. CASE d = c
    <3>1. /\ client'[c].key = client[c].key /\ client'[c].item = client[c].item
          /\ client'[c].terms = client[c].terms
      BY <1>0, <1>6 DEF Begin, Requests
    <3>2. Asked(c) /\ Recorded(c) /\ client[c].at = "begin"
      BY <1>6 DEF Inv, Begin
    <3>3. record[client[c].key].st = "processing"
      BY <1>6, <3>2 DEF Begin, Sellable, Recorded, Claimed, Asked, AllKeys
    <3>4. client[c].terms = Present(client[c].item)
          /\ (client[c].item \in Bundles => quote[client[c].item].st = "active")
      BY <1>6 DEF Begin, Sellable
    <3>5. UNCHANGED <<stock, policy, edition, record>>
      BY <1>6 DEF Begin
    <3> QED BY <2>2, <3>1, <3>3, <3>4, <3>5 DEF Fresh, Present, stock
  <2> QED BY <2>1, <2>2
<1>7. ASSUME Refuse(c) \/ Conflict(c) \/ Throws(c) PROVE Fresh(d)'
  <2>1. UNCHANGED <<stock, policy, edition, record>>
    BY <1>7 DEF Refuse, Conflict, Throws
  <2>2. Ends(c) \/ Moves(c, "begin") \/ Moves(c, "failed") \/ Moves(c, "blip")
    BY <1>7 DEF Refuse, Conflict, Throws
  <2>3. CASE d = c
    <3>1. client'[c].at # "commit"
      BY <1>0, <2>2 DEF Ends, Moves, Idle, Requests
    <3> QED BY <1>a, <2>3, <3>1
  <2>4. CASE d # c
    BY <1>0, <1>b, <2>1, <2>2, <2>4 DEF Ends, Moves
  <2> QED BY <2>3, <2>4
<1>8. ASSUME Commit(c) PROVE Fresh(d)'
  <2> DEFINE W == WriteSet(client[c].key, client[c].item)
             D == Disturbed(W)
  <2>0. D \in [Clients -> Requests]
    BY <1>0, DisturbedFacts
  <2>1. EndsAfter(c, W) \/ client' = [Disturbed(W) EXCEPT ![c].at = "failed"]
    BY <1>8 DEF Commit
  <2>2. client' = [D EXCEPT ![c] = Idle] \/ client' = [D EXCEPT ![c].at = "failed"]
    BY <2>1 DEF EndsAfter
  <2> HIDE DEF D
  <2>3. CASE d = c
    <3>1. client'[c].at # "commit"
      BY <2>0, <2>2 DEF Idle, Requests
    <3> QED BY <1>a, <2>3, <3>1
  <2>4. CASE d # c
    <3>1. client'[d] = D[d]
      BY <2>0, <2>2, <2>4
    <3>2. ASSUME NEW k \in AllKeys, NEW j \in Items, NEW terms \in Terms,
                 Checked(k, j, terms), WriteSet(k, j) \cap W = {}
          PROVE  Checked(k, j, terms)'
      <4>1. k # client[c].key
        BY <3>2 DEF WriteSet
      <4>2. j \in Bundles => j # client[c].item
        BY <3>2, CheckoutAssumption DEF WriteSet
      <4>3. record'[k] = record[k]
        BY <1>0, <1>8, <4>1 DEF Commit
      <4>4. j \in Bundles => quote'[j] = quote[j]
        BY <1>8, <4>2 DEF Commit
      <4>5. promo'.terms = promo.terms /\ policy' = policy /\ edition' = edition
        BY <1>8 DEF Commit, Inv, TypeOK
      <4>6. Present(j)' = Present(j)
        BY <4>5 DEF Present
      <4> QED BY <3>2, <4>3, <4>4, <4>6 DEF Checked
    <3>3. Lasts(W)
      BY <3>2 DEF Lasts
    <3>4. client'[d] = Disturbed(W)[d]
      BY <3>1 DEF D
    <3> QED BY <3>3, <3>4, FreshLasts
  <2> QED BY <2>3, <2>4
<1>9. ASSUME Fail(c) PROVE Fresh(d)'
  <2>1. PICK docs : /\ EndsAfter(c, docs)
                    /\ record' = record \/ client[c].key \in docs
    BY <1>9 DEF Fail
  <2> DEFINE D == Disturbed(docs)
  <2>2. D \in [Clients -> Requests]
    BY <1>0, DisturbedFacts
  <2>3. client' = [D EXCEPT ![c] = Idle]
    BY <2>1 DEF EndsAfter
  <2> HIDE DEF D
  <2>4. CASE d = c
    BY <1>a, <2>2, <2>3, <2>4 DEF Idle
  <2>5. CASE d # c
    <3>1. client'[d] = D[d]
      BY <2>2, <2>3, <2>5
    <3>2. ASSUME NEW k \in AllKeys, NEW j \in Items, NEW terms \in Terms,
                 Checked(k, j, terms), WriteSet(k, j) \cap docs = {}
          PROVE  Checked(k, j, terms)'
      <4>1. record' = record \/ k # client[c].key
        BY <2>1, <3>2 DEF WriteSet
      <4>2. record'[k] = record[k] /\ UNCHANGED <<stock, policy, edition>>
        BY <1>0, <1>9, <4>1 DEF Fail
      <4> QED BY <3>2, <4>2 DEF Checked, Present, stock
    <3>3. Lasts(docs)
      BY <3>2 DEF Lasts
    <3>4. client'[d] = Disturbed(docs)[d]
      BY <3>1 DEF D
    <3> QED BY <3>3, <3>4, FreshLasts
  <2> QED BY <2>4, <2>5
<1> QED BY <1>1, <1>2, <1>3, <1>4, <1>5, <1>6, <1>7, <1>8, <1>9 DEF Request

(* and every other step.                                                   *)
LEMMA StepKeepsFresh ==
  ASSUME Inv, [Next]_vars, NEW d \in Clients
  PROVE  Fresh(d)'
<1>0. /\ client \in [Clients -> Requests] /\ record \in [AllKeys -> Records]
      /\ quote \in [Bundles -> Quotes] /\ promo \in [terms : Nat, used : Int]
  BY DEF Inv, TypeOK, Requests, Records, Positions, Quotes
<1>1. ASSUME NEW c \in Clients, Request(c) PROVE Fresh(d)'
  BY <1>1, RequestKeepsFresh
<1>2. ASSUME NEW l \in AllKeys, KeyExpires(l) PROVE Fresh(d)'
  <2>1. UNCHANGED client /\ client[d].key # l
    BY <1>2 DEF KeyExpires
  <2> SUFFICES ASSUME At(d, {"commit"}), client[d].fresh PROVE Fresh(d)'
    BY <2>1 DEF Fresh, At
  <2>2. record'[client[d].key] = record[client[d].key]
    BY <1>0, <1>2, <2>1 DEF KeyExpires, Inv, Asked, At
  <2> QED BY <1>2, <2>1, <2>2 DEF KeyExpires, Inv, Fresh, At, Present, stock
<1>3. ASSUME NEW l \in AllKeys, WaitOver(l) PROVE Fresh(d)'
  <2>1. \A k \in AllKeys : record'[k].st = record[k].st
    BY <1>0, <1>3 DEF WaitOver, Records
  <2>2. Lasts({})
    BY <1>3, <2>1 DEF WaitOver, Lasts, Checked, Present, stock
  <2> QED BY <1>3, <2>2, FreshLasts DEF WaitOver
<1>4. ASSUME NEW q \in Bundles, QuoteBundle(q) \/ QuoteLapses(q) PROVE Fresh(d)'
  <2>1. \A j \in Bundles : quote[j].st = "active" => quote'[j].st = "active"
    BY <1>0, <1>4 DEF QuoteBundle, QuoteLapses, Quotes
  <2>2. UNCHANGED <<promo, policy, edition, record, client>>
    BY <1>4 DEF QuoteBundle, QuoteLapses
  <2>3. Lasts({})
    BY <2>1, <2>2 DEF Lasts, Checked, Present
  <2> QED BY <2>2, <2>3, FreshLasts
<1>5. ASSUME NEW n \in DOMAIN sold, NEW paid \in BOOLEAN, Return(n, paid) PROVE Fresh(d)'
  <2>1. PICK docs : client' = Disturbed(docs)
    BY <1>5 DEF Return
  <2>2. promo'.terms = promo.terms /\ UNCHANGED <<quote, policy, edition, record>>
    BY <1>0, <1>5 DEF Return, GiveBack
  <2>3. Lasts(docs)
    BY <2>2 DEF Lasts, Checked, Present
  <2> QED BY <2>1, <2>3, FreshLasts
<1>6. ASSUME (\E s \in Sites : EditFees(s)) \/ EditPromo \/ \E p \in Packages : EditPackage(p)
      PROVE  Fresh(d)'
  <2>1. PICK docs : /\ client' = Disturbed(docs)
                    /\ \/ \E s \in Sites : EditFees(s) /\ docs = {s}
                       \/ EditPromo /\ docs = {Promo}
                       \/ \E p \in Packages : EditPackage(p) /\ docs = {p}
    BY <1>6 DEF EditFees, EditPromo, EditPackage
  <2>2. UNCHANGED <<quote, record>>
    BY <1>6 DEF EditFees, EditPromo, EditPackage, stock
  <2>3. \A k \in AllKeys, j \in Items : WriteSet(k, j) \cap docs = {} => Present(j)' = Present(j)
    BY <2>1, EditKeepsTerms DEF Inv
  <2>4. Lasts(docs)
    BY <2>2, <2>3 DEF Lasts, Checked
  <2> QED BY <2>1, <2>4, FreshLasts
<1>7. CASE UNCHANGED vars
  BY <1>7 DEF vars, Inv, Fresh, At, Present
<1> QED BY <1>1, <1>2, <1>3, <1>4, <1>5, <1>6, <1>7 DEF Next

-----------------------------------------------------------------------------
(* What a commit makes of the requests: its own ends, the others are       *)
(* disturbed.                                                              *)
LEMMA OthersDisturbed ==
  ASSUME client \in [Clients -> Requests], NEW c \in Clients, NEW d \in Clients, c # d,
         Reclaim(c) \/ Commit(c) \/ Fail(c)
  PROVE  \E docs : client'[d] = Disturbed(docs)[d]
<1>1. PICK docs : \/ client' = [Disturbed(docs) EXCEPT ![c].at = "begin"]
                  \/ client' = [Disturbed(docs) EXCEPT ![c].at = "failed"]
                  \/ client' = [Disturbed(docs) EXCEPT ![c] = Idle]
  BY DEF Reclaim, Commit, Fail, EndsAfter
<1> DEFINE D == Disturbed(docs)
<1>2. D \in [Clients -> Requests]
  BY DisturbedFacts
<1> HIDE DEF D
<1>3. \/ client' = [D EXCEPT ![c].at = "begin"]
      \/ client' = [D EXCEPT ![c].at = "failed"]
      \/ client' = [D EXCEPT ![c] = Idle]
  BY <1>1 DEF D
<1>4. client'[d] = D[d]
  BY <1>2, <1>3
<1> QED BY <1>4 DEF D

LEMMA CommitEnds ==
  ASSUME client \in [Clients -> Requests], NEW c \in Clients, Commit(c)
  PROVE  client'[c].at # "commit"
<1> DEFINE D == Disturbed(WriteSet(client[c].key, client[c].item))
<1>1. D \in [Clients -> Requests]
  BY DisturbedFacts
<1>2. client' = [D EXCEPT ![c] = Idle] \/ client' = [D EXCEPT ![c].at = "failed"]
  BY DEF Commit, EndsAfter
<1> HIDE DEF D
<1> QED BY <1>1, <1>2 DEF Idle, Requests

LEMMA CommitDisturbs ==
  ASSUME client \in [Clients -> Requests], NEW c \in Clients, Commit(c), NEW d \in Clients, c # d
  PROVE  client'[d] = Disturbed(WriteSet(client[c].key, client[c].item))[d]
<1> DEFINE D == Disturbed(WriteSet(client[c].key, client[c].item))
<1>1. D \in [Clients -> Requests]
  BY DisturbedFacts
<1>2. client' = [D EXCEPT ![c] = Idle] \/ client' = [D EXCEPT ![c].at = "failed"]
  BY DEF Commit, EndsAfter
<1> HIDE DEF D
<1>3. client'[d] = D[d]
  BY <1>1, <1>2
<1> QED BY <1>3 DEF D

(* A step by which a request comes to work on a record is its claim.       *)
Same(d) ==
  /\ client'[d].key = client[d].key /\ client'[d].item = client[d].item
  /\ At(d, {"failed", "blip"}) => client'[d].at = client[d].at

LEMMA ClaimedBefore ==
  ASSUME Inv, [Next]_vars, NEW d \in Clients, Claimed(d)', ~FirstClaim(d), ~Reclaim(d)
  PROVE  Claimed(d) /\ Same(d)
<1>0. client \in [Clients -> Requests]
  BY DEF Inv, TypeOK, Requests, Positions
<1>a. ASSUME NEW docs, client'[d] = Disturbed(docs)[d] \/ client'[d] = client[d]
      PROVE  Claimed(d) /\ Same(d)
  BY <1>0, <1>a, DisturbedFacts DEF Claimed, At, Same
<1>b. client'[d] # Idle
  BY DEF Claimed, At, Idle
<1>1. ASSUME NEW c \in Clients, Request(c), c # d PROVE Claimed(d) /\ Same(d)
  <2>1. \/ client'[d] = client[d]
        \/ \E docs : client'[d] = Disturbed(docs)[d]
    <3>1. ASSUME Reclaim(c) \/ Commit(c) \/ Fail(c) PROVE \E docs : client'[d] = Disturbed(docs)[d]
      BY <1>0, <1>1, <3>1, OthersDisturbed
    <3>2. ASSUME ~(Reclaim(c) \/ Commit(c) \/ Fail(c)) PROVE client'[d] = client[d]
      BY <1>0, <1>1, <3>2 DEF Request, Ask, FirstClaim, KnownKey, Price, Begin, Refuse, Conflict, Throws, Dies, Moves, Ends
    <3> QED BY <3>1, <3>2
  <2> QED BY <1>a, <2>1
<1>2. ASSUME Request(d) PROVE Claimed(d) /\ Same(d)
  <2>1. ASSUME NEW i \in Items, NEW k \in AllKeys, Ask(d, k, i) PROVE FALSE
    BY <1>0, <2>1, CheckoutAssumption DEF Ask, Claimed, At
  <2>2. ASSUME KnownKey(d) \/ Dies(d) \/ Fail(d) PROVE FALSE
    <3>1. PICK docs : client' = [client EXCEPT ![d] = Idle] \/ client' = [Disturbed(docs) EXCEPT ![d] = Idle]
      BY <2>2 DEF KnownKey, Dies, Fail, Ends, EndsAfter
    <3>2. client'[d] = Idle
      BY <1>0, <3>1, DisturbedFacts
    <3> QED BY <1>b, <3>2
  <2>3. ASSUME Price(d) PROVE Claimed(d) /\ Same(d)
    BY <1>0, <2>3 DEF Price, Claimed, At, Same, Requests
  <2>4. ASSUME Begin(d) PROVE Claimed(d) /\ Same(d)
    BY <1>0, <2>4 DEF Begin, Claimed, At, Same, Requests
  <2>5. ASSUME Refuse(d) \/ Conflict(d) \/ Throws(d) PROVE Claimed(d) /\ Same(d)
    <3>1. \/ Ends(d)
          \/ Claimed(d) /\ (Moves(d, "begin") \/ Moves(d, "failed") \/ Moves(d, "blip"))
      BY <2>5 DEF Refuse, Conflict, Throws, Claimed, At
    <3>2. ~Ends(d)
      BY <1>0, <1>b DEF Ends
    <3>3. ~At(d, {"failed", "blip"})
      BY <2>5 DEF Refuse, Conflict, Throws, At
    <3> QED BY <1>0, <3>1, <3>2, <3>3 DEF Moves, Same, Requests
  <2>6. ASSUME Commit(d) PROVE Claimed(d) /\ Same(d)
    <3>1. client[d].at = "commit"
      BY <2>6 DEF Commit
    <3>2. PICK docs : client' = [Disturbed(docs) EXCEPT ![d] = Idle]
                      \/ client' = [Disturbed(docs) EXCEPT ![d].at = "failed"]
      BY <2>6 DEF Commit, EndsAfter
    <3> DEFINE D == Disturbed(docs)
    <3>3. D \in [Clients -> Requests] /\ D[d].key = client[d].key /\ D[d].item = client[d].item
      BY <1>0, DisturbedFacts
    <3> HIDE DEF D
    <3>4. client' = [D EXCEPT ![d] = Idle] \/ client' = [D EXCEPT ![d].at = "failed"]
      BY <3>2 DEF D
    <3>5. client' # [D EXCEPT ![d] = Idle]
      BY <1>b, <3>3
    <3>6. client'[d].key = D[d].key /\ client'[d].item = D[d].item
      BY <3>3, <3>4, <3>5 DEF Requests
    <3> QED BY <3>1, <3>3, <3>6 DEF Claimed, At, Same
  <2> QED BY <1>2, <2>1, <2>2, <2>3, <2>4, <2>5, <2>6 DEF Request
<1>3. ASSUME UNCHANGED client \/ \E docs : client' = Disturbed(docs) PROVE Claimed(d) /\ Same(d)
  BY <1>3, <1>a
<1> QED BY <1>1, <1>2, <1>3 DEF Next, vars, KeyExpires, WaitOver, QuoteBundle, QuoteLapses, Return, EditFees, EditPromo, EditPackage

(* What a step may do to the record of a key.                              *)
Rewritten(k) ==
  \/ record'[k].st = record[k].st /\ record'[k].item = record[k].item
  \/ record[k].st = "absent"
  \/ /\ record[k].st # "completed" /\ record'[k].st \notin {"absent", "completed"}
     /\ record'[k].item = record[k].item /\ k \in BundleKeys
  \/ \E c \in Clients : /\ Commit(c) /\ client[c].key = k
                        /\ record'[k].st = "completed" /\ record'[k].item = record[k].item
  \/ \E c \in Clients : Fail(c) /\ client[c].key = k /\ k \in Keys
                        /\ record[k].st = "processing"
  \/ KeyExpires(k)

LEMMA RecordSteps ==
  ASSUME Inv, [Next]_vars, NEW k \in AllKeys
  PROVE  /\ Rewritten(k)
         /\ record'[k].st = "completed" =>
              \/ record[k].st = "completed"
              \/ \E c \in Clients : Commit(c) /\ client[c].key = k
<1>0. record \in [AllKeys -> Records]
  BY DEF Inv, TypeOK, Records
<1>a. ASSUME UNCHANGED record
      PROVE  Rewritten(k) /\ (record'[k].st = "completed" => record[k].st = "completed")
  BY <1>a DEF Rewritten
<1>1. ASSUME NEW c \in Clients, FirstClaim(c)
      PROVE  Rewritten(k) /\ (record'[k].st = "completed" => record[k].st = "completed")
  BY <1>0, <1>1 DEF FirstClaim, Processing, Rewritten
<1>2. ASSUME NEW c \in Clients, Reclaim(c)
      PROVE  Rewritten(k) /\ (record'[k].st = "completed" => record[k].st = "completed")
  BY <1>0, <1>2 DEF Reclaim, Processing, Rewritten
<1>3. ASSUME NEW c \in Clients, Commit(c)
      PROVE  /\ Rewritten(k)
             /\ record'[k].st = "completed" => record[k].st = "completed" \/ client[c].key = k
  <2>1. CASE k = client[c].key
    <3>1. record'[k].st = "completed" /\ record'[k].item = record[k].item
      BY <1>0, <1>3, <2>1 DEF Commit, Records
    <3> QED BY <1>3, <2>1, <3>1 DEF Rewritten
  <2>2. CASE k # client[c].key
    <3>1. record'[k] = record[k]
      BY <1>0, <1>3, <2>2 DEF Commit
    <3> QED BY <3>1 DEF Rewritten
  <2> QED BY <2>1, <2>2
<1>4. ASSUME NEW c \in Clients, Fail(c)
      PROVE  Rewritten(k) /\ (record'[k].st = "completed" => record[k].st = "completed")
  <2>1. record' = [record EXCEPT ![client[c].key] = AfterFailure(client[c].key, client[c].at = "blip")]
    BY <1>4 DEF Fail
  <2>2. CASE k # client[c].key \/ record[k].st # "processing"
    <3>1. record'[k] = record[k]
      BY <1>0, <2>1, <2>2 DEF AfterFailure
    <3> QED BY <3>1 DEF Rewritten
  <2>3. CASE k = client[c].key /\ record[k].st = "processing" /\ k \in Keys
    <3>1. record'[k] = NoRecord
      BY <1>0, <2>1, <2>3 DEF AfterFailure
    <3> QED BY <1>4, <2>3, <3>1 DEF Rewritten, NoRecord
  <2>4. CASE k = client[c].key /\ record[k].st = "processing" /\ k \notin Keys
    <3> DEFINE blip == client[c].at = "blip"
    <3>1. record'[k] = [record[k] EXCEPT !.st = IF blip THEN "again" ELSE "final", !.wait = blip]
      BY <1>0, <2>1, <2>4 DEF AfterFailure
    <3>2. record'[k].st \in {"again", "final"} /\ record'[k].item = record[k].item
      BY <1>0, <3>1 DEF Records
    <3> QED BY <2>4, <3>2 DEF Rewritten, AllKeys
  <2> QED BY <2>2, <2>3, <2>4
<1>5. ASSUME NEW l \in AllKeys, KeyExpires(l)
      PROVE  Rewritten(k) /\ (record'[k].st = "completed" => record[k].st = "completed")
  BY <1>0, <1>5 DEF KeyExpires, NoRecord, Rewritten
<1>6. ASSUME NEW l \in AllKeys, WaitOver(l)
      PROVE  Rewritten(k) /\ (record'[k].st = "completed" => record[k].st = "completed")
  <2>1. CASE k # l
    BY <1>0, <1>6, <2>1 DEF WaitOver, Rewritten
  <2>2. CASE k = l
    <3>1. record'[k].st = record[k].st /\ record'[k].item = record[k].item
      BY <1>0, <1>6, <2>2 DEF WaitOver, Records
    <3> QED BY <3>1 DEF Rewritten
  <2> QED BY <2>1, <2>2
<1> QED BY <1>a, <1>1, <1>2, <1>3, <1>4, <1>5, <1>6 DEF Next, Request, Ask, KnownKey, Price, Begin, Refuse, Conflict, Throws, Dies, QuoteBundle, QuoteLapses, Return, EditFees, EditPromo, EditPackage, vars

(* A request that claims a record finds it its own; one that goes on       *)
(* still does.                                                             *)
LEMMA StepKeepsRecorded ==
  ASSUME Inv, [Next]_vars, NEW d \in Clients
  PROVE  Recorded(d)'
<1> SUFFICES ASSUME Claimed(d)' PROVE Recorded(d)'
  BY DEF Recorded
<1> DEFINE k == client[d].key
<1>0. client \in [Clients -> Requests] /\ record \in [AllKeys -> Records]
  BY DEF Inv, TypeOK, Requests, Records, Positions
<1>1. ASSUME FirstClaim(d) \/ Reclaim(d) PROVE Recorded(d)'
  <2>1. PICK docs : \/ \E at \in {"price", "begin"} : client' = [client EXCEPT ![d].at = at]
                    \/ client' = [Disturbed(docs) EXCEPT ![d].at = "begin"]
    BY <1>1 DEF FirstClaim, Reclaim, Moves
  <2> DEFINE D == Disturbed(docs)
  <2>2. D \in [Clients -> Requests] /\ D[d].key = k /\ D[d].item = client[d].item
    BY <1>0, DisturbedFacts
  <2> HIDE DEF D
  <2>3. \/ \E at \in {"price", "begin"} : client' = [client EXCEPT ![d].at = at]
        \/ client' = [D EXCEPT ![d].at = "begin"]
    BY <2>1 DEF D
  <2>4. client'[d].key = k /\ client'[d].item = client[d].item
    BY <1>0, <2>2, <2>3 DEF Requests
  <2>5. k \in AllKeys /\ record' = [record EXCEPT ![k] = Processing(client[d].item)]
    BY <1>1 DEF FirstClaim, Reclaim, Inv, Asked, At
  <2>6. record'[k].st = "processing" /\ record'[k].item = client[d].item
    BY <1>0, <2>5 DEF Processing
  <2> QED BY <2>4, <2>6 DEF Recorded
<1>2. ASSUME ~FirstClaim(d), ~Reclaim(d) PROVE Recorded(d)'
  <2>1. Claimed(d) /\ Same(d)
    BY <1>2, ClaimedBefore
  <2>2. k \in AllKeys /\ record[k].item = client[d].item /\ record[k].st # "absent"
        /\ (k \in Keys => record[k].st = "processing"
                          \/ (At(d, {"failed", "blip"}) /\ record[k].st = "completed"))
    BY <2>1 DEF Inv, Recorded, Asked, Claimed, At
  <2>3. Rewritten(k)
    BY <2>2, RecordSteps
  <2>4. CASE record'[k].st = record[k].st /\ record'[k].item = record[k].item
    BY <2>1, <2>2, <2>4 DEF Recorded, Same, At
  <2>5. CASE /\ record[k].st # "completed" /\ record'[k].st \notin {"absent", "completed"}
             /\ record'[k].item = record[k].item /\ k \in BundleKeys
    BY <2>1, <2>2, <2>5, CheckoutAssumption DEF Recorded, Same
  <2>6. ASSUME NEW c \in Clients, Commit(c), client[c].key = k,
               record'[k].st = "completed", record'[k].item = record[k].item
        PROVE  Recorded(d)'
    <3>1. CASE c = d \/ k \notin Keys
      <4>1. k \in Keys => At(d, {"failed", "blip"})'
        <5> SUFFICES ASSUME c = d PROVE client'[d].at \in {"idle", "failed"}
          BY <3>1 DEF Claimed, At
        <5>1. PICK docs : client' = [Disturbed(docs) EXCEPT ![d] = Idle]
                          \/ client' = [Disturbed(docs) EXCEPT ![d].at = "failed"]
          BY <2>6 DEF Commit, EndsAfter
        <5> DEFINE D == Disturbed(docs)
        <5>2. D \in [Clients -> Requests]
          BY <1>0, DisturbedFacts
        <5> HIDE DEF D
        <5>3. client' = [D EXCEPT ![d] = Idle] \/ client' = [D EXCEPT ![d].at = "failed"]
          BY <5>1 DEF D
        <5> QED BY <5>2, <5>3 DEF Idle, Requests
      <4> QED BY <2>1, <2>2, <2>6, <4>1 DEF Recorded, Same
    <3>2. CASE c # d /\ k \in Keys
      BY <2>1, <2>6, <3>2 DEF Inv, Alone, Claimed, At, Commit
    <3> QED BY <3>1, <3>2
  <2>7. ASSUME NEW c \in Clients, Fail(c), client[c].key = k, k \in Keys
        PROVE  FALSE
    <3>1. c = d
      BY <2>1, <2>7 DEF Inv, Alone, Claimed, At, Fail
    <3>2. PICK docs : client' = [Disturbed(docs) EXCEPT ![d] = Idle]
      BY <2>7, <3>1 DEF Fail, EndsAfter
    <3>3. client'[d] = Idle
      BY <1>0, <3>2, DisturbedFacts
    <3> QED BY <3>3 DEF Claimed, At, Idle
  <2>8. ~KeyExpires(k)
    BY DEF KeyExpires
  <2> QED BY <2>2, <2>3, <2>4, <2>5, <2>6, <2>7, <2>8 DEF Rewritten
<1> QED BY <1>1, <1>2

(* Two requests never work on one ordinary key: a claim is on no record.   *)
LEMMA StepKeepsAlone == Inv /\ [Next]_vars => Alone'
<1> SUFFICES ASSUME Inv, [Next]_vars, NEW c \in Clients, NEW d \in Clients,
                    Claimed(c)', Claimed(d)', (client[c].key = client[d].key)',
                    (client[c].key \in Keys)', c # d
             PROVE  FALSE
  BY DEF Alone
<1>0. client \in [Clients -> Requests]
  BY DEF Inv, TypeOK, Requests, Positions
<1>1. ASSUME NEW a \in Clients, NEW b \in Clients, a # b, FirstClaim(a),
             Claimed(b)', (client[a].key = client[b].key)'
      PROVE  FALSE
  <2>1. client'[b] = client[b] /\ client'[a].key = client[a].key
    BY <1>0, <1>1 DEF FirstClaim, Moves, Requests
  <2>2. Claimed(b) /\ client[a].key = client[b].key
    BY <1>1, <2>1 DEF Claimed, At
  <2> QED BY <1>1, <2>2 DEF Inv, Recorded, FirstClaim
<1>2. ASSUME NEW a \in Clients, Reclaim(a), (client[a].key \in Keys)'
      PROVE  FALSE
  <2> DEFINE D == Disturbed({client[a].key})
  <2>1. D \in [Clients -> Requests] /\ D[a].key = client[a].key
    BY <1>0, DisturbedFacts
  <2> HIDE DEF D
  <2>2. client' = [D EXCEPT ![a].at = "begin"] /\ client[a].key \in BundleKeys
    BY <1>2 DEF Reclaim, D
  <2>3. client'[a].key = client[a].key
    BY <2>1, <2>2 DEF Requests
  <2> QED BY <1>2, <2>2, <2>3, CheckoutAssumption
<1>3. ~FirstClaim(c) /\ ~FirstClaim(d) /\ ~Reclaim(c) /\ ~Reclaim(d)
  BY <1>1, <1>2
<1>4. Claimed(c) /\ Same(c) /\ Claimed(d) /\ Same(d)
  BY <1>3, ClaimedBefore
<1> QED BY <1>4 DEF Same, Inv, Alone

-----------------------------------------------------------------------------
(* Sales are written by commits only, and stay what they are.              *)
SaleOf(c) ==
  [key |-> client[c].key, item |-> client[c].item, terms |-> client[c].terms,
   held |-> TRUE, claim |-> client[c].item \in Discounted]

LEMMA SoldSteps ==
  ASSUME TypeOK, [Next]_vars
  PROVE  \/ \E c \in Clients : Commit(c) /\ sold' = Append(sold, SaleOf(c))
         \/ /\ ~\E c \in Clients : Commit(c) /\ sold' = Append(sold, SaleOf(c))
            /\ DOMAIN sold' = DOMAIN sold
            /\ \A n \in DOMAIN sold :
                 sold'[n].key = sold[n].key /\ sold'[n].item = sold[n].item
<1> SUFFICES ASSUME ~\E c \in Clients : Commit(c) /\ sold' = Append(sold, SaleOf(c))
             PROVE  /\ DOMAIN sold' = DOMAIN sold
                    /\ \A n \in DOMAIN sold :
                         sold'[n].key = sold[n].key /\ sold'[n].item = sold[n].item
  OBVIOUS
<1>1. ~\E c \in Clients : Commit(c)
  BY DEF Commit, SaleOf
<1>2. ASSUME NEW n \in DOMAIN sold, NEW paid \in BOOLEAN, Return(n, paid)
      PROVE  /\ DOMAIN sold' = DOMAIN sold
             /\ \A m \in DOMAIN sold :
                  sold'[m].key = sold[m].key /\ sold'[m].item = sold[m].item
  <2> DEFINE Sales == [key : AllKeys, item : Items, terms : Terms, held : BOOLEAN, claim : BOOLEAN]
             sale == [sold[n] EXCEPT !.held = FALSE, !.claim = sold[n].claim /\ ~ClaimReturns(sold[n], paid)]
  <2>0. sold \in Seq(Sales)
    BY DEF TypeOK
  <2>1. sold[n] \in Sales
    <3> HIDE DEF Sales
    <3> QED BY <2>0
  <2>2. sale.key = sold[n].key /\ sale.item = sold[n].item
    BY <2>1
  <2>3. sold' = [sold EXCEPT ![n] = sale]
    BY <1>2 DEF Return
  <2> HIDE DEF sale, Sales
  <2> QED BY <2>0, <2>2, <2>3
<1>3. CASE UNCHANGED sold
  BY <1>3
<1> QED BY <1>1, <1>2, <1>3 DEF Next, Request, Ask, FirstClaim, Reclaim, KnownKey, Price, Begin, Refuse, Conflict, Throws, Fail, Dies, KeyExpires, WaitOver, QuoteBundle, QuoteLapses, EditFees, EditPromo, EditPackage, vars, stock

(* Only a commit spends a quote, and no step revives a spent one.          *)
LEMMA QuoteSteps ==
  ASSUME TypeOK, [Next]_vars, NEW q \in Bundles, quote[q].st = "consumed"
  PROVE  quote'[q].st = "consumed"
<1>0. quote \in [Bundles -> Quotes]
  BY DEF TypeOK, Quotes
<1>1. ASSUME NEW c \in Clients, Commit(c) PROVE quote'[q].st = "consumed"
  <2>1. quote'[q] = [quote[q] EXCEPT !.st = "consumed"] \/ quote'[q] = quote[q]
    BY <1>1 DEF Commit
  <2>2. quote[q] \in Quotes
    BY <1>0
  <2> QED BY <2>1, <2>2 DEF Quotes
<1>2. ASSUME NEW p \in Bundles, QuoteBundle(p) \/ QuoteLapses(p) PROVE quote'[q].st = "consumed"
  BY <1>0, <1>2 DEF QuoteBundle, QuoteLapses
<1>3. CASE UNCHANGED quote
  BY <1>3
<1> QED BY <1>1, <1>2, <1>3 DEF Next, Request, Ask, FirstClaim, Reclaim, KnownKey, Price, Begin, Refuse, Conflict, Throws, Fail, Dies, KeyExpires, WaitOver, Return, EditFees, EditPromo, EditPackage, vars, stock

(* A key and a quote buy once, and are found completed and spent.          *)
LEMMA StepKeepsFound == Inv /\ [Next]_vars => FoundByKey' /\ QuotesSold'
<1> SUFFICES ASSUME Inv, [Next]_vars PROVE FoundByKey' /\ QuotesSold'
  OBVIOUS
<1> DEFINE Sales == [key : AllKeys, item : Items, terms : Terms, held : BOOLEAN, claim : BOOLEAN]
<1>0. record \in [AllKeys -> Records] /\ quote \in [Bundles -> Quotes] /\ sold \in Seq(Sales)
  BY DEF Inv, TypeOK, Records, Quotes
<1>1. \A n \in DOMAIN sold : sold[n].key \in AllKeys /\ sold[n].item \in Items
  <2>1. \A n \in DOMAIN sold : sold[n] \in Sales
    <3> HIDE DEF Sales
    <3> QED BY <1>0
  <2> QED BY <2>1
<1> HIDE DEF Sales
<1>a. ASSUME NEW c \in Clients, Commit(c)
      PROVE  /\ client[c].key \in AllKeys /\ client[c].item \in Items
             /\ record[client[c].key].st = "processing"
             /\ record[client[c].key].item = client[c].item
             /\ client[c].item \in Bundles => quote[client[c].item].st = "active"
  <2>1. client[c].at = "commit" /\ client[c].fresh
    BY <1>a DEF Commit
  <2> QED BY <2>1 DEF Inv, Asked, Fresh, Recorded, Claimed, At
<1>2. \A n \in DOMAIN sold : /\ record'[sold[n].key].st = "completed"
                             /\ record'[sold[n].key].item = sold[n].item
  <2> TAKE n \in DOMAIN sold
  <2> DEFINE k == sold[n].key
  <2>1. k \in AllKeys /\ record[k].st = "completed" /\ record[k].item = sold[n].item
    BY <1>1 DEF Inv, FoundByKey
  <2>2. Rewritten(k)
    BY <2>1, RecordSteps
  <2>3. ~\E c \in Clients : Commit(c) /\ client[c].key = k
    BY <1>a, <2>1
  <2> QED BY <2>1, <2>2, <2>3 DEF Rewritten, KeyExpires
<1>3. ASSUME ~\E c \in Clients : Commit(c) /\ sold' = Append(sold, SaleOf(c)),
             DOMAIN sold' = DOMAIN sold,
             \A n \in DOMAIN sold : sold'[n].key = sold[n].key /\ sold'[n].item = sold[n].item
      PROVE  FoundByKey' /\ QuotesSold'
  <2>1. \A k \in AllKeys : record'[k].st = "completed" => record[k].st = "completed"
    BY <1>3, RecordSteps DEF Commit, SaleOf
  <2>2. FoundByKey'
    BY <1>2, <1>3, <2>1 DEF Inv, FoundByKey
  <2>3. QuotesSold'
    BY <1>3, QuoteSteps DEF Inv, QuotesSold
  <2> QED BY <2>2, <2>3
<1>4. ASSUME NEW c \in Clients, Commit(c), sold' = Append(sold, SaleOf(c))
      PROVE  FoundByKey' /\ QuotesSold'
  <2> DEFINE k == client[c].key  i == client[c].item  m == Len(sold) + 1
  <2>1. /\ DOMAIN sold' = DOMAIN sold \union {m} /\ m \notin DOMAIN sold
        /\ sold'[m] = SaleOf(c)
        /\ \A n \in DOMAIN sold : sold'[n] = sold[n]
    BY <1>0, <1>4
  <2>2. sold'[m].key = k /\ sold'[m].item = i
    BY <2>1 DEF SaleOf
  <2>3. \A n \in DOMAIN sold : sold[n].key # k
    BY <1>4, <1>a DEF Inv, FoundByKey
  <2>4. i \in Bundles => \A n \in DOMAIN sold : sold[n].item # i
    BY <1>4, <1>a DEF Inv, QuotesSold
  <2>5. record'[k].st = "completed" /\ record'[k].item = i
    <3>1. record' = [record EXCEPT ![k].st = "completed", ![k].wait = FALSE]
      BY <1>4 DEF Commit
    <3> QED BY <1>0, <1>4, <1>a, <3>1 DEF Records
  <2>6. i \in Bundles => quote'[i].st = "consumed"
    <3>1. i \in Bundles => quote'[i] = [quote[i] EXCEPT !.st = "consumed"]
      BY <1>4 DEF Commit
    <3>2. i \in Bundles => quote[i] \in Quotes
      BY <1>0
    <3> QED BY <3>1, <3>2 DEF Quotes
  <2>7. \A l \in AllKeys : record'[l].st = "completed" => record[l].st = "completed" \/ l = k
    <3>1. \A l \in AllKeys : l # k => record'[l] = record[l]
      BY <1>0, <1>4 DEF Commit
    <3> QED BY <3>1
  <2>8. FoundByKey'
    <3> HIDE DEF m, k, i
    <3>1. \A a, b \in DOMAIN sold' :
            \/ sold'[a].key = sold'[b].key
            \/ sold'[a].item = sold'[b].item /\ sold'[a].item \in Bundles
            => a = b
      BY <2>1, <2>2, <2>3, <2>4 DEF Inv, FoundByKey
    <3>2. \A n \in DOMAIN sold' : /\ record'[sold'[n].key].st = "completed"
                                  /\ record'[sold'[n].key].item = sold'[n].item
      BY <1>2, <2>1, <2>2, <2>5
    <3>3. \A l \in AllKeys : record'[l].st = "completed" => \E n \in DOMAIN sold' : sold'[n].key = l
      BY <2>1, <2>2, <2>7 DEF Inv, FoundByKey
    <3> QED BY <3>1, <3>2, <3>3 DEF FoundByKey
  <2>9. QuotesSold'
    <3> HIDE DEF m, k, i
    <3>1. \A n \in DOMAIN sold : sold[n].item \in Bundles => quote'[sold[n].item].st = "consumed"
      BY QuoteSteps DEF Inv, QuotesSold
    <3> QED BY <2>1, <2>2, <2>6, <3>1 DEF QuotesSold
  <2> QED BY <2>8, <2>9
<1> QED BY <1>3, <1>4, SoldSteps DEF Inv

-----------------------------------------------------------------------------
(* The invariant is inductive.                                             *)
THEOREM Inductive == (Init => Inv) /\ (Inv /\ [Next]_vars => Inv')
<1>1. ASSUME Init PROVE Inv
  <2>1. TypeOK
    <3>1. Idle \in Requests
      BY DEF Idle, Requests, Positions, Terms
    <3> QED BY <1>1, <3>1 DEF Init, TypeOK, NoRecord, RecordStates, Requests, Positions
  <2>2. \A c \in Clients : client[c].at = "idle"
    BY <1>1 DEF Init, Idle
  <2>3. sold = <<>> /\ \A k \in AllKeys : record[k].st = "absent"
    BY <1>1 DEF Init, NoRecord
  <2>4. FoundByKey /\ QuotesSold
    BY <2>3 DEF FoundByKey, QuotesSold
  <2> QED BY <2>1, <2>2, <2>4 DEF Inv, Asked, Fresh, Recorded, Claimed, Alone, At
<1>2. ASSUME Inv, [Next]_vars PROVE Inv'
  <2>1. TypeOK' /\ \A c \in Clients : Asked(c)'
    BY <1>2, StepTyped DEF Inv
  <2>2. \A c \in Clients : Fresh(c)' /\ Recorded(c)'
    BY <1>2, StepKeepsFresh, StepKeepsRecorded
  <2> QED BY <1>2, <2>1, <2>2, StepKeepsAlone, StepKeepsFound DEF Inv
<1> QED BY <1>1, <1>2

(* Every variable keeps its type.                                          *)
THEOREM CheckoutTyped == Spec => []TypeOK
<1>1. Inv => TypeOK
  BY DEF Inv
<1> QED BY <1>1, Inductive, PTL DEF Spec

(* No request, retry, lapse or late failure makes a key or a quote buy     *)
(* twice, or loses the record of what was bought.                          *)
THEOREM KeysFindSales == Spec => []FoundByKey
<1>1. Inv => FoundByKey
  BY DEF Inv
<1> QED BY <1>1, Inductive, PTL DEF Spec

(* Whatever was edited while a purchase was priced and written, it is sold *)
(* at the terms in force when it is written.                               *)
THEOREM SalesArePresent == Spec => SoldAtPresentTerms
<1>1. ASSUME Inv, [Next]_vars
      PROVE  [\A n \in DOMAIN sold' :
                n \notin DOMAIN sold => sold'[n].terms = Present(sold'[n].item)]_vars
  <2>1. CASE DOMAIN sold' = DOMAIN sold
    BY <2>1
  <2>2. ASSUME NEW c \in Clients, Commit(c), sold' = Append(sold, SaleOf(c)),
               NEW n \in DOMAIN sold', n \notin DOMAIN sold
        PROVE  sold'[n].terms = Present(sold'[n].item)
    <3>1. sold'[n] = SaleOf(c)
      BY <1>1, <2>2 DEF Inv, TypeOK
    <3>2. client[c].terms = Present(client[c].item)
      BY <1>1, <2>2 DEF Inv, Fresh, At, Commit
    <3> QED BY <3>1, <3>2 DEF SaleOf
  <2> QED BY <1>1, <2>1, <2>2, SoldSteps DEF Inv
<1> QED BY <1>1, Inductive, PTL DEF Spec, SoldAtPresentTerms

-----------------------------------------------------------------------------
(* The books.  What a fresh transaction has found on the shelf.            *)
Supply(j) == SeatsLeft(j) /\ AllotmentLeft(j) /\ PromoLeft(j)
Stocked(c) == At(c, {"commit"}) /\ client[c].fresh => Supply(client[c].item)

(* The sales that hold a use of the code, and the finite sets that are     *)
(* counted.                                                                *)
Claims == {n \in DOMAIN sold : sold[n].claim}
Countable == \A d \in Departures, kinds \in {Items, Bundles} : IsFiniteSet(SeatUnits(d, kinds))

StockInv ==
  /\ \A c \in Clients : Stocked(c)
  /\ Countable
  /\ BooksBalance

(* A request that is fresh was fresh before, or has just begun.            *)
LEMMA FreshBefore ==
  ASSUME Inv, [Next]_vars, NEW d \in Clients, ~Begin(d),
         client'[d].at = "commit", client'[d].fresh
  PROVE  /\ client[d].at = "commit" /\ client[d].fresh
         /\ client'[d].item = client[d].item
<1> DEFINE Was == /\ client[d].at = "commit" /\ client[d].fresh
                  /\ client'[d].item = client[d].item
<1>0. client \in [Clients -> Requests]
  BY DEF Inv, TypeOK, Requests, Positions
<1>a. ASSUME NEW docs, client'[d] = Disturbed(docs)[d] \/ client'[d] = client[d]
      PROVE  Was
  BY <1>0, <1>a, DisturbedFacts
<1>1. ASSUME NEW c \in Clients, Request(c), c # d PROVE Was
  <2>1. ASSUME Reclaim(c) \/ Commit(c) \/ Fail(c) PROVE \E docs : client'[d] = Disturbed(docs)[d]
    BY <1>0, <1>1, <2>1, OthersDisturbed
  <2>2. ASSUME ~(Reclaim(c) \/ Commit(c) \/ Fail(c)) PROVE client'[d] = client[d]
    BY <1>0, <1>1, <2>2 DEF Request, Ask, FirstClaim, KnownKey, Price, Begin, Refuse, Conflict, Throws, Dies, Moves, Ends
  <2> QED BY <1>a, <2>1, <2>2
<1>2. ASSUME Request(d) PROVE FALSE
  <2>1. ASSUME (\E i \in Items, k \in AllKeys : Ask(d, k, i)) \/ Price(d)
        PROVE  client'[d].at # "commit"
    <3>1. ASSUME NEW i \in Items, NEW k \in AllKeys, Ask(d, k, i) PROVE client'[d].at # "commit"
      BY <1>0, <3>1 DEF Ask
    <3>2. ASSUME Price(d) PROVE client'[d].at # "commit"
      BY <1>0, <3>2 DEF Price, Requests
    <3> QED BY <2>1, <3>1, <3>2
  <2>2. ASSUME FirstClaim(d) \/ KnownKey(d) \/ Dies(d) \/ Refuse(d) \/ Conflict(d) \/ Throws(d)
        PROVE  client'[d].at # "commit"
    <3>1. Ends(d) \/ \E at \in Positions \ {"commit"} : Moves(d, at)
      BY <2>2 DEF FirstClaim, KnownKey, Dies, Refuse, Conflict, Throws, Positions
    <3> QED BY <1>0, <3>1 DEF Ends, Moves, Idle, Requests
  <2>3. ASSUME Reclaim(d) \/ Commit(d) \/ Fail(d) PROVE client'[d].at # "commit"
    <3>1. PICK docs : \/ client' = [Disturbed(docs) EXCEPT ![d].at = "begin"]
                      \/ client' = [Disturbed(docs) EXCEPT ![d].at = "failed"]
                      \/ client' = [Disturbed(docs) EXCEPT ![d] = Idle]
      BY <2>3 DEF Reclaim, Commit, Fail, EndsAfter
    <3> DEFINE D == Disturbed(docs)
    <3>2. D \in [Clients -> Requests]
      BY <1>0, DisturbedFacts
    <3> HIDE DEF D
    <3>3. \/ client' = [D EXCEPT ![d].at = "begin"]
          \/ client' = [D EXCEPT ![d].at = "failed"]
          \/ client' = [D EXCEPT ![d] = Idle]
      BY <3>1 DEF D
    <3> QED BY <3>2, <3>3 DEF Idle, Requests
  <2> QED BY <1>2, <2>1, <2>2, <2>3 DEF Request
<1>3. ASSUME UNCHANGED client \/ \E docs : client' = Disturbed(docs) PROVE Was
  BY <1>3, <1>a
<1> QED BY <1>1, <1>2, <1>3 DEF Next, vars, KeyExpires, WaitOver, QuoteBundle, QuoteLapses, Return, EditFees, EditPromo, EditPackage

(* Only a sale and a return touch the shelf, and both write what they      *)
(* touch: a transaction that is still fresh finds as much as it did.       *)
LEMMA ShelfSteps ==
  ASSUME Inv, [Next]_vars
  PROVE  \/ \E c \in Clients : Commit(c)
         \/ \E n \in DOMAIN sold, paid \in BOOLEAN : Return(n, paid)
         \/ UNCHANGED <<booked, reserved, sold>> /\ promo'.used = promo.used
<1>1. promo \in [terms : Nat, used : Int]
  BY DEF Inv, TypeOK
<1> QED BY <1>1 DEF Next, Request, Ask, FirstClaim, Reclaim, KnownKey, Price, Begin, Refuse, Conflict, Throws, Fail, Dies, KeyExpires, WaitOver, QuoteBundle, QuoteLapses, EditFees, EditPromo, EditPackage, vars, stock

LEMMA StepKeepsStocked ==
  ASSUME Inv, [Next]_vars, NEW d \in Clients, Stocked(d)
  PROVE  Stocked(d)'
<1> SUFFICES ASSUME client'[d].at = "commit", client'[d].fresh
             PROVE  Supply(client[d].item)'
  BY DEF Stocked, At
<1> DEFINE j == client[d].item
<1>0. client \in [Clients -> Requests]
  BY DEF Inv, TypeOK, Requests, Positions
<1>b. promo \in [terms : Nat, used : Int]
  BY DEF Inv, TypeOK
<1>1. CASE Begin(d)
  <2>1. client'[d].item = j /\ Supply(j)
    BY <1>0, <1>1 DEF Begin, Sellable, Supply, Requests
  <2>2. UNCHANGED <<booked, reserved, promo>>
    BY <1>1 DEF Begin, stock
  <2> QED BY <2>1, <2>2 DEF Supply, SeatsLeft, AllotmentLeft, PromoLeft
<1>2. CASE ~Begin(d)
  <2>1. client[d].at = "commit" /\ client[d].fresh /\ client'[d].item = j
    BY <1>2, FreshBefore
  <2>2. Supply(j) /\ j \in Items
    BY <2>1 DEF Stocked, At, Inv, Asked
  <2>a. Uses[j] \subseteq Departures
    BY <2>2, CheckoutAssumption
  <2>3. ASSUME NEW c \in Clients, Commit(c) PROVE Supply(j)'
    <3> DEFINE W == WriteSet(client[c].key, client[c].item)
    <3>1. c # d
      BY <1>0, <2>3, CommitEnds
    <3>2. client'[d] = Disturbed(W)[d]
      BY <1>0, <2>3, <3>1, CommitDisturbs
    <3>3. WriteSet(client[d].key, j) \cap W = {}
      BY <1>0, <3>2, StaysFresh DEF At
    <3>4. \A s \in Uses[j] : s \notin Uses[client[c].item]
      BY <3>3 DEF WriteSet
    <3>5. j \in Discounted => client[c].item \notin Discounted
      BY <3>3 DEF WriteSet
    <3>6. \A s \in Uses[j] : booked'[s] = booked[s] /\ reserved'[s] = reserved[s]
      BY <2>3, <2>a, <3>4 DEF Commit
    <3>7. j \in Discounted => promo'.used = promo.used
      BY <1>b, <2>3, <3>5 DEF Commit
    <3> QED BY <2>1, <2>2, <3>6, <3>7 DEF Supply, SeatsLeft, AllotmentLeft, PromoLeft
  <2>4. ASSUME NEW n \in DOMAIN sold, NEW paid \in BOOLEAN, Return(n, paid) PROVE Supply(j)'
    <3> DEFINE docs == Uses[sold[n].item] \union
                       (IF ClaimReturns(sold[n], paid) THEN {Promo} ELSE {})
    <3>1. client'[d] = Disturbed(docs)[d]
      BY <2>4 DEF Return
    <3>2. WriteSet(client[d].key, j) \cap docs = {}
      BY <1>0, <3>1, StaysFresh DEF At
    <3>3. \A s \in Uses[j] : s \notin Uses[sold[n].item]
      BY <3>2 DEF WriteSet
    <3>4. j \in Discounted => ~ClaimReturns(sold[n], paid)
      BY <3>2 DEF WriteSet
    <3>5. \A s \in Uses[j] : booked'[s] = booked[s] /\ reserved'[s] = reserved[s]
      BY <2>4, <2>a, <3>3 DEF Return, GiveBack
    <3>6. j \in Discounted => promo'.used = promo.used
      BY <1>b, <2>4, <3>4 DEF Return, GiveBack
    <3> QED BY <2>1, <2>2, <3>5, <3>6 DEF Supply, SeatsLeft, AllotmentLeft, PromoLeft
  <2>5. CASE UNCHANGED <<booked, reserved, sold>> /\ promo'.used = promo.used
    BY <2>1, <2>2, <2>5 DEF Supply, SeatsLeft, AllotmentLeft, PromoLeft
  <2> QED BY <2>1, <2>3, <2>4, <2>5, ShelfSteps
<1> QED BY <1>1, <1>2

-----------------------------------------------------------------------------
(* Counting the seats of the sales.                                        *)
UnitsOf(f, H) == UNION {{n} \X (1..Party[f[n].item]) : n \in H}

LEMMA OneSale ==
  ASSUME NEW n, NEW p \in Nat
  PROVE  IsFiniteSet({n} \X (1..p)) /\ Cardinality({n} \X (1..p)) = p
<1>1. IsFiniteSet({n}) /\ Cardinality({n}) = 1
  BY FS_Singleton
<1>2. IsFiniteSet(1..p) /\ Cardinality(1..p) = p
  BY FS_Interval
<1>3. /\ IsFiniteSet({n} \X (1..p))
      /\ Cardinality({n} \X (1..p)) = Cardinality({n}) * Cardinality(1..p)
  BY <1>1, <1>2, FS_Product
<1> QED BY <1>1, <1>2, <1>3

(* Units of another sale add its travellers.                               *)
LEMMA SaleMore ==
  ASSUME NEW S, IsFiniteSet(S), NEW n, NEW p \in Nat, S \cap ({n} \X (1..p)) = {}
  PROVE  /\ IsFiniteSet(S \cup ({n} \X (1..p)))
         /\ Cardinality(S \cup ({n} \X (1..p))) = Cardinality(S) + p
         /\ Cardinality(S) \in Nat
<1> DEFINE T == {n} \X (1..p)
<1>1. IsFiniteSet(T) /\ Cardinality(T) = p
  BY OneSale
<1> HIDE DEF T
<1>2. Cardinality({}) = 0 /\ S \cap T = {} /\ Cardinality(S) \in Nat
  BY FS_EmptySet, FS_CardinalityType DEF T
<1>3. /\ IsFiniteSet(S \cup T)
      /\ Cardinality(S \cup T) = Cardinality(S) + Cardinality(T) - Cardinality(S \cap T)
  BY <1>1, FS_Union
<1>4. Cardinality(S \cap T) = 0
  BY <1>2
<1>5. Cardinality(S \cup T) = Cardinality(S) + p
  BY <1>1, <1>2, <1>3, <1>4
<1> QED BY <1>2, <1>3, <1>5 DEF T

(* The units of some sales, of the same sales in two states, and of one    *)
(* sale more.                                                              *)
LEMMA UnitsSame ==
  ASSUME NEW f, NEW g, NEW H, \A n \in H : f[n].item = g[n].item
  PROVE  UnitsOf(f, H) = UnitsOf(g, H)
BY DEF UnitsOf

LEMMA UnitsMore ==
  ASSUME NEW f, NEW H, NEW m, m \notin H, Party[f[m].item] \in Nat, IsFiniteSet(UnitsOf(f, H))
  PROVE  /\ IsFiniteSet(UnitsOf(f, H \cup {m}))
         /\ Cardinality(UnitsOf(f, H \cup {m})) = Cardinality(UnitsOf(f, H)) + Party[f[m].item]
         /\ Cardinality(UnitsOf(f, H)) \in Nat
<1> DEFINE p == Party[f[m].item]
<1>1. UnitsOf(f, H \cup {m}) = UnitsOf(f, H) \cup ({m} \X (1..p))
  BY DEF UnitsOf
<1>2. UnitsOf(f, H) \cap ({m} \X (1..p)) = {}
  BY DEF UnitsOf
<1> HIDE DEF p
<1>3. p \in Nat
  BY DEF p
<1>4. /\ IsFiniteSet(UnitsOf(f, H) \cup ({m} \X (1..p)))
      /\ Cardinality(UnitsOf(f, H) \cup ({m} \X (1..p))) = Cardinality(UnitsOf(f, H)) + p
      /\ Cardinality(UnitsOf(f, H)) \in Nat
  BY <1>2, <1>3, SaleMore
<1> QED BY <1>1, <1>4 DEF p

LEMMA UnitsLess ==
  ASSUME NEW f, NEW H, NEW m \in H, Party[f[m].item] \in Nat, IsFiniteSet(UnitsOf(f, H))
  PROVE  /\ IsFiniteSet(UnitsOf(f, H \ {m}))
         /\ Cardinality(UnitsOf(f, H)) = Cardinality(UnitsOf(f, H \ {m})) + Party[f[m].item]
         /\ Cardinality(UnitsOf(f, H \ {m})) \in Nat
<1>1. UnitsOf(f, H \ {m}) \in SUBSET UnitsOf(f, H)
  BY DEF UnitsOf
<1>2. IsFiniteSet(UnitsOf(f, H \ {m}))
  BY <1>1, FS_Subset
<1>3. (H \ {m}) \cup {m} = H /\ m \notin H \ {m}
  OBVIOUS
<1>4. /\ Cardinality(UnitsOf(f, (H \ {m}) \cup {m})) =
           Cardinality(UnitsOf(f, H \ {m})) + Party[f[m].item]
      /\ Cardinality(UnitsOf(f, H \ {m})) \in Nat
  BY <1>2, <1>3, UnitsMore
<1> QED BY <1>2, <1>3, <1>4

(* A sale is written: its travellers are seated, its code is used.         *)
LEMMA CommitBalances ==
  ASSUME Inv, StockInv, NEW c \in Clients, Commit(c)
  PROVE  Countable' /\ BooksBalance'
<1> DEFINE i == client[c].item  m == Len(sold) + 1
           Sales == [key : AllKeys, item : Items, terms : Terms, held : BOOLEAN, claim : BOOLEAN]
<1>0. sold \in Seq(Sales)
  BY DEF Inv, TypeOK
<1>1. i \in Items /\ Party[i] \in Nat /\ Supply(i)
  BY CheckoutAssumption DEF Commit, Inv, Asked, StockInv, Stocked, At
<1>2. sold' = Append(sold, SaleOf(c))
  BY DEF Commit, SaleOf
<1> HIDE DEF Sales
<1>3. /\ DOMAIN sold' = DOMAIN sold \cup {m} /\ m \notin DOMAIN sold
      /\ sold'[m] = SaleOf(c)
      /\ \A n \in DOMAIN sold : sold'[n] = sold[n]
      /\ IsFiniteSet(DOMAIN sold)
  <2>1. DOMAIN sold = 1..Len(sold) /\ Len(sold) \in Nat
    BY <1>0
  <2>2. IsFiniteSet(DOMAIN sold)
    BY <2>1, FS_Interval
  <2> QED BY <1>0, <1>2, <2>2
<1>4. sold'[m].item = i /\ sold'[m].held /\ (sold'[m].claim <=> i \in Discounted)
  <2>1. /\ SaleOf(c).item = i /\ SaleOf(c).held = TRUE
        /\ SaleOf(c).claim = (i \in Discounted)
    BY DEF SaleOf
  <2>2. /\ sold'[m].item = i /\ sold'[m].held = TRUE
        /\ sold'[m].claim = (i \in Discounted)
    BY <1>3, <2>1
  <2> QED BY <2>2, Zenon
<1> HIDE DEF i, m
<1>5. ASSUME NEW d \in Departures, NEW kinds \in {Items, Bundles}
      PROVE  /\ IsFiniteSet(SeatUnits(d, kinds)')
             /\ SeatsHeld(d, kinds) \in Nat
             /\ i \in kinds /\ d \in Uses[i] => SeatsHeld(d, kinds)' = SeatsHeld(d, kinds) + Party[i]
             /\ ~(i \in kinds /\ d \in Uses[i]) => SeatsHeld(d, kinds)' = SeatsHeld(d, kinds)
  <2> DEFINE H == Holding(d, kinds)
  <2>1. H \subseteq DOMAIN sold
    BY DEF Holding
  <2>2. \A n \in H : sold'[n].item = sold[n].item
    BY <1>3, <2>1
  <2>3. /\ SeatUnits(d, kinds) = UnitsOf(sold, H)
        /\ SeatUnits(d, kinds)' = UnitsOf(sold', Holding(d, kinds)')
    BY DEF SeatUnits, UnitsOf
  <2>4. UnitsOf(sold', H) = UnitsOf(sold, H) /\ IsFiniteSet(UnitsOf(sold, H))
    <3>1. IsFiniteSet(SeatUnits(d, kinds))
      BY DEF StockInv, Countable
    <3>2. UnitsOf(sold', H) = UnitsOf(sold, H)
      BY <2>2, UnitsSame
    <3> QED BY <2>3, <3>1, <3>2
  <2>5. CASE i \in kinds /\ d \in Uses[i]
    <3>1. Holding(d, kinds)' = H \cup {m} /\ m \notin H
      BY <1>3, <1>4, <2>5 DEF Holding
    <3> HIDE DEF H
    <3>2. Party[sold'[m].item] \in Nat /\ IsFiniteSet(UnitsOf(sold', H))
      BY <1>1, <1>4, <2>4
    <3>3. /\ IsFiniteSet(UnitsOf(sold', H \cup {m}))
          /\ Cardinality(UnitsOf(sold', H \cup {m})) =
               Cardinality(UnitsOf(sold', H)) + Party[sold'[m].item]
          /\ Cardinality(UnitsOf(sold', H)) \in Nat
      BY ONLY <3>1, <3>2, UnitsMore
    <3> QED BY <1>4, <2>3, <2>4, <2>5, <3>1, <3>3 DEF SeatsHeld
  <2>6. CASE ~(i \in kinds /\ d \in Uses[i])
    <3>1. Holding(d, kinds)' = H
      BY <1>3, <1>4, <2>6 DEF Holding
    <3> HIDE DEF H
    <3> QED BY <2>3, <2>4, <2>6, <3>1, FS_CardinalityType DEF SeatsHeld
  <2> QED BY <2>5, <2>6
<1>6. Countable'
  BY <1>5 DEF Countable
<1>7. ASSUME NEW d \in Departures
      PROVE  /\ booked'[d] = SeatsHeld(d, Items)' /\ booked'[d] <= Seats[d]
             /\ reserved'[d] = SeatsHeld(d, Bundles)' /\ reserved'[d] <= Allotment[d]
  <2>1. /\ booked[d] = SeatsHeld(d, Items) /\ booked[d] <= Seats[d]
        /\ reserved[d] = SeatsHeld(d, Bundles) /\ reserved[d] <= Allotment[d]
    BY DEF StockInv, BooksBalance
  <2>2. /\ booked'[d] = IF d \in Uses[i] THEN booked[d] + Party[i] ELSE booked[d]
        /\ reserved'[d] = IF i \in Bundles /\ d \in Uses[i] THEN reserved[d] + Party[i] ELSE reserved[d]
    BY DEF Commit, i
  <2>3. /\ d \in Uses[i] => booked[d] + Party[i] <= Seats[d]
        /\ i \in Bundles /\ d \in Uses[i] => reserved[d] + Party[i] <= Allotment[d]
    BY <1>1 DEF Supply, SeatsLeft, AllotmentLeft
  <2>4. booked'[d] = SeatsHeld(d, Items)' /\ reserved'[d] = SeatsHeld(d, Bundles)'
    BY <1>1, <1>5, <2>1, <2>2
  <2> QED BY <2>1, <2>2, <2>3, <2>4
<1>8. promo'.used = Cardinality(Claims)' /\ promo'.used <= UsageLimit
  <2>1. promo.used = Cardinality(Claims) /\ promo.used <= UsageLimit
    BY DEF StockInv, BooksBalance, Claims
  <2>2. IsFiniteSet(Claims) /\ m \notin Claims
    <3>1. Claims \in SUBSET DOMAIN sold
      BY DEF Claims
    <3>2. IsFiniteSet(Claims)
      BY <1>3, <3>1, FS_Subset
    <3> QED BY <1>3, <3>1, <3>2
  <2>3. promo \in [terms : Nat, used : Int]
    BY DEF Inv, TypeOK
  <2>4. promo'.used = IF i \in Discounted THEN promo.used + 1 ELSE promo.used
    BY <2>3 DEF Commit, i
  <2>5. CASE i \in Discounted
    <3>1. Claims' = Claims \cup {m}
      BY <1>3, <1>4, <2>5 DEF Claims
    <3>2. Cardinality(Claims \cup {m}) = Cardinality(Claims) + 1
      BY <2>2, FS_AddElement
    <3>3. promo.used < UsageLimit
      BY <1>1, <2>5 DEF Supply, PromoLeft
    <3> QED BY <2>1, <2>3, <2>4, <2>5, <3>1, <3>2, <3>3, CheckoutAssumption
  <2>6. CASE i \notin Discounted
    <3>1. Claims' = Claims
      BY <1>3, <1>4, <2>6 DEF Claims
    <3> QED BY <2>1, <2>4, <2>6, <3>1
  <2> QED BY <2>5, <2>6
<1> QED BY <1>6, <1>7, <1>8 DEF BooksBalance, Claims

(* A sale's travellers give up their seats, and a package its use of the   *)
(* code if it still has one.                                               *)
LEMMA ReturnBalances ==
  ASSUME Inv, StockInv, NEW m \in DOMAIN sold, NEW paid \in BOOLEAN, Return(m, paid)
  PROVE  Countable' /\ BooksBalance'
<1> DEFINE i == sold[m].item
           back == ClaimReturns(sold[m], paid)
           sale == [sold[m] EXCEPT !.held = FALSE, !.claim = sold[m].claim /\ ~back]
           Sales == [key : AllKeys, item : Items, terms : Terms, held : BOOLEAN, claim : BOOLEAN]
<1>0. sold \in Seq(Sales)
  BY DEF Inv, TypeOK
<1>1. sold[m] \in Sales
  <2> HIDE DEF Sales
  <2> QED BY <1>0
<1>2. i \in Items /\ Party[i] \in Nat
  BY <1>1, CheckoutAssumption
<1>3. /\ sale.item = i /\ sale.held = FALSE /\ sale.claim = (sold[m].claim /\ ~back)
      /\ back => sold[m].claim
  BY <1>1 DEF ClaimReturns
<1>4. sold' = [sold EXCEPT ![m] = sale] /\ sold[m].held
  BY DEF Return
<1> HIDE DEF sale, Sales
<1>5. /\ DOMAIN sold' = DOMAIN sold
      /\ sold'[m] = sale
      /\ \A n \in DOMAIN sold : n # m => sold'[n] = sold[n]
      /\ IsFiniteSet(DOMAIN sold)
  <2>1. DOMAIN sold = 1..Len(sold) /\ Len(sold) \in Nat
    BY <1>0
  <2>2. IsFiniteSet(DOMAIN sold)
    BY <2>1, FS_Interval
  <2> QED BY <1>0, <1>4, <2>2
<1> HIDE DEF i, back
<1>6. ASSUME NEW d \in Departures, NEW kinds \in {Items, Bundles}
      PROVE  /\ IsFiniteSet(SeatUnits(d, kinds)')
             /\ SeatsHeld(d, kinds)' \in Nat
             /\ i \in kinds /\ d \in Uses[i] => SeatsHeld(d, kinds) = SeatsHeld(d, kinds)' + Party[i]
             /\ ~(i \in kinds /\ d \in Uses[i]) => SeatsHeld(d, kinds)' = SeatsHeld(d, kinds)
  <2> DEFINE H == Holding(d, kinds)
  <2>1. H \subseteq DOMAIN sold
    BY DEF Holding
  <2>2. \A n \in H : sold'[n].item = sold[n].item
    BY <1>3, <1>5, <2>1 DEF i
  <2>3. /\ SeatUnits(d, kinds) = UnitsOf(sold, H)
        /\ SeatUnits(d, kinds)' = UnitsOf(sold', Holding(d, kinds)')
    BY DEF SeatUnits, UnitsOf
  <2>4. UnitsOf(sold', H) = UnitsOf(sold, H) /\ IsFiniteSet(UnitsOf(sold, H))
    <3>1. IsFiniteSet(SeatUnits(d, kinds))
      BY DEF StockInv, Countable
    <3>2. UnitsOf(sold', H) = UnitsOf(sold, H)
      BY <2>2, UnitsSame
    <3> QED BY <2>3, <3>1, <3>2
  <2>5. CASE i \in kinds /\ d \in Uses[i]
    <3>1. Holding(d, kinds)' = H \ {m} /\ m \in H
      BY <1>3, <1>4, <1>5, <2>5 DEF Holding, i
    <3> HIDE DEF H
    <3>2. Party[sold'[m].item] = Party[i] /\ Party[i] \in Nat /\ IsFiniteSet(UnitsOf(sold', H))
      BY <1>2, <1>3, <1>5, <2>4
    <3>3. /\ IsFiniteSet(UnitsOf(sold', H \ {m}))
          /\ Cardinality(UnitsOf(sold', H)) =
               Cardinality(UnitsOf(sold', H \ {m})) + Party[sold'[m].item]
          /\ Cardinality(UnitsOf(sold', H \ {m})) \in Nat
      BY ONLY <3>1, <3>2, UnitsLess
    <3> QED BY <2>3, <2>4, <2>5, <3>1, <3>2, <3>3 DEF SeatsHeld
  <2>6. CASE ~(i \in kinds /\ d \in Uses[i])
    <3>1. Holding(d, kinds)' = H
      BY <1>3, <1>5, <2>6 DEF Holding, i
    <3> HIDE DEF H
    <3> QED BY <2>3, <2>4, <2>6, <3>1, FS_CardinalityType DEF SeatsHeld
  <2> QED BY <2>5, <2>6
<1>7. Countable'
  BY <1>6 DEF Countable
<1>8. ASSUME NEW d \in Departures
      PROVE  /\ booked'[d] = SeatsHeld(d, Items)' /\ booked'[d] <= Seats[d]
             /\ reserved'[d] = SeatsHeld(d, Bundles)' /\ reserved'[d] <= Allotment[d]
  <2>1. /\ booked[d] = SeatsHeld(d, Items) /\ booked[d] <= Seats[d]
        /\ reserved[d] = SeatsHeld(d, Bundles) /\ reserved[d] <= Allotment[d]
        /\ Seats[d] \in Nat /\ Allotment[d] \in Nat
    BY CheckoutAssumption DEF StockInv, BooksBalance
  <2>2. /\ booked'[d] = IF d \in Uses[i] THEN booked[d] - Party[i] ELSE booked[d]
        /\ reserved'[d] = IF i \in Bundles /\ d \in Uses[i] THEN reserved[d] - Party[i] ELSE reserved[d]
    BY DEF Return, GiveBack, i
  <2>3. booked'[d] = SeatsHeld(d, Items)' /\ reserved'[d] = SeatsHeld(d, Bundles)'
    BY <1>2, <1>6, <2>1, <2>2
  <2>4. booked[d] \in Int /\ reserved[d] \in Int
    BY DEF Inv, TypeOK
  <2>5. /\ booked'[d] \in Int /\ booked'[d] <= booked[d]
        /\ reserved'[d] \in Int /\ reserved'[d] <= reserved[d]
    BY <1>2, <2>2, <2>4
  <2> QED BY <2>1, <2>3, <2>4, <2>5
<1>9. promo'.used = Cardinality(Claims)' /\ promo'.used <= UsageLimit
  <2>1. promo.used = Cardinality(Claims) /\ promo.used <= UsageLimit
    BY DEF StockInv, BooksBalance, Claims
  <2>2. IsFiniteSet(Claims)
    <3>1. Claims \in SUBSET DOMAIN sold
      BY DEF Claims
    <3> QED BY <1>5, <3>1, FS_Subset
  <2>3. promo \in [terms : Nat, used : Int]
    BY DEF Inv, TypeOK
  <2>4. promo'.used = IF back THEN promo.used - 1 ELSE promo.used
    BY <2>3 DEF Return, GiveBack, back
  <2>5. CASE back
    <3>1. Claims' = Claims \ {m} /\ m \in Claims
      BY <1>3, <1>5, <2>5 DEF Claims
    <3>2. Cardinality(Claims \ {m}) = Cardinality(Claims) - 1
      BY <2>2, <3>1, FS_RemoveElement
    <3> QED BY <2>1, <2>3, <2>4, <2>5, <3>1, <3>2, CheckoutAssumption
  <2>6. CASE ~back
    <3>1. Claims' = Claims
      BY <1>3, <1>5, <2>6 DEF Claims
    <3> QED BY <2>1, <2>4, <2>6, <3>1
  <2> QED BY <2>5, <2>6
<1> QED BY <1>7, <1>8, <1>9 DEF BooksBalance, Claims

(* The books start balanced, and every step leaves them so.                *)
LEMMA StockInductive == (Init => StockInv) /\ (Inv /\ StockInv /\ [Next]_vars => StockInv')
<1>1. ASSUME Init PROVE StockInv
  <2>1. \A c \in Clients : client[c].at = "idle"
    BY <1>1 DEF Init, Idle
  <2>2. \A d \in Departures, kinds \in {Items, Bundles} : SeatUnits(d, kinds) = {}
    BY <1>1 DEF Init, SeatUnits, Holding
  <2>3. Claims = {}
    BY <1>1 DEF Init, Claims
  <2>4. \A d \in Departures : booked[d] = 0 /\ reserved[d] = 0
    BY <1>1 DEF Init
  <2>5. promo.used = 0
    BY <1>1 DEF Init
  <2>6. Countable /\ \A d \in Departures, kinds \in {Items, Bundles} : SeatsHeld(d, kinds) = 0
    BY <2>2, FS_EmptySet DEF Countable, SeatsHeld
  <2>7. BooksBalance
    <3>1. Cardinality(Claims) = 0
      BY <2>3, FS_EmptySet
    <3>2. 0 <= UsageLimit /\ \A d \in Departures : 0 <= Seats[d] /\ 0 <= Allotment[d]
      BY CheckoutAssumption
    <3> QED BY <2>4, <2>5, <2>6, <3>1, <3>2 DEF BooksBalance, Claims
  <2> QED BY <2>1, <2>6, <2>7 DEF StockInv, Stocked, At
<1>2. ASSUME Inv, StockInv, [Next]_vars PROVE StockInv'
  <2>1. \A c \in Clients : Stocked(c)'
    BY <1>2, StepKeepsStocked DEF StockInv
  <2>2. ASSUME NEW c \in Clients, Commit(c) PROVE Countable' /\ BooksBalance'
    BY <1>2, <2>2, CommitBalances
  <2>3. ASSUME NEW n \in DOMAIN sold, NEW paid \in BOOLEAN, Return(n, paid)
        PROVE  Countable' /\ BooksBalance'
    BY <1>2, <2>3, ReturnBalances
  <2>4. ASSUME UNCHANGED <<booked, reserved, sold>>, promo'.used = promo.used
        PROVE  Countable' /\ BooksBalance'
    <3>1. /\ \A d \in Departures, kinds \in {Items, Bundles} : SeatUnits(d, kinds)' = SeatUnits(d, kinds)
          /\ Claims' = Claims
      BY <2>4 DEF SeatUnits, Holding, Claims
    <3>2. Countable'
      BY <1>2, <3>1 DEF StockInv, Countable
    <3>3. \A d \in Departures, kinds \in {Items, Bundles} : SeatsHeld(d, kinds)' = SeatsHeld(d, kinds)
      BY <3>1 DEF SeatsHeld
    <3>4. BooksBalance'
      <4>1. \A d \in Departures :
              /\ SeatsHeld(d, Items)' = SeatsHeld(d, Items)
              /\ SeatsHeld(d, Bundles)' = SeatsHeld(d, Bundles)
        BY <3>3
      <4>2. promo'.used = Cardinality(Claims)' /\ promo'.used <= UsageLimit
        BY <1>2, <2>4, <3>1 DEF StockInv, BooksBalance, Claims
      <4> QED BY <1>2, <2>4, <4>1, <4>2 DEF StockInv, BooksBalance, Claims
    <3> QED BY <3>2, <3>4
  <2>5. Countable' /\ BooksBalance'
    BY <1>2, <2>2, <2>3, <2>4, ShelfSteps
  <2> QED BY <2>1, <2>5 DEF StockInv
<1> QED BY <1>1, <1>2

(* Whatever is sold, refused, retried, lapsed and returned in whatever     *)
(* order: every seat and every use of the code that is taken belongs to a  *)
(* sale that holds it, and no departure, allotment or code is oversold.    *)
THEOREM BooksSafe == Spec => []BooksBalance
<1>1. StockInv => BooksBalance
  BY DEF StockInv
<1>2. Spec => []Inv
  BY Inductive, PTL DEF Spec
<1>3. Inv /\ StockInv /\ [Next]_vars => StockInv'
  BY StockInductive
<1>4. Init => StockInv
  BY StockInductive
<1> QED BY <1>1, <1>2, <1>3, <1>4, PTL DEF Spec
=============================================================================
