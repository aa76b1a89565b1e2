--------------------------- MODULE GatewaySwitch ---------------------------
(***************************************************************************)
(* A site's own Stripe gateway, changed while customers pay through it.    *)
(* Every charge belongs to the account that made it, so the gateway may    *)
(* move only when no session needs the account it leaves.  The admin's     *)
(* request reads the settings, counts the sessions and saves, in separate  *)
(* steps; a checkout claims its session in one transaction that also moves *)
(* a fence in the settings, and the save succeeds only at the revision and *)
(* the fence it has read (tenantPayment.service.ts).  Webhooks, read with  *)
(* an older copy of the settings, vouch for the endpoint secret.           *)
(***************************************************************************)
EXTENDS Naturals

CONSTANTS
  Keys,         \* publishable and secret key pairs
  Account,      \* [Keys -> the Stripe account of the pair]
  Mode,         \* [Keys -> its environment, test or live]
  Secrets,      \* endpoint secrets
  Issuer,       \* [Secrets -> the [account, mode] that signs with it]
  FirstKey,     \* the keys in use at the start
  Bookings,     \* tour bookings paid by card
  Bundles,      \* bundle orders
  Admins,       \* requests to the gateway's settings
  Hooks,        \* deliveries of signed events
  None,
  Wishes,       \* bound: what the requests ask for, among all settings
  MaxSaves      \* bound: saves of the settings in a behaviour

Home(k) == [account |-> Account[k], mode |-> Mode[k]]

ASSUME GatewayAssumption ==
  /\ FirstKey \in Keys
  /\ None \notin Keys \union Secrets
  /\ Bookings \cap Bundles = {}
  /\ Wishes \subseteq [on : BOOLEAN, key : Keys, secret : Secrets \union {None}]
  /\ MaxSaves \in Nat

Sessions == Bookings \union Bundles

VARIABLES
  cfg,      \* tenant.paymentSettings.stripe
  session,  \* what a booking or an order has of a payment session
  bound,    \* the key pair its session was claimed with, or None
  intent,   \* where Stripe keeps its PaymentIntent, or None
  seen,     \* the settings a checkout request goes by, or None
  admin,    \* requests to change the settings
  hook      \* the settings an event has vouched for, or None

vars == <<cfg, session, bound, intent, seen, admin, hook>>

(* "owed" is a booking whose full refund was taken back by Stripe.         *)
SessionStates == {"new", "open", "paid", "closed", "refunded", "owed"}

Settings == [on : BOOLEAN, key : Keys, proved : BOOLEAN,
             secret : Secrets \union {None}, verified : BOOLEAN,
             rev : Nat, fence : Nat]

(* What a checkout claims with, and what an event has vouched for.         *)
Tickets == [key : Keys, rev : Nat, fence : Nat]
Letters == [key : Keys, secret : Secrets, rev : Nat]

(* What a request to change the settings knows: the settings it has read,  *)
(* what it was asked for, and the document the save has loaded.            *)
Idle == [at |-> "idle"]
AdminStates ==
  {Idle} \union [at : {"bundles", "bookings", "load"}, read : Settings, want : Wishes]
         \union [at : {"save"}, read : Settings, want : Wishes, doc : Settings]

TypeOK ==
  /\ cfg \in Settings
  /\ session \in [Sessions -> SessionStates]
  /\ bound \in [Sessions -> Keys \union {None}]
  /\ intent \in [Sessions -> {Home(k) : k \in Keys} \union {None}]
  /\ seen \in [Sessions -> Tickets \union {None}]
  /\ admin \in [Admins -> AdminStates]
  /\ hook \in [Hooks -> Letters \union {None}]

(* A gateway in use; it may be older than the proof of its keys, and may   *)
(* have the endpoint secret of another account.                            *)
Init ==
  /\ \E proved \in BOOLEAN, secret \in Secrets :
       cfg = [on |-> TRUE, key |-> FirstKey, proved |-> proved, secret |-> secret,
              verified |-> FALSE, rev |-> 0, fence |-> 0]
  /\ session = [s \in Sessions |-> "new"]
  /\ bound = [s \in Sessions |-> None]
  /\ intent = [s \in Sessions |-> None]
  /\ seen = [s \in Sessions |-> None]
  /\ admin = [a \in Admins |-> Idle]
  /\ hook = [h \in Hooks |-> None]

-----------------------------------------------------------------------------
(* Checkout.                                                               *)

(* A booking asks for its account and mode, an order for the very keys.    *)
Matches(s, settings) ==
  bound[s] # None =>
    /\ settings.proved
    /\ s \in Bundles => settings.key = bound[s]
    /\ s \in Bookings => Home(settings.key) = Home(bound[s])

(* The session is read, then the settings; a session claimed before is     *)
(* taken up again when its account is still the one in use.                *)
Checkout(s) ==
  /\ seen[s] = None
  /\ session[s] \in {"new", "open"}
  /\ cfg.on /\ cfg.proved /\ Matches(s, cfg)
  /\ seen' = [seen EXCEPT ![s] = [key |-> cfg.key, rev |-> cfg.rev, fence |-> cfg.fence]]
  /\ UNCHANGED <<cfg, session, bound, intent, admin, hook>>

(* The fence moves only in the settings the request has read.              *)
Claimable(ticket) ==
  /\ cfg.on /\ cfg.proved
  /\ cfg.key = ticket.key
  /\ cfg.rev = ticket.rev
  /\ cfg.fence = ticket.fence

(* One transaction: the settings' fence and the session's binding.         *)
Claim(s) ==
  /\ seen[s] # None
  /\ session[s] = "new"
  /\ Claimable(seen[s])
  /\ cfg' = [cfg EXCEPT !.fence = @ + 1]
  /\ session' = [session EXCEPT ![s] = "open"]
  /\ bound' = [bound EXCEPT ![s] = seen[s].key]
  /\ UNCHANGED <<intent, seen, admin, hook>>

ClaimFails(s) ==
  /\ seen[s] # None /\ bound[s] = None
  /\ session[s] # "new" \/ ~Claimable(seen[s])
  /\ seen' = [seen EXCEPT ![s] = None]
  /\ UNCHANGED <<cfg, session, bound, intent, admin, hook>>

(* Stripe answers one idempotency key with one intent, in the account of   *)
(* the keys the request holds.                                             *)
Made(s, k) == IF intent[s] = None THEN Home(k) ELSE intent[s]

CreateIntent(s) ==
  /\ seen[s] # None /\ bound[s] # None
  /\ intent' = [intent EXCEPT ![s] = Made(s, seen[s].key)]
  /\ seen' = [seen EXCEPT ![s] = None]
  /\ UNCHANGED <<cfg, session, bound, admin, hook>>

CheckoutDies(s) ==
  /\ seen[s] # None
  /\ seen' = [seen EXCEPT ![s] = None]
  /\ UNCHANGED <<cfg, session, bound, intent, admin, hook>>

-----------------------------------------------------------------------------
(* What becomes of a session: modules CardHold, CancelRefund, BundleOrder  *)
(* and BundleRefund have the steps; only their effect on the need of the   *)
(* account is told apart here.                                             *)

Becomes(s, from, to) ==
  /\ session[s] \in from
  /\ session' = [session EXCEPT ![s] = to]

Pay(s) ==
  /\ intent[s] # None
  /\ Becomes(s, {"open"}, "paid")
  /\ UNCHANGED <<cfg, bound, intent, seen, admin, hook>>

(* A sweep ends a claimed session only through the account it is bound to, *)
(* where it first finds the intent the request may have left behind.       *)
Close(s) ==
  /\ cfg.on /\ Matches(s, cfg)
  /\ Becomes(s, {"open"}, "closed")
  /\ intent' = [intent EXCEPT ![s] = Made(s, cfg.key)]
  /\ UNCHANGED <<cfg, bound, seen, admin, hook>>

Release(s) ==
  /\ Becomes(s, {"new"}, "closed")
  /\ UNCHANGED <<cfg, bound, intent, seen, admin, hook>>

Refund(s) ==
  /\ Matches(s, cfg)
  /\ Becomes(s, {"paid", "owed"}, "refunded")
  /\ UNCHANGED <<cfg, bound, intent, seen, admin, hook>>

(* The refund fails at the bank afterwards, and the webhook says so.       *)
Reverse(s) ==
  /\ s \in Bookings
  /\ Matches(s, cfg)
  /\ Becomes(s, {"refunded"}, "owed")
  /\ UNCHANGED <<cfg, bound, intent, seen, admin, hook>>

-----------------------------------------------------------------------------
(* The settings.                                                           *)

Rekeyed(read, want) == want.key # read.key
OtherMode(read, want) == Mode[want.key] # Mode[read.key]

(* The keys are proved at Stripe when the gateway is on and they, or the   *)
(* proof of them, are new.                                                 *)
Fresh(read, want) == want.on /\ (~read.on \/ Rekeyed(read, want) \/ ~read.proved)

OtherAccount(read, want) ==
  read.proved /\ Fresh(read, want) /\ Account[want.key] # Account[read.key]

Unproved(read, want) == Rekeyed(read, want) /\ ~Fresh(read, want)

(* A gateway that is on needs its endpoint secret; a secret left out stays *)
(* as it is.  (A rotation still on trial refuses another for 72 hours;     *)
(* they may always have passed.)                                           *)
Acceptable(read, want) ==
  /\ want.on => want.secret # None
  /\ want.secret = None => read.secret = None

(* gatewayBindingChanges: orders need the very keys.                       *)
MovesBundles(read, want) ==
  \/ OtherMode(read, want) \/ ~want.on \/ Rekeyed(read, want)
  \/ OtherAccount(read, want)

(* ordinaryGatewayContextChanges: bookings need the account and the mode.  *)
MovesBookings(read, want) ==
  \/ OtherMode(read, want) \/ ~want.on \/ OtherAccount(read, want)
  \/ Unproved(read, want)
  \/ Rekeyed(read, want) /\ ~read.proved

(* webhookContextChanged.                                                  *)
MovesWebhook(read, want) ==
  \/ OtherMode(read, want) \/ OtherAccount(read, want) \/ Unproved(read, want)
  \/ Fresh(read, want) /\ ~read.proved /\ read.verified

Needing(group) == {s \in group : session[s] \in {"open", "paid", "owed"}}
OfMode(mode) == {s \in Bundles : bound[s] # None /\ Mode[bound[s]] = mode}

Ask(a, want) ==
  /\ admin[a].at = "idle"
  /\ cfg.rev < MaxSaves
  /\ Acceptable(cfg, want)
  /\ admin' = [admin EXCEPT ![a] = [at |-> "bundles", read |-> cfg, want |-> want]]
  /\ UNCHANGED <<cfg, session, bound, intent, seen, hook>>

Goes(a, next) == admin' = [admin EXCEPT ![a] = next]
On(a, at) == [at |-> at, read |-> admin[a].read, want |-> admin[a].want]

CountBundles(a) ==
  /\ admin[a].at = "bundles"
  /\ IF MovesBundles(admin[a].read, admin[a].want) /\ Needing(OfMode(Mode[admin[a].read.key])) # {}
     THEN Goes(a, Idle)
     ELSE Goes(a, On(a, "bookings"))
  /\ UNCHANGED <<cfg, session, bound, intent, seen, hook>>

CountBookings(a) ==
  /\ admin[a].at = "bookings"
  /\ IF MovesBookings(admin[a].read, admin[a].want) /\ Needing(Bookings) # {}
     THEN Goes(a, Idle)
     ELSE Goes(a, On(a, "load"))
  /\ UNCHANGED <<cfg, session, bound, intent, seen, hook>>

(* saveTenantStripeConfig loads the document again before it changes it.   *)
Load(a) ==
  /\ admin[a].at = "load"
  /\ Goes(a, [at |-> "save", read |-> admin[a].read, want |-> admin[a].want, doc |-> cfg])
  /\ UNCHANGED <<cfg, session, bound, intent, seen, hook>>

(* The settings a save writes: the proof goes with the keys, the word of a *)
(* webhook with the account, the mode and the secret it was given for.     *)
Saved(read, want, doc) ==
  LET fresh    == Fresh(read, want)
      rekeyed  == want.key # doc.key
      rotated  == want.secret # doc.secret
      dropped  == Unproved(read, want) /\ ~rotated
      distrust == MovesWebhook(read, want) \/ (rekeyed /\ ~fresh)
  IN [on       |-> want.on,
      key      |-> want.key,
      proved   |-> fresh \/ (doc.proved /\ ~rekeyed),
      secret   |-> IF dropped THEN None ELSE want.secret,
      verified |-> doc.verified /\ ~rotated /\ ~distrust,
      rev      |-> doc.rev + 1,
      fence    |-> doc.fence]

(* Mutant: the save compares its own revision, not the checkouts' fence.   *)
UnmovedRevision(read) == cfg.rev = read.rev

(* The compare-and-set of updateOne.                                       *)
Unmoved(read) == cfg.rev = read.rev /\ cfg.fence = read.fence

Save(a) ==
  /\ admin[a].at = "save"
  /\ IF Unmoved(admin[a].read)
     THEN cfg' = Saved(admin[a].read, admin[a].want, admin[a].doc)
     ELSE UNCHANGED cfg
  /\ Goes(a, Idle)
  /\ UNCHANGED <<session, bound, intent, seen, hook>>

-----------------------------------------------------------------------------
(* Signed events.                                                          *)

(* The event is signed with the current secret, and Stripe finds it with   *)
(* the current keys: the endpoint is this account's.                       *)
Deliver(h) ==
  /\ hook[h] = None
  /\ cfg.proved /\ ~cfg.verified
  /\ cfg.secret # None /\ Issuer[cfg.secret] = Home(cfg.key)
  /\ hook' = [hook EXCEPT ![h] = [key |-> cfg.key, secret |-> cfg.secret, rev |-> cfg.rev]]
  /\ UNCHANGED <<cfg, session, bound, intent, seen, admin>>

(* Mutant: the mark goes by the site alone.                                *)
MarkableAnyhow(letter) == cfg.proved

(* markTenantStripeWebhookVerified.                                        *)
Markable(letter) ==
  /\ cfg.proved /\ cfg.key = letter.key
  /\ cfg.secret = letter.secret
  /\ cfg.rev = letter.rev

Vouch(h) ==
  /\ hook[h] # None
  /\ IF Markable(hook[h])
     THEN cfg' = [cfg EXCEPT !.verified = TRUE]
     ELSE UNCHANGED cfg
  /\ hook' = [hook EXCEPT ![h] = None]
  /\ UNCHANGED <<session, bound, intent, seen, admin>>

-----------------------------------------------------------------------------
Next ==
  \/ \E s \in Sessions :
       \/ Checkout(s) \/ Claim(s) \/ ClaimFails(s) \/ CreateIntent(s) \/ CheckoutDies(s)
       \/ Pay(s) \/ Close(s) \/ Release(s) \/ Refund(s) \/ Reverse(s)
  \/ \E a \in Admins :
       \/ \E want \in Wishes : Ask(a, want)
       \/ CountBundles(a) \/ CountBookings(a) \/ Load(a) \/ Save(a)
  \/ \E h \in Hooks : Deliver(h) \/ Vouch(h)

Spec == Init /\ [][Next]_vars

-----------------------------------------------------------------------------
(* Correctness.                                                            *)

(* While a session can still be paid, or refunded, the gateway is the one  *)
(* it was claimed with: an order's very keys, a booking's account and      *)
(* mode; and its intent is there.  The admin's counts are old when the     *)
(* settings are saved (updatePaymentGateway); the fence must make up for   *)
(* it, and a checkout that read the settings before the save must lose.    *)
GatewayStands ==
  \A s \in Sessions :
    /\ session[s] \in {"open", "paid"} =>
         cfg.on /\ cfg.proved /\ bound[s] # None /\ Matches(s, cfg)
    /\ intent[s] # None => bound[s] # None /\ intent[s] = Home(bound[s])

(* The word that deliveries work is one of the present account's: however  *)
(* late a handler marks it, the endpoint secret in use is that of the keys *)
(* in use (markTenantStripeWebhookVerified).                               *)
TrustIsProven ==
  cfg.verified /\ cfg.proved => Issuer[cfg.secret] = Home(cfg.key)

=============================================================================
