------------------------ MODULE GatewaySwitchProofs ------------------------
(***************************************************************************)
(* The gateway never leaves a session behind, for any number of sessions,  *)
(* admins, keys and saves.  The argument is the fence: what an admin's     *)
(* counts said holds for as long as the settings' revision and fence are   *)
(* the ones it has read, because only a claim makes a session need the     *)
(* account, and a claim moves the fence.                                   *)
(***************************************************************************)
EXTENDS GatewaySwitch, TLAPS

Same(p, q) == p.on = q.on /\ p.key = q.key /\ p.proved = q.proved /\ p.secret = q.secret

Live(s) == session[s] \in {"open", "paid"}

(* A webhook's word is about the account, mode and secret in the settings. *)
Trust(p) ==
  p.verified => p.proved /\ p.secret # None /\ Issuer[p.secret] = Home(p.key)

(* A session that may cost money has the gateway it was claimed with.      *)
Kept(s) ==
  /\ session[s] = "new" => bound[s] = None
  /\ Live(s) => cfg.on /\ cfg.proved /\ bound[s] # None /\ Matches(s, cfg)

(* Intents, and the requests that make them, are at the bound account.     *)
Placed(s) ==
  /\ intent[s] # None => bound[s] # None /\ intent[s] = Home(bound[s])
  /\ seen[s] # None /\ bound[s] # None => Home(seen[s].key) = Home(bound[s])

(* What an admin's request may rely on.                                    *)
Knows(a) ==
  /\ admin[a].at # "idle" =>
       /\ admin[a].read.rev <= cfg.rev /\ admin[a].read.fence <= cfg.fence
       /\ Unmoved(admin[a].read) => Same(admin[a].read, cfg)
       /\ Acceptable(admin[a].read, admin[a].want)
  /\ admin[a].at \in {"bookings", "load", "save"}
       /\ Unmoved(admin[a].read) /\ MovesBundles(admin[a].read, admin[a].want)
       => (\A s \in Bundles : ~Live(s))
  /\ admin[a].at \in {"load", "save"}
       /\ Unmoved(admin[a].read) /\ MovesBookings(admin[a].read, admin[a].want)
       => (\A s \in Bookings : ~Live(s))
  /\ admin[a].at = "save" =>
       /\ Trust(admin[a].doc)
       /\ Unmoved(admin[a].read) =>
            /\ Same(admin[a].doc, cfg)
            /\ admin[a].doc.rev = cfg.rev /\ admin[a].doc.fence = cfg.fence

Letter(h) ==
  hook[h] # None => Issuer[hook[h].secret] = Home(hook[h].key)

Inv ==
  /\ TypeOK
  /\ Trust(cfg)
  /\ \A s \in Sessions : Kept(s) /\ Placed(s)
  /\ \A a \in Admins : Knows(a)
  /\ \A h \in Hooks : Letter(h)

-----------------------------------------------------------------------------
(* The settings a save writes are settings again.                          *)
LEMMA SavedIsSettings ==
  ASSUME NEW read \in Settings, NEW want \in [on : BOOLEAN, key : Keys, secret : Secrets \union {None}],
         NEW doc \in Settings
  PROVE  Saved(read, want, doc) \in Settings
BY DEF Saved, Settings, Fresh, Rekeyed, Unproved, MovesWebhook, OtherMode, OtherAccount

(* Every step keeps the variables in their types.                          *)
LEMMA StepTyped == TypeOK /\ [Next]_vars => TypeOK'
<1> SUFFICES ASSUME TypeOK, [Next]_vars PROVE TypeOK'
  OBVIOUS
<1> USE GatewayAssumption DEF TypeOK, Sessions, SessionStates
<1>1. ASSUME NEW s \in Sessions, Checkout(s) PROVE TypeOK'
  BY <1>1 DEF Checkout, Tickets, Settings
<1>2. ASSUME NEW s \in Sessions, Claim(s) PROVE TypeOK'
  BY <1>2 DEF Claim, Tickets, Settings
<1>3. ASSUME NEW s \in Sessions, ClaimFails(s) PROVE TypeOK'
  BY <1>3 DEF ClaimFails
<1>4. ASSUME NEW s \in Sessions, CreateIntent(s) PROVE TypeOK'
  BY <1>4 DEF CreateIntent, Made, Tickets
<1>5. ASSUME NEW s \in Sessions, CheckoutDies(s) PROVE TypeOK'
  BY <1>5 DEF CheckoutDies
<1>6. ASSUME NEW s \in Sessions, Pay(s) \/ Release(s) \/ Refund(s) \/ Reverse(s) PROVE TypeOK'
  BY <1>6 DEF Pay, Release, Refund, Reverse, Becomes
<1>7. ASSUME NEW s \in Sessions, Close(s) PROVE TypeOK'
  BY <1>7 DEF Close, Becomes, Made, Settings
<1>8. ASSUME NEW a \in Admins, NEW want \in Wishes, Ask(a, want) PROVE TypeOK'
  BY <1>8 DEF Ask, AdminStates
<1>9. ASSUME NEW a \in Admins, CountBundles(a) PROVE TypeOK'
  BY <1>9 DEF CountBundles, Goes, On, AdminStates, Idle
<1>10. ASSUME NEW a \in Admins, CountBookings(a) PROVE TypeOK'
  BY <1>10 DEF CountBookings, Goes, On, AdminStates, Idle
<1>11. ASSUME NEW a \in Admins, Load(a) PROVE TypeOK'
  BY <1>11 DEF Load, Goes, AdminStates, Idle
<1>12. ASSUME NEW a \in Admins, Save(a) PROVE TypeOK'
  <2>1. admin[a].read \in Settings /\ admin[a].doc \in Settings /\ admin[a].want \in Wishes
    BY <1>12 DEF Save, AdminStates, Idle
  <2>2. Saved(admin[a].read, admin[a].want, admin[a].doc) \in Settings
    BY <2>1, SavedIsSettings
  <2> QED BY <1>12, <2>2 DEF Save, Goes, AdminStates
<1>13. ASSUME NEW h \in Hooks, Deliver(h) PROVE TypeOK'
  BY <1>13 DEF Deliver, Letters, Settings
<1>14. ASSUME NEW h \in Hooks, Vouch(h) PROVE TypeOK'
  BY <1>14 DEF Vouch, Settings
<1>15. CASE UNCHANGED vars
  BY <1>15 DEF vars
<1> QED BY <1>1, <1>2, <1>3, <1>4, <1>5, <1>6, <1>7, <1>8, <1>9, <1>10, <1>11, <1>12,
           <1>13, <1>14, <1>15 DEF Next

-----------------------------------------------------------------------------
(* A save leaves what it says of the webhook with the keys it was about.   *)
LEMMA SavedTrusts ==
  ASSUME NEW read \in Settings, NEW want \in [on : BOOLEAN, key : Keys, secret : Secrets \union {None}],
         NEW doc \in Settings, Trust(doc), Same(read, doc)
  PROVE  Trust(Saved(read, want, doc))
<1> DEFINE new == Saved(read, want, doc)
<1> SUFFICES ASSUME new.verified
             PROVE  new.proved /\ new.secret # None /\ Issuer[new.secret] = Home(new.key)
  BY DEF Trust
<1>1. /\ doc.verified /\ want.secret = doc.secret
      /\ ~MovesWebhook(read, want) /\ ~(want.key # doc.key /\ ~Fresh(read, want))
  BY DEF Saved
<1>2. doc.proved /\ read.proved /\ doc.secret # None /\ Issuer[doc.secret] = Home(doc.key)
  BY <1>1 DEF Trust, Same
<1>3. Account[want.key] = Account[doc.key] /\ Mode[want.key] = Mode[doc.key]
  BY <1>1, <1>2 DEF MovesWebhook, OtherMode, OtherAccount, Rekeyed, Fresh, Same
<1>4. new.proved /\ new.key = want.key /\ new.secret = doc.secret
  BY <1>1, <1>2 DEF Saved, MovesWebhook, Fresh
<1> QED BY <1>2, <1>3, <1>4 DEF Home

(* Steps that leave the settings alone, and make no session need them,     *)
(* leave every admin's knowledge as it was.                                *)
LEMMA KnowsOn ==
  ASSUME Inv, UNCHANGED <<cfg, admin>>, \A s \in Sessions : Live(s)' => Live(s)
  PROVE  \A a \in Admins : Knows(a)'
BY DEF Inv, Knows, Unmoved, Same, Trust, Sessions

(* What a request under way has read is settings of the site.              *)
LEMMA ReadIsSettings ==
  ASSUME TypeOK, NEW a \in Admins, admin[a].at # "idle"
  PROVE  /\ admin[a].read \in Settings
         /\ admin[a].want \in Wishes
         /\ admin[a].at = "save" => admin[a].doc \in Settings
BY DEF TypeOK, AdminStates, Idle

(* A step that moves the revision or the fence up, and nobody's request,   *)
(* outdates every request.                                                 *)
LEMMA OutdatedKnows ==
  ASSUME Inv, NEW a \in Admins, admin'[a] = admin[a],
         cfg'.rev \in Nat, cfg'.fence \in Nat,
         cfg.rev <= cfg'.rev, cfg.fence <= cfg'.fence,
         cfg'.rev # cfg.rev \/ cfg'.fence # cfg.fence
  PROVE  Knows(a)'
<1>1. CASE admin[a].at = "idle"
  BY <1>1 DEF Knows
<1>2. CASE admin[a].at # "idle"
  <2>1. admin[a].read \in Settings /\ Knows(a) /\ cfg \in Settings
    BY <1>2, ReadIsSettings DEF Inv, TypeOK
  <2>2. /\ admin[a].read.rev \in Nat /\ admin[a].read.fence \in Nat
        /\ cfg.rev \in Nat /\ cfg.fence \in Nat
    BY <2>1 DEF Settings
  <2>3. admin[a].read.rev <= cfg.rev /\ admin[a].read.fence <= cfg.fence
    BY <1>2, <2>1 DEF Knows
  <2>4. ~Unmoved(admin[a].read)' /\ admin[a].read.rev <= cfg'.rev /\ admin[a].read.fence <= cfg'.fence
    BY <2>2, <2>3 DEF Unmoved
  <2>5. /\ Acceptable(admin[a].read, admin[a].want)
        /\ admin[a].at = "save" => Trust(admin[a].doc)
    BY <1>2, <2>1 DEF Knows
  <2>6. /\ Acceptable(admin[a].read, admin[a].want)'
        /\ admin[a].at = "save" => Trust(admin[a].doc)'
    BY <2>5 DEF Acceptable, Trust
  <2> QED BY <2>4, <2>6 DEF Knows
<1> QED BY <1>1, <1>2

(* A checkout's steps, up to the claim.                                    *)
LEMMA CheckoutKeeps ==
  ASSUME Inv, TypeOK', NEW c \in Sessions,
         Checkout(c) \/ ClaimFails(c) \/ CreateIntent(c) \/ CheckoutDies(c)
  PROVE  Inv'
<1> USE GatewayAssumption
<1>1. cfg' = cfg /\ admin' = admin /\ session' = session /\ bound' = bound /\ hook' = hook
  BY DEF Checkout, ClaimFails, CreateIntent, CheckoutDies
<1>2. \A a \in Admins : Knows(a)'
  BY <1>1, KnowsOn DEF Live
<1>3. ASSUME NEW s \in Sessions PROVE Placed(s)'
  <2>0. Placed(s) /\ Kept(s) /\ Kept(c) /\ Placed(c) BY DEF Inv
  <2>1. CASE Checkout(c)
    <3>1. bound[c] # None => Home(cfg.key) = Home(bound[c])
      BY <2>1 DEF Checkout, Matches, Sessions
    <3>2. seen'[c].key = cfg.key /\ intent' = intent /\ (s # c => seen'[s] = seen[s])
      BY <2>1 DEF Checkout, Inv, TypeOK
    <3> QED BY <1>1, <2>0, <3>1, <3>2 DEF Placed
  <2>2. CASE ClaimFails(c) \/ CheckoutDies(c)
    BY <1>1, <2>0, <2>2 DEF ClaimFails, CheckoutDies, Placed, Inv, TypeOK
  <2>3. CASE CreateIntent(c)
    <3>1. Made(c, seen[c].key) = Home(bound[c])
      BY <2>0, <2>3 DEF CreateIntent, Made, Placed
    <3> QED BY <1>1, <2>0, <2>3, <3>1 DEF CreateIntent, Placed, Inv, TypeOK
  <2> QED BY <2>1, <2>2, <2>3
<1> QED BY <1>1, <1>2, <1>3 DEF Inv, Trust, Kept, Live, Matches, Letter

(* A claim takes the settings as they are, and outdates what every admin   *)
(* has read.                                                               *)
LEMMA ClaimKeeps ==
  ASSUME Inv, TypeOK', NEW c \in Sessions, Claim(c)
  PROVE  Inv'
<1> USE GatewayAssumption
<1>0. TypeOK BY DEF Inv
<1>1. /\ cfg'.on = cfg.on /\ cfg'.key = cfg.key /\ cfg'.proved = cfg.proved
      /\ cfg'.secret = cfg.secret /\ cfg'.verified = cfg.verified
      /\ cfg'.rev = cfg.rev /\ cfg'.fence = cfg.fence + 1 /\ cfg.fence \in Nat
      /\ admin' = admin /\ hook' = hook /\ seen' = seen /\ intent' = intent
  BY <1>0 DEF Claim, TypeOK, Settings
<1>2. ASSUME NEW a \in Admins PROVE Knows(a)'
  <2>1. cfg.rev \in Nat /\ cfg'.rev \in Nat /\ cfg'.fence \in Nat
    BY <1>0 DEF TypeOK, Settings
  <2> QED BY <1>1, <2>1, OutdatedKnows
<1>3. bound' = [bound EXCEPT ![c] = cfg.key] /\ cfg.on /\ cfg.proved /\ seen[c].key = cfg.key
  BY DEF Claim, Claimable
<1>4. ASSUME NEW s \in Sessions PROVE Kept(s)' /\ Placed(s)'
  <2>1. Kept(s) /\ Placed(s) /\ Kept(c) /\ bound[c] = None /\ intent[c] = None
    BY DEF Inv, Kept, Placed, Claim
  <2>2. CASE s = c
    BY <1>0, <1>1, <1>3, <2>1, <2>2 DEF Kept, Placed, Matches, Live, Claim, TypeOK, Settings
  <2>3. CASE s # c
    BY <1>0, <1>1, <1>3, <2>1, <2>3 DEF Kept, Placed, Matches, Live, Claim, TypeOK
  <2> QED BY <2>2, <2>3
<1> QED BY <1>1, <1>2, <1>4 DEF Inv, Trust, Letter

(* What becomes of a session leaves the settings alone, and never makes    *)
(* one live.                                                               *)
LEMMA CourseKeeps ==
  ASSUME Inv, TypeOK', NEW c \in Sessions,
         Pay(c) \/ Close(c) \/ Release(c) \/ Refund(c) \/ Reverse(c)
  PROVE  Inv'
<1> USE GatewayAssumption
<1>0. TypeOK BY DEF Inv
<1>1. cfg' = cfg /\ admin' = admin /\ bound' = bound /\ hook' = hook /\ seen' = seen
  BY DEF Pay, Close, Release, Refund, Reverse
<1>2. /\ \A s \in Sessions : s # c => session'[s] = session[s]
      /\ Live(c)' => Live(c)
      /\ session'[c] # "new"
  BY <1>0 DEF Pay, Close, Release, Refund, Reverse, Becomes, Live, TypeOK
<1>3. \A a \in Admins : Knows(a)'
  <2>1. \A s \in Sessions : Live(s)' => Live(s)
    BY <1>2 DEF Live
  <2> QED BY <1>1, <2>1, KnowsOn
<1>4. ASSUME NEW s \in Sessions PROVE Kept(s)'
  BY <1>1, <1>2, <1>4 DEF Inv, Kept, Live, Matches
<1>5. ASSUME NEW s \in Sessions PROVE Placed(s)'
  <2>1. Placed(s) /\ Kept(c) BY DEF Inv
  <2>2. CASE ~Close(c)
    BY <1>1, <2>1, <2>2 DEF Pay, Release, Refund, Reverse, Placed
  <2>3. CASE Close(c)
    <3>1. Live(c) BY <2>3 DEF Close, Becomes, Live
    <3>2. bound[c] # None /\ Home(cfg.key) = Home(bound[c])
      BY <2>1, <3>1 DEF Kept, Matches, Sessions
    <3>3. Made(c, cfg.key) = Home(bound[c])
      BY <3>2 DEF Made, Inv, Placed
    <3> QED BY <1>0, <1>1, <2>1, <2>3, <3>2, <3>3 DEF Close, Placed, TypeOK
  <2> QED BY <2>2, <2>3
<1> QED BY <1>1, <1>3, <1>4, <1>5 DEF Inv, Trust, Letter

(* An admin's request up to its save: a count that lets it go on has found *)
(* no live session of the kind that would lose its gateway.                *)
LEMMA RequestKeeps ==
  ASSUME Inv, TypeOK', NEW a \in Admins,
         \/ \E want \in Wishes : Ask(a, want)
         \/ CountBundles(a) \/ CountBookings(a) \/ Load(a)
  PROVE  Inv'
<1> USE GatewayAssumption
<1>0. TypeOK BY DEF Inv
<1>1. /\ cfg' = cfg /\ session' = session /\ bound' = bound /\ intent' = intent
      /\ seen' = seen /\ hook' = hook
  BY DEF Ask, CountBundles, CountBookings, Load
<1>2. \A b \in Admins : b # a => admin'[b] = admin[b]
  BY <1>0 DEF Ask, CountBundles, CountBookings, Load, Goes, TypeOK
<1>3. ASSUME NEW b \in Admins, b # a PROVE Knows(b)'
  BY <1>1, <1>2, <1>3 DEF Inv, Knows, Unmoved, Same, Trust, Live
<1>4. cfg.rev \in Nat /\ cfg.fence \in Nat /\ cfg \in Settings
  BY <1>0 DEF TypeOK, Settings
<1>5. Knows(a) /\ Trust(cfg) BY DEF Inv
<1>6. CASE \E want \in Wishes : Ask(a, want)
  <2>1. PICK want \in Wishes :
          admin'[a] = [at |-> "bundles", read |-> cfg, want |-> want] /\ Acceptable(cfg, want)
    BY <1>0, <1>6 DEF Ask, TypeOK
  <2>2. /\ admin'[a].at = "bundles" /\ admin'[a].read = cfg' /\ admin'[a].want = want
        /\ Acceptable(cfg', want)
    BY <1>1, <2>1
  <2>3. Knows(a)'
    BY <1>1, <1>4, <2>2 DEF Knows, Same, Acceptable
  <2> QED BY <1>1, <1>3, <2>3 DEF Inv, Trust, Kept, Placed, Live, Matches, Letter
<1>7. CASE CountBundles(a)
  <2>1. admin[a].at = "bundles" BY <1>7 DEF CountBundles
  <2>2. CASE admin'[a] = Idle
    BY <1>3, <1>1, <2>2 DEF Idle, Knows, Inv, Trust, Kept, Placed, Live, Matches, Letter
  <2>3. CASE ~(MovesBundles(admin[a].read, admin[a].want)
               /\ Needing(OfMode(Mode[admin[a].read.key])) # {})
    <3>1. admin'[a] = On(a, "bookings")
      BY <1>0, <1>7, <2>3 DEF CountBundles, Goes, TypeOK
    <3>2. ASSUME Unmoved(admin[a].read), MovesBundles(admin[a].read, admin[a].want),
                 NEW s \in Bundles, Live(s)
          PROVE  FALSE
      <4>1. admin[a].read.key = cfg.key
        BY <1>5, <2>1, <3>2 DEF Knows, Same
      <4>2. bound[s] # None /\ bound[s] = cfg.key
        BY <3>2 DEF Inv, Kept, Matches, Sessions
      <4>3. s \in Needing(OfMode(Mode[admin[a].read.key]))
        BY <3>2, <4>1, <4>2 DEF Needing, OfMode, Live
      <4> QED BY <2>3, <3>2, <4>3
    <3>3. Knows(a)'
      BY <1>1, <1>5, <2>1, <3>1, <3>2 DEF Knows, On, Unmoved, Same, Live, MovesBundles,
         OtherMode, Rekeyed, OtherAccount, Fresh, Acceptable
    <3> QED BY <1>1, <1>3, <3>3 DEF Inv, Trust, Kept, Placed, Live, Matches, Letter
  <2> QED BY <1>0, <1>7, <2>2, <2>3 DEF CountBundles, Goes, TypeOK
<1>8. CASE CountBookings(a)
  <2>1. admin[a].at = "bookings" BY <1>8 DEF CountBookings
  <2>2. CASE admin'[a] = Idle
    BY <1>3, <1>1, <2>2 DEF Idle, Knows, Inv, Trust, Kept, Placed, Live, Matches, Letter
  <2>3. CASE ~(MovesBookings(admin[a].read, admin[a].want) /\ Needing(Bookings) # {})
    <3>1. admin'[a] = On(a, "load")
      BY <1>0, <1>8, <2>3 DEF CountBookings, Goes, TypeOK
    <3>2. MovesBookings(admin[a].read, admin[a].want) => \A s \in Bookings : ~Live(s)
      BY <2>3 DEF Needing, Live
    <3>3. Knows(a)'
      BY <1>1, <1>5, <2>1, <3>1, <3>2 DEF Knows, On, Unmoved, Same, Live
    <3> QED BY <1>1, <1>3, <3>3 DEF Inv, Trust, Kept, Placed, Live, Matches, Letter
  <2> QED BY <1>0, <1>8, <2>2, <2>3 DEF CountBookings, Goes, TypeOK
<1>9. CASE Load(a)
  <2>1. /\ admin[a].at = "load"
        /\ admin'[a] = [at |-> "save", read |-> admin[a].read, want |-> admin[a].want, doc |-> cfg]
    BY <1>0, <1>9 DEF Load, Goes, TypeOK
  <2>2. Knows(a)'
    BY <1>1, <1>5, <2>1 DEF Knows, Unmoved, Same, Live, Trust
  <2> QED BY <1>1, <1>3, <2>2 DEF Inv, Trust, Kept, Placed, Live, Matches, Letter
<1> QED BY <1>6, <1>7, <1>8, <1>9

(* A save that finds the revision and the fence as it read them takes the  *)
(* gateway from no live session: one that the change would leave behind    *)
(* was counted.                                                            *)
LEMMA SaveKeeps ==
  ASSUME Inv, TypeOK', NEW a \in Admins, Save(a)
  PROVE  Inv'
<1> USE GatewayAssumption
<1> DEFINE read == admin[a].read
           want == admin[a].want
           doc  == admin[a].doc
<1>0. TypeOK BY DEF Inv
<1>1. /\ session' = session /\ bound' = bound /\ intent' = intent
      /\ seen' = seen /\ hook' = hook /\ admin'[a] = Idle
      /\ \A b \in Admins : b # a => admin'[b] = admin[b]
  BY <1>0 DEF Save, Goes, TypeOK
<1>2. /\ admin[a].at = "save" /\ Knows(a) /\ Trust(cfg)
      /\ read \in Settings /\ doc \in Settings /\ want \in Wishes
  BY <1>0, ReadIsSettings DEF Save, Inv
<1>3. \A s \in Sessions : Placed(s)'
  BY <1>1 DEF Inv, Placed
<1>4. \A h \in Hooks : Letter(h)'
  BY <1>1 DEF Inv, Letter
<1>5. Knows(a)'
  BY <1>1 DEF Knows, Idle
<1>6. CASE ~Unmoved(read)
  <2>1. cfg' = cfg BY <1>6 DEF Save
  <2>2. ASSUME NEW b \in Admins, b # a PROVE Knows(b)'
    BY <1>1, <2>1, <2>2 DEF Inv, Knows, Unmoved, Same, Trust, Live
  <2> QED BY <1>1, <1>3, <1>4, <1>5, <2>1, <2>2 DEF Inv, Trust, Kept, Live, Matches
<1>7. CASE Unmoved(read)
  <2>1. cfg' = Saved(read, want, doc) BY <1>7 DEF Save
  <2>2. /\ Same(read, cfg) /\ Same(doc, cfg) /\ Same(read, doc) /\ Trust(doc)
        /\ doc.rev = cfg.rev /\ doc.fence = cfg.fence
    BY <1>2, <1>7 DEF Knows, Same
  <2>3. Trust(cfg')
    BY <1>2, <2>1, <2>2, SavedTrusts
  <2>4. /\ cfg'.on = want.on /\ cfg'.key = want.key
        /\ cfg'.proved = (Fresh(read, want) \/ (doc.proved /\ want.key = doc.key))
        /\ cfg'.rev = cfg.rev + 1 /\ cfg'.fence = cfg.fence
    BY <2>1, <2>2 DEF Saved
  <2>5. cfg.rev \in Nat /\ cfg.fence \in Nat
    BY <1>0 DEF TypeOK, Settings
  <2>6. ASSUME NEW b \in Admins PROVE Knows(b)'
    BY <1>1, <1>5, <2>4, <2>5, <2>6, OutdatedKnows
  <2>7. ASSUME NEW s \in Bundles, Live(s)
        PROVE  cfg'.on /\ cfg'.proved /\ cfg'.key = cfg.key /\ cfg.key = bound[s]
    <3>1. ~MovesBundles(read, want)
      BY <1>2, <1>7, <2>7 DEF Knows
    <3>2. want.on /\ want.key = read.key
      BY <3>1 DEF MovesBundles, Rekeyed
    <3>3. cfg.proved /\ cfg.key = bound[s]
      BY <2>7 DEF Inv, Kept, Matches, Sessions
    <3> QED BY <2>2, <2>4, <3>2, <3>3 DEF Same
  <2>8. ASSUME NEW s \in Bookings, Live(s)
        PROVE  cfg'.on /\ cfg'.proved /\ Home(cfg'.key) = Home(bound[s])
    <3>1. ~MovesBookings(read, want)
      BY <1>2, <1>7, <2>8 DEF Knows
    <3>2. cfg.proved /\ Home(cfg.key) = Home(bound[s])
      BY <2>8 DEF Inv, Kept, Matches, Sessions
    <3>3. read.proved /\ read.key = cfg.key /\ doc.key = cfg.key /\ doc.proved
      BY <2>2, <3>2 DEF Same
    <3>4. Rekeyed(read, want) => Fresh(read, want) /\ Account[want.key] = Account[read.key]
      BY <3>1, <3>3 DEF MovesBookings, Unproved, OtherAccount
    <3>5. Mode[want.key] = Mode[read.key] /\ want.on
      BY <3>1 DEF MovesBookings, OtherMode
    <3>6. Home(want.key) = Home(cfg.key)
      BY <3>3, <3>4, <3>5 DEF Home, Rekeyed
    <3> QED BY <2>4, <3>2, <3>3, <3>4, <3>5, <3>6 DEF Rekeyed
  <2>9. ASSUME NEW s \in Sessions PROVE Kept(s)'
    <3>1. Kept(s) BY DEF Inv
    <3>2. CASE ~Live(s)
      BY <1>1, <3>1, <3>2 DEF Kept, Live
    <3>3. CASE Live(s) /\ s \in Bundles
      BY <1>1, <2>7, <3>1, <3>3 DEF Kept, Live, Matches
    <3>4. CASE Live(s) /\ s \in Bookings
      BY <1>1, <2>8, <3>1, <3>4 DEF Kept, Live, Matches
    <3> QED BY <3>2, <3>3, <3>4 DEF Sessions
  <2> QED BY <1>3, <1>4, <2>3, <2>6, <2>9 DEF Inv, Trust
<1> QED BY <1>6, <1>7

(* A webhook's word is about the settings it was checked against.          *)
LEMMA EventKeeps ==
  ASSUME Inv, TypeOK', NEW h \in Hooks, Deliver(h) \/ Vouch(h)
  PROVE  Inv'
<1> USE GatewayAssumption
<1>0. TypeOK BY DEF Inv
<1>1. /\ session' = session /\ bound' = bound /\ intent' = intent
      /\ seen' = seen /\ admin' = admin
  BY DEF Deliver, Vouch
<1>2. /\ Same(cfg', cfg) /\ cfg'.rev = cfg.rev /\ cfg'.fence = cfg.fence
      /\ \A g \in Hooks : g # h => hook'[g] = hook[g]
  BY <1>0 DEF Deliver, Vouch, Same, TypeOK, Settings
<1>3. ASSUME NEW a \in Admins PROVE Knows(a)'
  BY <1>1, <1>2 DEF Inv, Knows, Unmoved, Same, Trust, Live
<1>4. ASSUME NEW s \in Sessions PROVE Kept(s)' /\ Placed(s)'
  BY <1>1, <1>2 DEF Inv, Kept, Placed, Live, Matches, Same
<1>5. Letter(h)' /\ Trust(cfg')
  <2>1. Trust(cfg) /\ Letter(h) BY DEF Inv
  <2>2. CASE Deliver(h)
    BY <1>0, <2>1, <2>2 DEF Deliver, Letter, Trust, TypeOK
  <2>3. CASE Vouch(h)
    <3>1. hook'[h] = None BY <1>0, <2>3 DEF Vouch, TypeOK
    <3>2. CASE ~Markable(hook[h])
      BY <2>1, <2>3, <3>1, <3>2 DEF Vouch, Letter
    <3>3. CASE Markable(hook[h])
      <4>1. hook[h] # None /\ hook[h] \in Letters
        BY <1>0, <2>3 DEF Vouch, TypeOK
      <4>2. cfg.secret # None /\ Issuer[cfg.secret] = Home(cfg.key) /\ cfg.proved
        BY <2>1, <3>3, <4>1 DEF Letter, Markable, Letters
      <4> QED BY <1>2, <3>1, <4>2 DEF Letter, Trust, Same
    <3> QED BY <3>2, <3>3
  <2> QED BY <2>2, <2>3
<1>6. \A g \in Hooks : Letter(g)'
  BY <1>2, <1>5 DEF Inv, Letter
<1> QED BY <1>3, <1>4, <1>5, <1>6 DEF Inv, Trust

-----------------------------------------------------------------------------
(* The invariant is inductive.                                             *)
THEOREM Inductive == (Init => Inv) /\ (Inv /\ [Next]_vars => Inv')
<1>1. ASSUME Init PROVE Inv
  <2>1. TypeOK
    BY <1>1, GatewayAssumption DEF Init, TypeOK, Settings, SessionStates, Sessions, AdminStates, Idle
  <2>2. ~cfg.verified /\ \A s \in Sessions : session[s] = "new" /\ bound[s] = None
    BY <1>1 DEF Init
  <2>3. \A s \in Sessions : Kept(s) /\ Placed(s)
    BY <1>1, <2>2 DEF Init, Kept, Placed, Live
  <2>4. \A a \in Admins : Knows(a)
    BY <1>1 DEF Init, Knows, Idle
  <2> QED BY <1>1, <2>1, <2>2, <2>3, <2>4 DEF Init, Inv, Trust, Letter
<1>2. ASSUME Inv, [Next]_vars PROVE Inv'
  <2>1. TypeOK' BY <1>2, StepTyped DEF Inv
  <2>2. ASSUME NEW s \in Sessions,
               \/ Checkout(s) \/ Claim(s) \/ ClaimFails(s) \/ CreateIntent(s) \/ CheckoutDies(s)
               \/ Pay(s) \/ Close(s) \/ Release(s) \/ Refund(s) \/ Reverse(s)
        PROVE  Inv'
    BY <1>2, <2>1, <2>2, CheckoutKeeps, ClaimKeeps, CourseKeeps
  <2>3. ASSUME NEW a \in Admins,
               \/ \E want \in Wishes : Ask(a, want)
               \/ CountBundles(a) \/ CountBookings(a) \/ Load(a) \/ Save(a)
        PROVE  Inv'
    BY <1>2, <2>1, <2>3, RequestKeeps, SaveKeeps
  <2>4. ASSUME NEW h \in Hooks, Deliver(h) \/ Vouch(h) PROVE Inv'
    BY <1>2, <2>1, <2>4, EventKeeps
  <2>5. CASE UNCHANGED vars
    BY <1>2, <2>1, <2>5 DEF vars, Inv, Trust, Kept, Placed, Live, Matches, Knows, Unmoved, Same, Letter
  <2> QED BY <1>2, <2>2, <2>3, <2>4, <2>5 DEF Next
<1> QED BY <1>1, <1>2

(* A session that can still cost or return money has the gateway it was    *)
(* claimed with, whatever the admins' counts and the checkouts' snapshots  *)
(* were when they acted.                                                   *)
THEOREM SessionsKeepGateway == Spec => []GatewayStands
<1>1. Inv => GatewayStands
  BY DEF Inv, GatewayStands, Kept, Placed, Live
<1> QED BY <1>1, Inductive, PTL DEF Spec

(* The site's word that webhooks work is about the account in use.         *)
THEOREM TrustStands == Spec => []TrustIsProven
<1>1. Inv => TrustIsProven
  BY DEF Inv, TrustIsProven, Trust
<1> QED BY <1>1, Inductive, PTL DEF Spec
=============================================================================
