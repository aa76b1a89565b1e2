-------------------------- MODULE MCGatewaySwitch --------------------------
(***************************************************************************)
(* A site with two key pairs of its own account and one of another, an     *)
(* endpoint of each account, a booking, a bundle order and one admin, who  *)
(* saves twice.  (Any number of admins, asking for any settings, is the    *)
(* proof's.)                                                               *)
(***************************************************************************)
EXTENDS GatewaySwitch, TLC

CONSTANTS k1, k2, k3, e1, e2, own, other

KeyAccount == k1 :> own @@ k2 :> own @@ k3 :> other
KeyMode == k1 :> "live" @@ k2 :> "live" @@ k3 :> "live"
SecretIssuer == e1 :> [account |-> own, mode |-> "live"]
             @@ e2 :> [account |-> other, mode |-> "live"]

(* Off and on again, a new pair of the account, the other account with its *)
(* own endpoint or the old one, and the old account back.                  *)
Asked == {[on |-> FALSE, key |-> k1, secret |-> e1],
          [on |-> FALSE, key |-> k3, secret |-> e1],
          [on |-> TRUE,  key |-> k1, secret |-> e1],
          [on |-> TRUE,  key |-> k2, secret |-> e1],
          [on |-> TRUE,  key |-> k3, secret |-> e1],
          [on |-> TRUE,  key |-> k3, secret |-> e2]}
=============================================================================
