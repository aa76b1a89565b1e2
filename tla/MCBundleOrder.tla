--------------------------- MODULE MCBundleOrder ---------------------------
(* BundleOrder on small sets of departures, requests and sweeps.           *)
EXTENDS BundleOrder, TLC

Symmetry == Permutations(Component) \cup Permutations(Session)
              \cup Permutations(Server) \cup Permutations(Sweeper)
=============================================================================
