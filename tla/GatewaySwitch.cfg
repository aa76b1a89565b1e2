SPECIFICATION Spec
CONSTANTS
  k1 = k1
  k2 = k2
  k3 = k3
  e1 = e1
  e2 = e2
  own = own
  other = other
  Keys = {k1, k2, k3}
  Account <- KeyAccount
  Mode <- KeyMode
  Secrets = {e1, e2}
  Issuer <- SecretIssuer
  FirstKey = k1
  Bookings = {b1}
  Bundles = {o1}
  Admins = {a1}
  Hooks = {h1}
  None = None
  Wishes <- Asked
  MaxSaves = 2
INVARIANTS
  GatewayStands
  TrustIsProven
CHECK_DEADLOCK FALSE
