SPECIFICATION Spec
CONSTANTS
  here = here
  there = there
  tour = tour
  package = package
  bundle = bundle
  k1 = k1
  b1 = b1
  b2 = b2
  d1 = d1
  d2 = d2
  Sites = {here, there}
  Site <- MCSite
  Tours = {tour}
  Packages = {package}
  Bundles = {bundle}
  Uses <- MCUses
  Party <- MCParty
  Discounted = {tour, package}
  Keys = {k1}
  BundleKeys = {b1, b2}
  Clients = {c1, c2}
  Departures = {d1, d2}
  Seats <- MCSeats
  Allotment <- MCSeats
  UsageLimit = 1
  Promo = Promo
  None = None
  MaxEdits = 1
SYMMETRY Alike
INVARIANTS
  FoundByKey
  BooksBalance
PROPERTIES
  SoldAtPresentTerms
