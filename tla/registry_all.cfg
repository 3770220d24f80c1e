SPECIFICATION Spec
CONSTANTS
  r1 = r1  r2 = r2  r3 = r3  s1 = s1  m1 = m1  m2 = m2  a = a  b = b
  starter = starter  b1 = b1  b2 = b2  bad = bad
  None = None
  Req = {r1, r2, r3}
  Service = {s1}
  Wallet = {m1, m2}
  Resource = {a, b}
  PackId = {starter}
  Bundles = {b1, b2, bad}
  Catalog <- MCCatalog
  Index <- MCIndex
  Challenge <- MCChallenge
  Jobs <- MCJobs
  Registered <- MCRegistered
  MaxUses = 2
  MinValidity = 1
  MaxValidity = 2
SYMMETRY Interchangeable
INVARIANTS TypeOK IndexMatchesCatalog MerchantSignedContent IssuedOnTermsInForce OnePackPerOrder
PROPERTIES OwnerIsForever RetiredIsFinal
