SPECIFICATION Spec
CONSTANTS
  r1 = r1  r2 = r2  r3 = r3
  p1 = p1  p2 = p2  c1 = c1  alice = alice  shop = shop
  a = a  b = b  k1 = k1  k2 = k2  k3 = k3
  None = None
  Req = {r1, r2, r3}
  Cookie = {c1}
  Pack = {p1}
  Key = {k1, k2, k3}
  Resource = {a, b}
  Wallet = {alice, shop}
  Uses = 2
  Allowed = {"*"}
  Signed = {1, 4}
  CookiePack <- MCCookiePack
  Challenge <- MCChallenge
  Total <- MCTotal
  Expiry <- MCExpiry
  Payer <- MCPayer
  Merchant <- MCMerchant
  Scope <- MCScope
  SessionTtl = 1
  ChallengeExpiry = 1
  MaxTime = 1
  Ops = {"consume", "revoke"}
  Faults = TRUE
SYMMETRY Interchangeable
INVARIANTS TypeOK LedgerAgreement OneChargePerKey AnswersAreTrue 
PROPERTY NoUseAfterRevocation
