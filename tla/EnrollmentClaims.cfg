SPECIFICATION Spec
CONSTANTS
  k1 = k1  k2 = k2  t1 = t1  x = x  A = A  B = B  a = a  b = b
  Keys = {k1, k2}  Tokens = {t1, x}  Tenants = {A, B}  Users = {a, b}
  KeyRank <- MCRank  UnitTokens <- MCUnitTokens  UserTenant <- MCUserTenant
  c1 = c1  c2 = c2  Calls = {c1, c2}
  SeesAllTenants = TRUE
  ClaimFailureCap = 1
  None = None
  MaxPk = 2  MaxCerts = 2  MaxProofs = 2  MaxAdmin = 1  MaxFaults = 1
SYMMETRY Alike
CONSTRAINT Bound
INVARIANTS CertFollowsCode OrphanHasCause
PROPERTIES BackedClaimSurvives RevokedForGood
CHECK_DEADLOCK FALSE
