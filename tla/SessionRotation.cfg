SPECIFICATION Spec
CONSTANTS
    r1 = r1
    r2 = r2
    A = A
    B = B
    NoOne = NoOne
    NoTenant = NoTenant
    Requests = {r1, r2}
    Tenants = {A, B}
    MaxTokens = 3
    MaxAudit = 3
    MaxFaults = 1
SYMMETRY Alike
INVARIANTS CookieLives AuditNamesTenant
PROPERTIES InFlightAccepted
CHECK_DEADLOCK FALSE
