SPECIFICATION Spec
CONSTANTS
    k1 = k1
    k2 = k2
    s1 = s1
    l1 = l1
    p1 = p1
    c1 = c1
    NoSecret = NoSecret
    NoLink = NoLink
    NoChallenge = NoChallenge
    NoOne = NoOne
    Calls = {k1, k2}
    Secrets = {s1}
    LoginLinks = {l1}
    ResetLinks = {p1}
    Challenges = {c1}
    MaxWrongCodes = 2
    MaxCalls = 4
    MaxStep = 2
    MaxPasswords = 2
    MaxSessions = 2
    MaxFaults = 1
SYMMETRY Alike
INVARIANTS CodeSignsInOnce ChallengeSignsInOnce LinkWorksOnce GuessesBounded
PROPERTIES SecondFactor
CHECK_DEADLOCK FALSE
