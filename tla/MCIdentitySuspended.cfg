SPECIFICATION IdentitySpec
CONSTANTS
    s1 = s1
    s2 = s2
    s3 = s3
    t1 = t1
    t2 = t2
    r1 = r1
    r2 = r2
    Sessions = {s1, s2, s3}
    Tokens = {t1, t2}
    Requests = {r1, r2}
    MaxPasswords = 1
    MaxSuspensions = 1
    NoSession = NoSession
    NoToken = NoToken
    c1 = c1
    k1 = k1
    Ceremonies = {r1, r2}
    Challenges = {c1}
    Codes = {k1}
    MaxGenerations = 2
    MaxBatches = 2
    MaxTime = 1
    MaxAttempts = 1
    MfaRequired = FALSE
    NoChallenge = NoChallenge
    u1 = u1
    u2 = u2
    eA = eA
    eR = eR
    e1 = e1
    Accounts = {u1, u2}
    Official = u1
    Calls = {r1, r2}
    Emails = {eA, eR, e1}
    AccountEmail = eA
    RecoveryEmail = eR
    NoEmail = NoEmail
    RoleNames = {"SUPER_ADMIN", "STAFF"}
    MaxVersion = 2
    MaxFailures = 1
    g1 = g1
    g2 = g2
    Generations = {g1, g2}
    Areas = {"users", "access", "account", "factor", "consents", "crm", "opportunities", "companies", "legal", "requests", "knowledge", "inbox"}
    Forms = {"proposals"}
    Submissions <- FormsIn
    MaxWrites <- WritesIn
    MaxVisits <- VisitsIn
SYMMETRY Symmetry
INVARIANT
    ReactivationRestoresNothing
CHECK_DEADLOCK FALSE
