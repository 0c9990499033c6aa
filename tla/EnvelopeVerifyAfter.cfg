\* Two processes and three requests in all: any two rekeyings after a protection,
\* and any two requests at the same time; one file is damaged;
\* a protection for recipients only is verified.
CONSTANTS
    p1 = p1  p2 = p2
    f = f  g = g  h = h
    pw = pw  pw2 = pw2  raw = raw  alice = alice  bob = bob
    Procs = {p1, p2}
    Names = {f, g, h}
    Passwords = {pw, pw2}
    RawKeys = {raw}
    PublicKeys = {alice, bob}
    NoCredential = NoCredential
    NoId = NoId
    MaxRecipients = 3
    Jobs <- MCJobsRecipientsOnly
    MaxJobs = 3
    MaxDamage = 1
SPECIFICATION Spec
INVARIANT VerifyAfterHolds
SYMMETRY SymmetricProcs
CHECK_DEADLOCK FALSE
