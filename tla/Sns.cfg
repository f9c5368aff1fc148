SPECIFICATION BatchSpec
CONSTANTS
    s1 = s1
    s2 = s2
    s3 = s3
    p1 = p1
    p2 = p2
    Message <- Messages
    Content <- Contents
    CertUrl = {"sns", "china", "other"}
    Address <- Addresses
    Slot = {s1, s2, s3}
    Process = {p1, p2}
    ProcessOf <- SlotsOf
    None = none
    EventCertDomains <- DefaultDomains
    VerifySignatures = TRUE
    GivesUp = TRUE
    MaxFaults = 1
    MaxCrashes = 1
INVARIANTS TypeOK RefusalHasCause ForgottenIsDone OnlyWhatSnsSigned
PROPERTIES CertificateKept GenuineGetsThrough
CHECK_DEADLOCK FALSE
