SPECIFICATION FairSpec
CONSTANTS
    t1 = t1
    t2 = t2
    Tile = {t1}
    NoTile = NoTile
    PerUser = 1
    UShortMax <- MCUShortMax
    Users <- MCUsers
    UsageScenarios <- MCUsageScenarios
    TypedPasswords <- MCTypedPasswords
    PhonePassword <- MCPhonePassword
INVARIANT LsaReadsTheLogon
PROPERTIES
    StopReturns
    ApprovalIsOffered
    NoLogonLoop
