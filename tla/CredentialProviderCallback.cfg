SPECIFICATION Spec
CONSTANTS
    t1 = t1
    t2 = t2
    Tile = {t1}
    NoTile = NoTile
    PerUser = 1
    UShortMax <- MCUShortMax
    Users <- OneUser
    UsageScenarios <- LogonOnly
    TypedPasswords = {}
    PhonePassword <- MCPhonePassword
INVARIANT CallbackIsValid
