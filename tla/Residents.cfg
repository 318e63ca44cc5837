SPECIFICATION FairSpec
CONSTANTS
    Users = {u1}
    Phones = {p1, p2}
    NoPhone = NoPhone
    Sites <- MCSites
    Units <- MCUnits
    SiteOf <- MCSiteOf
    Calls = {k1, k2}
    MaxResidences = 2
INVARIANTS
    ResidentIsMember
    OneHomePerPhone
    EndedOnce
    NoDeadlock
PROPERTIES
    CallsEnd
    ImplementsRegister
