\* Two requests at a time over two phones; every call may fail.
SPECIFICATION Spec
CONSTANTS
    Requests = {r1, r2}
    Phones = {p1, p2}
    Roles = {"landowner", "agent"}
    Kids = {k1, k2}
    FirstKid = k1
    Registered = {p2}
    MaxCodes = 2
INVARIANTS
    OneAccountPerPhone
    RolesFollowRow
    FetchedKeysStay
    StaleCodeIsRefused
SYMMETRY Symmetry
