CONSTANTS
    Targets = {t1, t2}
    Clients = {p1, p2, p3}
    Company <- OneCompany
    Prefix <- OneTwoTwelve
    MaxRows = 3
    MaxScopes = 4
SPECIFICATION Spec
INVARIANTS
    TypeOK
    OneActivePerSupplier
    ServedWhileActive
PROPERTIES
    EndedIsFinal
SYMMETRY SupplierSymmetry
CHECK_DEADLOCK FALSE
