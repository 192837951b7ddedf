CONSTANTS
    Targets = {t1, t2}
    Clients = {p1}
    Company <- OneCompany
    Prefix <- OneTwoTwelve
    MaxRows = 3
    MaxScopes = 3
SPECIFICATION Spec
INVARIANTS
    AuthorizedWhileActive
SYMMETRY SupplierSymmetry
CHECK_DEADLOCK FALSE
