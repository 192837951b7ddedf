CONSTANTS
    Targets = {t1, t2}
    Clients = {p1, p2}
    Company <- OneCompany
    Prefix <- OneTwoTwelve
    MaxRows = 2
    MaxScopes = 2
SPECIFICATION Spec
INVARIANTS
    ClockResumes
SYMMETRY SupplierSymmetry
CHECK_DEADLOCK FALSE
