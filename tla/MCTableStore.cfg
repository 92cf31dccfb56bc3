CONSTANTS
    Tables = {t}
    Cases = {low, mixed}
    LowerCase = low
    BatchCases = {low}
    OneTableBatch = TRUE
    RequestsApart = TRUE
    Keys = {k1, k2}
    Props = {p, q}
    MaxPolicies = 1
    NoEntity = NoEntity
    None = None
    Wildcard = Wildcard
    MaxOperations = 3
    MaxEtags = 4
    MaxIds = 2
SYMMETRY Symmetry
SPECIFICATION Spec
CHECK_DEADLOCK FALSE
INVARIANTS WellFormed
PROPERTIES ImplementsTableService BatchIsAtomic
