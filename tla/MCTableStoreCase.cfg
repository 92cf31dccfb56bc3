CONSTANTS
    Tables = {t}
    Cases = {low, mixed}
    LowerCase = low
    BatchCases = {low, mixed}
    OneTableBatch = TRUE
    RequestsApart = TRUE
    Keys = {k1, k2}
    Props = {p, q}
    MaxPolicies = 1
    NoEntity = NoEntity
    None = None
    Wildcard = Wildcard
    MaxOperations = 2
    MaxEtags = 4
    MaxIds = 3
SYMMETRY Symmetry
SPECIFICATION Spec
CHECK_DEADLOCK FALSE
PROPERTIES BatchIsAtomic
