CONSTANTS
    None = None
    Wildcard = Wildcard
    NoDate = NoDate
    NoTags = NoTags
    LeaseIds = {l1}
    Lowercase <- MCLowercase
    MinDuration = 15
    MaxDuration = 60
    MaxBreakPeriod = 60
    Containers = {c1}
    Names = {a}
    Data = {x}
    BlockIds = {i}
    Times = {1}
    Access = {Private, Public}
    Private = Private
    MaxEtags = 2
    MaxOpen = 2
    MaxLen = 1
SPECIFICATION Spec
CHECK_DEADLOCK FALSE
PROPERTIES EtagIdentifiesContent AccessStands LeaseGuardsContent SerialImplementsBlobService
