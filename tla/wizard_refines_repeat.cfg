CONSTANTS
    Null = Null
    Absent = Absent
    NoType = NoType
    Unknown = Unknown
    AppTypes = {t1}
    EntityTypes = {e1}
    Locs = {l1}
    UserKeys = {}
    Names <- MCEmptyName
    OtherTabs = {}
    MaxEntities = 1
    MaxLocations = 1
    MaxFetches = 1
    MaxSubmits = 2
    ConfigGetsCanFail = TRUE
SPECIFICATION Spec
\* Once the modal is hidden after a successful POST the wizard is done.
CHECK_DEADLOCK FALSE
PROPERTY
    AbstractSpecRefinedWithRepeats
