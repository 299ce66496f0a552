CONSTANTS
    Null = Null
    Absent = Absent
    NoType = NoType
    Unknown = Unknown
    AppTypes = {t1}
    EntityTypes = {e1}
    Locs = {l1, l2}
    UserKeys = {}
    Names <- MCNames
    OtherTabs = {otherTab}
    MaxEntities = 1
    MaxLocations = 1
    MaxFetches = 1
    MaxSubmits = 1
    ConfigGetsCanFail = FALSE
SPECIFICATION LiveSpec
\* Once the modal is hidden after a successful POST the wizard is done.
CHECK_DEADLOCK FALSE
PROPERTY
    LoadingEventuallyClears
