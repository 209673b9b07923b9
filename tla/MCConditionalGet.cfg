SPECIFICATION Spec
CONSTANTS
    list = list
    page2 = page2
    teams = teams
    edit = edit
    get1 = get1
    get2 = get2
    get3 = get3
    get4 = get4
    get5 = get5
    NoTag = NoTag
    Reads = {get1, get2, get3, get4, get5}
    Writes = {edit}
    Urls = {list, page2, teams}
    Path <- MCPath
    UrlOf <- MCUrlOf
    Target <- MCTarget
    Changes <- MCChanges
    Cap = 2
    MaxVersion = 1
    Edited = {list}
    Faults = {"fail"}
SYMMETRY Symmetry
CHECK_DEADLOCK FALSE
PROPERTY FreshRead
PROPERTY BareAnswersHaveACause
