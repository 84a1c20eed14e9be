CONSTANTS
    c1 = c1
    c2 = c2
    uri = uri
    other = other
    x = x
    y = y
    Client <- MCClient
    NoClient = NoClient
    Queries <- MCQueries
    Redirects <- MCRedirects
    ValidUris = {uri}
    s1 = s1
    s2 = s2
    Slot <- MCSlot
    CodeTTL = 0
    AccessTTL = 0
    RefreshTTL = 0
    CsrfTTL = 0
    MaxNow = 1
    MaxForms = 1
    MaxCodes = 1
    MaxGrants = 3
    MaxProcess = 2
SYMMETRY SlotSymmetry
SPECIFICATION Spec
INVARIANTS
    GrantedOnce
    OneLinePerLogin
    HeldIsCurrent
    GrantKeepsClient
CHECK_DEADLOCK FALSE
