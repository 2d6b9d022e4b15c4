\* Two groups, channels and users, three old events and a new one, two calls at a time.
SPECIFICATION AdminConsoleSpec
CONSTANTS
    MaxCalls = 2
    MaxClicks <- ClickBounds
    GroupIds = {g1, g2}
    OldGroups = {g1}
    Texts = {0, 1}
    TableRows = {c1, c2}
    Picked = {"", "r1"}
    ChannelIds = {c1, c2}
    OldChannels = {c1}
    UserIds = {u1, u2}
    OldUsers = {u1, u2}
    Self = u1
    MaxEvent = 5
    OldEvents = {1, 3, 4}
    Filters = {{1, 2, 3, 4, 5}, {1, 2, 4}}
    Limits = {1, 2}
INVARIANTS NothingIsStoredForAnother TableMatchesRange UsageAdminIsWhole AdminChartIsCurrent AdminFlagsFall
PROPERTY SeriesKeepsUp
CHECK_DEADLOCK FALSE
