\* Two tokens, three old events and a new one, pages of one and of two, two calls at a time.
SPECIFICATION UserConsoleSpec
CONSTANTS
    MaxCalls = 2
    MaxClicks <- ClickBounds
    Tokens = {t1, t2}
    OldTokens = {t1}
    MaxValue = 2
    Rows = {t1, t2}
    Groups = {g1}
    MaxEvent = 5
    OldEvents = {1, 3, 4}
    Filters = {{1, 2, 3, 4, 5}, {1, 2, 4}}
    Limits = {1, 2}
    Ranges = {r1, r2}
INVARIANTS RevealedIsCurrent DialogsKeepToTheirToken UsageWalkHasNoGap SignedInHasSession DashboardChartIsCurrent UserFlagsFall
CHECK_DEADLOCK FALSE
