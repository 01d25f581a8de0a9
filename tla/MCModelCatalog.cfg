SPECIFICATION FairSpec
CONSTANTS
    Ids <- TwoSegmentIds
    BadIds <- UnusableIds
    Fallback <- BuiltIn
    Callers = {c1, c2}
    NoCaller = NoCaller
    OkTTL = 2
    RetryTTL = 1
    MaxTime = 4
INVARIANTS TypeOK NamesSurviveRefresh NamesResolve
PROPERTIES RefreshesArePaced AnswersAreCurrent LastGoodKept CallsReturn
