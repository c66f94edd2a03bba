SPECIFICATION PageSpec
CONSTANTS
    word = word
    store = store
    week = week
    Blank = Blank
    AnyDate = AnyDate
    Texts = {Blank, word}
    Facets = {store}
    Ranges = {AnyDate, week}
    Found <- MCFound
    PerPages = {1, 2}
    FirstPerPage = 1
    MaxRecent = 2
    MaxSearches = 3
    MaxMetas = 2
    MaxEdits = 1
    None = None
CHECK_DEADLOCK FALSE
INVARIANTS
    PageTypeOK
    LatestSearchWins
    MetaFollowsForm
    OwnEditStays
PROPERTY LoadingEnds
