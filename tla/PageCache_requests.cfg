\* Two requests at a time; the second version of the page is empty.
SPECIFICATION FairCacheSpec
CONSTANTS
    Requests = {r1, r2}
    Nobody = Nobody
    MaxVersion = 3
    EmptyPages = {2}
    TTL = 2
    MaxFetch = 1
INVARIANTS
    PagesNeverGoBack
    FetchesOnlyWhenExpired
    ServedOnceServedAlways
PROPERTIES
    PagesAreRecent
    EveryRequestIsAnswered
