SPECIFICATION FairSpec
CONSTANTS
    Requests = {"r1"}
    Athletes = {"a", "b"}
    Order <- MCOrder
    Rows <- MCRows
    Pages = {"sitemap", "performances"}
    MaxVersion = 1
    Hour = 2
    Quarter = 1
    Day = 3
    MaxTook = 1
    MaxFailures = 1
    None = None
ACTION_CONSTRAINT OnePage
INVARIANTS
    ServesRecent
    RankingsExplained
PROPERTIES
    RankingsSettle
