SPECIFICATION FairSpec
CONSTANTS
    r1 = r1
    Requests = {r1}
    MaxAdded = 1
    MaxMishaps = 1
INVARIANTS
    ScraperInv
    DisabledScrapedAtMostOnce
    SelfScrapeAuthorized
PROPERTIES
    EnabledIsScraped
