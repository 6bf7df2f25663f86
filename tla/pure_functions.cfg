SPECIFICATION Spec
CONSTANTS
    HoursPerDay = 3
    Days = {0, 1, 2, 3}
    None = None
    Word <- SomeWords
    Searches <- SomeSearches
    Readings <- SomeReadings
INVARIANTS SharedNightsCompete NightsChargedAreStored SearchIsExact ReviewPagesAreExact
