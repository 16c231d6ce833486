\* A file of filings over the curated index.
SPECIFICATION ReportsSpec
CONSTANTS
    Companies = {"acme", "temps", "newco"}
    Postings = {"a", "b"}
    Needles = {"x", "senior"}
    Inputs <- MCInputs
    Queries <- MCQueries
    Scans = {1, 2}
    Limits <- MCLimits
    Seed <- MCSeed
    MAX_LIMIT = 3
    DEFAULT_LIMIT = 2
    Unset = Unset
    NoFile = NoFile
    Samples <- MCSamples
    Traffic <- MCTraffic
    Discounts <- MCDiscounts
    Cutoffs = {2, 4}
    MIN_SAMPLE = 2
INVARIANTS AgenciesHidden
CHECK_DEADLOCK FALSE
