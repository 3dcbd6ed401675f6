\* One pod and one metric.
SPECIFICATION FairSpec
CONSTANTS
    Uids = {u1}
    Keys = {k1}
    Ttl = 1
    Interval = 1
    SampleTtl = 1
    MaxHappens = 3
INVARIANTS
    NewestSampleIsShown
PROPERTIES
    ViewConverges
    ScrapedIsFresh
CHECK_DEADLOCK FALSE
