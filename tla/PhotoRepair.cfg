\* One process that crashes and whose calls fail, under fair scheduling.
SPECIFICATION FairSpec
CONSTANTS
    Listings = {l1, l2}
    Urls = {u1}
    Procs = {p1}
    PhotoSweepBatch = 1
    MaxFaults = 2
    FetchesUndisturbed = FALSE
INVARIANT TypeOK
PROPERTY DanglingHeals
