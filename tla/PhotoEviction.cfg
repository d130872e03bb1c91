\* Two processes and two listings that share a photo; nothing fails.
SPECIFICATION Spec
CONSTANTS
    Listings = {l1, l2}
    Urls = {u1}
    Procs = {p1, p2}
    PhotoSweepBatch = 1
    MaxFaults = 0
    FetchesUndisturbed = TRUE
SYMMETRY Symmetry
INVARIANT DanglingIsTransient
PROPERTY SharedBytesKept
