----------------------------- MODULE PhotoCache -----------------------------
(***************************************************************************)
(* The thumbnail cache: the rows of listing_photos (internal/store), the   *)
(* bytes in the photo store (internal/photostore), and the crawler         *)
(* processes that fill and evict both (internal/ingest).  The database and *)
(* the byte store have no transaction in common: every statement on either *)
(* is one step, and a crash may fall between any two.                      *)
(*                                                                         *)
(* A photo is named by its source URL; its store key is a hash of that, so *)
(* listings with the same photo share the bytes, and a cached row points   *)
(* at the key of its own URL.  Positions in a gallery are left out.        *)
(***************************************************************************)
EXTENDS Naturals, FiniteSets

CONSTANTS
    Listings,
    Urls,
    Procs,              \* crawler processes
    PhotoSweepBatch,    \* rows freed by one statement of the sweep
    MaxFaults,          \* bound: crashes and failed calls
    FetchesUndisturbed  \* no eviction takes a key between its fetch and its row

ASSUME PhotoAssumption ==
    /\ PhotoSweepBatch \in Nat \ {0}
    /\ MaxFaults \in Nat
    /\ FetchesUndisturbed \in BOOLEAN

VARIABLES
    photo,   \* listing_photos: the <<listing, url>> with a row
    cached,  \* those whose cached_path is set
    fresh,   \* those of them refreshed within the TTL
    bytes,   \* urls whose thumbnail is in the store
    proc,    \* each process: its crawl loop, an eviction at a time
    worker,  \* each process: its photo worker
    faults   \* crashes and failed calls so far

vars == <<photo, cached, fresh, bytes, proc, worker, faults>>
rows == <<photo, cached, fresh>>

-----------------------------------------------------------------------------
Slots == Listings \X Urls

IdleProc == [pc |-> "idle", todo |-> {}, deleted |-> {}, next |-> {}, jobs |-> {}]
ProcState == [pc : {"idle", "delete", "forget"}, todo : SUBSET Urls,
              deleted : SUBSET Urls, next : SUBSET Slots, jobs : SUBSET Slots]

\* `job` is a set of at most one slot.
IdleWorker == [pc |-> "idle", job |-> {}, reused |-> FALSE]
WorkerState == [pc : {"idle", "stat", "fetch", "set", "recheck", "forget"},
                job : SUBSET Slots, reused : BOOLEAN]

TypeOK ==
    /\ photo \subseteq Slots
    /\ cached \subseteq photo
    /\ fresh \subseteq cached
    /\ bytes \subseteq Urls
    /\ proc \in [Procs -> ProcState]
    /\ worker \in [Procs -> WorkerState]
    /\ faults \in 0 .. MaxFaults

Init ==
    /\ photo = {}
    /\ cached = {}
    /\ fresh = {}
    /\ bytes = {}
    /\ proc = [p \in Procs |-> IdleProc]
    /\ worker = [p \in Procs |-> IdleWorker]
    /\ faults = 0

Fault == faults < MaxFaults /\ faults' = faults + 1

KeysOf(slots) == {s[2] : s \in slots}
Pointing(keys) == {s \in cached : s[2] \in keys}

\* The worker's url while it is between a miss and the row it will write.
Fetching(p) ==
    IF worker[p].pc = "fetch" \/ (worker[p].pc = "set" /\ ~worker[p].reused)
    THEN KeysOf(worker[p].job) ELSE {}

-----------------------------------------------------------------------------
(* Evictions: a statement frees rows and returns the keys no row still     *)
(* shows, then deleteKeys removes the bytes and forgets what it removed.   *)

\* Mutant: the keys of every freed row are deleted, shared or not.
UnsharedIgnored(gone) == KeysOf(gone)

Unshared(gone) == KeysOf(gone) \ KeysOf(cached \ gone)

\* deleteKeys starts on `keys`; the crawl loop continues with `next`.
Evict(p, keys, next) ==
    /\ FetchesUndisturbed => \A q \in Procs : keys \cap Fetching(q) = {}
    /\ proc' = IF keys = {}
               THEN [proc EXCEPT ![p].jobs = @ \cup next]
               ELSE [proc EXCEPT ![p].pc = "delete", ![p].todo = keys, ![p].next = next]

\* A search row that shows less of a known gallery leaves it alone.
KeepsGallery(l, g, enriched) ==
    LET known == {u \in Urls : <<l, u>> \in photo}
    IN  ~enriched /\ g # known /\ g \subseteq known

\* ApplySourceProperty's rewrite of a gallery, then deleteKeys and photos.add.
\* The photos to cache are the observation's, whatever became of the gallery.
ReplacePhotos(p, l, g, enriched) ==
    LET shown == {<<l, u>> : u \in g}
        displaced == {s \in cached : s[1] = l /\ s \notin shown}
    IN
    /\ proc[p].pc = "idle"
    /\ IF KeepsGallery(l, g, enriched)
       THEN UNCHANGED rows /\ Evict(p, {}, shown)
       ELSE /\ photo' = {s \in photo : s[1] # l} \cup shown
            /\ cached' = cached \ displaced
            /\ fresh' = fresh \ displaced
            /\ Evict(p, Unshared(displaced), shown)
    /\ UNCHANGED <<bytes, worker, faults>>

\* The crawl loop waits for its photo workers before it looks for absences or
\* the watch loop sweeps.
PhotosDone(p) == proc[p].pc = "idle" /\ proc[p].jobs = {} /\ worker[p].pc = "idle"

Free(p, slots) ==
    /\ cached' = cached \ slots
    /\ fresh' = fresh \ slots
    /\ Evict(p, Unshared(slots), {})
    /\ UNCHANGED <<photo, bytes, worker, faults>>

\* The listings a run delists lose their cached photos in the same statement.
MarkMissingSources(p, delisted) ==
    /\ PhotosDone(p)
    /\ \E s \in cached : s[1] \in delisted
    /\ Free(p, {s \in cached : s[1] \in delisted})

\* Mutant: only rows whose bytes are still there expire.
ExpiredWithBytes == {s \in cached \ fresh : s[2] \in bytes}

Expired == cached \ fresh

\* One batch of the TTL sweep: a full one, or the last.
FreeExpiredCachedPhotos(p) ==
    /\ PhotosDone(p)
    /\ \E slots \in (SUBSET Expired) \ {{}} :
          /\ \/ Cardinality(slots) = PhotoSweepBatch
             \/ slots = Expired /\ Cardinality(slots) < PhotoSweepBatch
          /\ Free(p, slots)

\* Where deleteKeys is with `left` still to delete.
DeletePc(left) == IF left = {} THEN "forget" ELSE "delete"

\* One key's bytes go.  A failed call leaves them, or removed them unnoticed.
DeleteKey(p) ==
    /\ proc[p].pc = "delete"
    /\ \E u \in proc[p].todo :
        LET left == proc[p].todo \ {u}
            gone == proc[p].deleted
        IN
        \/ /\ bytes' = bytes \ {u}
           /\ proc' = [proc EXCEPT ![p].pc = DeletePc(left), ![p].todo = left,
                                   ![p].deleted = gone \cup {u}]
           /\ UNCHANGED faults
        \/ /\ bytes' \in {bytes, bytes \ {u}}
           /\ proc' = [proc EXCEPT ![p].pc = DeletePc(left), ![p].todo = left]
           /\ Fault
    /\ UNCHANGED <<rows, worker>>

\* Rows that were pointed at the keys meanwhile no longer are.
ForgetPhotoKeys(keys) ==
    /\ cached' = cached \ Pointing(keys)
    /\ fresh' = fresh \ Pointing(keys)

\* The eviction ends: the keys deleted are forgotten, and the loop goes on.
ForgetDeleted(p) ==
    /\ proc[p].pc = "forget"
    /\ \/ ForgetPhotoKeys(proc[p].deleted) /\ UNCHANGED faults
       \/ UNCHANGED <<cached, fresh>> /\ Fault
    /\ proc' = [proc EXCEPT ![p] = [IdleProc EXCEPT
                    !.jobs = proc[p].jobs \cup proc[p].next]]
    /\ UNCHANGED <<photo, bytes, worker>>

-----------------------------------------------------------------------------
(* The photo worker.                                                       *)

EndJob(p) == worker' = [worker EXCEPT ![p] = IdleWorker]

\* A queued photo is taken up, or skipped: budget spent, context dead.
TakePhoto(p) ==
    /\ worker[p].pc = "idle"
    /\ \E s \in proc[p].jobs :
        /\ proc' = [proc EXCEPT ![p].jobs = @ \ {s}]
        /\ \/ worker' = [worker EXCEPT ![p] = [pc |-> "stat", job |-> {s},
                                               reused |-> FALSE]]
           \/ UNCHANGED worker
    /\ UNCHANGED <<rows, bytes, faults>>

\* Cache asks the store first: a hit is reused, a miss fetched.
StatPhoto(p) ==
    /\ worker[p].pc = "stat"
    /\ \E s \in worker[p].job :
        IF s[2] \in bytes
        THEN worker' = [worker EXCEPT ![p].pc = "set", ![p].reused = TRUE]
        ELSE /\ FetchesUndisturbed => \A q \in Procs : s[2] \notin proc[q].todo
             /\ worker' = [worker EXCEPT ![p].pc = "fetch"]
    /\ UNCHANGED <<rows, bytes, proc, faults>>

\* The thumbnail is fetched, shrunk and put; or the fetch fails.
PutPhoto(p) ==
    /\ worker[p].pc = "fetch"
    /\ \/ /\ bytes' = bytes \cup KeysOf(worker[p].job)
          /\ worker' = [worker EXCEPT ![p].pc = "set"]
       \/ UNCHANGED bytes /\ EndJob(p)
    /\ UNCHANGED <<rows, proc, faults>>

\* Mutant: the thumbnail lands whatever the row shows now.
AnyListingShows(p) == TRUE

ListingShows(p) == worker[p].job \subseteq photo

\* The row is written if the listing still shows the url.
SetPhotoCache(p) ==
    /\ worker[p].pc = "set"
    /\ \/ /\ ListingShows(p)
          /\ cached' = cached \cup worker[p].job
          /\ fresh' = fresh \cup worker[p].job
          /\ IF worker[p].reused
             THEN worker' = [worker EXCEPT ![p].pc = "recheck"]
             ELSE EndJob(p)
          /\ UNCHANGED faults
       \/ ~ListingShows(p) /\ EndJob(p) /\ UNCHANGED <<cached, fresh, faults>>
       \/ EndJob(p) /\ UNCHANGED <<cached, fresh>> /\ Fault
    /\ UNCHANGED <<photo, bytes, proc>>

\* Mutant: a reused key is not looked at again.
NeverGone(p) == FALSE

Gone(p) == KeysOf(worker[p].job) \cap bytes = {}

\* stillCached: a reused key whose bytes went is forgotten; a failed look
\* counts as found.
StillCached(p) ==
    /\ worker[p].pc = "recheck"
    /\ \/ /\ Gone(p)
          /\ worker' = [worker EXCEPT ![p].pc = "forget"]
          /\ UNCHANGED faults
       \/ ~Gone(p) /\ EndJob(p) /\ UNCHANGED faults
       \/ EndJob(p) /\ Fault
    /\ UNCHANGED <<rows, bytes, proc>>

ForgetMissing(p) ==
    /\ worker[p].pc = "forget"
    /\ \/ ForgetPhotoKeys(KeysOf(worker[p].job)) /\ UNCHANGED faults
       \/ UNCHANGED <<cached, fresh>> /\ Fault
    /\ EndJob(p)
    /\ UNCHANGED <<photo, bytes, proc>>

-----------------------------------------------------------------------------
\* The process dies with everything it held, and restarts.
Crash(p) ==
    /\ proc[p] # IdleProc \/ worker[p] # IdleWorker
    /\ Fault
    /\ proc' = [proc EXCEPT ![p] = IdleProc]
    /\ worker' = [worker EXCEPT ![p] = IdleWorker]
    /\ UNCHANGED <<rows, bytes>>

\* The TTL passes over a row.
RowAges(s) ==
    /\ s \in fresh
    /\ fresh' = fresh \ {s}
    /\ UNCHANGED <<photo, cached, bytes, proc, worker, faults>>

\* The sweep gets to row s: it goes on, oldest rows first, to a short page.
SweepReaches(s) == \E p \in Procs : s \in Expired /\ FreeExpiredCachedPhotos(p) /\ s \notin cached'

EvictStep(p) == DeleteKey(p) \/ ForgetDeleted(p)

WorkerStep(p) ==
    \/ TakePhoto(p)
    \/ StatPhoto(p)
    \/ PutPhoto(p)
    \/ SetPhotoCache(p)
    \/ StillCached(p)
    \/ ForgetMissing(p)

Next ==
    \/ \E p \in Procs, l \in Listings, g \in SUBSET Urls, e \in BOOLEAN :
          ReplacePhotos(p, l, g, e)
    \/ \E p \in Procs, gone \in SUBSET Listings : MarkMissingSources(p, gone)
    \/ \E p \in Procs : FreeExpiredCachedPhotos(p)
    \/ \E p \in Procs : EvictStep(p) \/ WorkerStep(p) \/ Crash(p)
    \/ \E s \in Slots : RowAges(s)

Spec == Init /\ [][Next]_vars

\* What was started goes on, a drain ends by its deadline and the watch loop
\* then sweeps, and clocks run.  Nothing is ever crawled or delisted for certain.
FairSpec ==
    /\ Spec
    /\ \A p \in Procs : []<>PhotosDone(p)
    /\ \A p \in Procs : WF_vars(EvictStep(p)) /\ WF_vars(WorkerStep(p))
    /\ \A s \in Slots : WF_vars(RowAges(s)) /\ SF_vars(SweepReaches(s))

-----------------------------------------------------------------------------
(* Properties.                                                             *)

\* A row that points at missing bytes: /img would serve nothing.
Dangling == {s \in cached : s[2] \notin bytes}

\* Somebody is on the way to forget it.
BeingForgotten(u) ==
    \E p \in Procs : \/ u \in proc[p].deleted
                     \/ worker[p].pc \in {"recheck", "forget"} /\ u \in KeysOf(worker[p].job)

\* /img never resolves to missing bytes for longer than it takes the process
\* that removed or reused them to forget the row, whatever galleries, delists
\* and sweeps interleave.
DanglingIsTransient ==
    faults = 0 => \A s \in Dangling : BeingForgotten(s[2])

\* An eviction takes no bytes that a row of another listing shows: rows at a
\* key about to be deleted were pointed at it after the eviction began.
SharedBytesKept ==
    [][\A p \in Procs : \A u \in proc'[p].todo \ proc[p].todo :
           \A s \in cached' : s[2] # u]_vars

\* After any crash or failure the TTL mends the cache: a row that points at
\* missing bytes is forgotten, or its photo is cached again.
DanglingHeals == \A s \in Slots : s \in Dangling ~> s \notin Dangling
=============================================================================
