-------------------------- MODULE PhotoCacheProofs --------------------------
(* Type correctness of the thumbnail cache, that rows pointing at missing     *)
(* bytes are transient when nothing fails, and that evictions spare the bytes *)
(* other rows show.                                                           *)
EXTENDS PhotoCache, TLAPS

\* A photo worker that is not idle has one photo in hand.
WorkersHoldOne ==
    \A p \in Procs : IF worker[p].pc = "idle" THEN worker[p].job = {}
                     ELSE \E s \in Slots : worker[p].job = {s}

Shape == TypeOK /\ WorkersHoldOne

\* The keys of rows are urls.
LEMMA KeysAreUrls == \A S \in SUBSET Slots : KeysOf(S) \in SUBSET Urls
BY DEF KeysOf, Slots

\* The key of one row.
LEMMA KeyOfOne == \A s \in Slots : KeysOf({s}) = {s[2]}
BY DEF KeysOf

\* An eviction leaves the processes well typed.
LEMMA EvictTyped ==
    ASSUME TypeOK, NEW p \in Procs, NEW K \in SUBSET Urls, NEW n \in SUBSET Slots,
           Evict(p, K, n)
    PROVE  proc' \in [Procs -> ProcState]
<1>1. proc[p] \in ProcState
  BY DEF TypeOK
<1>2. [proc[p] EXCEPT !.jobs = @ \cup n] \in ProcState
  BY <1>1 DEF ProcState
<1>3. [proc[p] EXCEPT !.pc = "delete", !.todo = K, !.next = n] \in ProcState
  BY <1>1 DEF ProcState
<1> QED
  BY <1>2, <1>3 DEF Evict, TypeOK

\* Freeing rows keeps the types.
LEMMA FreeTyped ==
    ASSUME TypeOK, NEW p \in Procs, NEW S \in SUBSET Slots, Free(p, S)
    PROVE  TypeOK'
<1>1. Unshared(S) \in SUBSET Urls
  BY KeysAreUrls DEF Unshared
<1>2. proc' \in [Procs -> ProcState]
  BY <1>1, EvictTyped DEF Free
<1> QED
  BY <1>2 DEF Free, TypeOK

\* The worker's photo, once it has one, is a row's name.
LEMMA JobInHand ==
    ASSUME Shape, NEW p \in Procs, worker[p].pc # "idle"
    PROVE  \E s \in Slots : worker[p].job = {s} /\ KeysOf(worker[p].job) = {s[2]} /\ s[2] \in Urls
BY KeyOfOne DEF Shape, WorkersHoldOne, Slots

\* A worker that moves on keeps the shape.
LEMMA WorkerMoves ==
    ASSUME Shape, NEW p \in Procs, NEW w \in WorkerState, worker' = [worker EXCEPT ![p] = w],
           IF w.pc = "idle" THEN w.job = {} ELSE \E s \in Slots : w.job = {s}
    PROVE  worker' \in [Procs -> WorkerState] /\ WorkersHoldOne'
BY DEF Shape, TypeOK, WorkersHoldOne

\* A worker that ends its job keeps the shape.
LEMMA WorkerEnds ==
    ASSUME Shape, NEW p \in Procs, EndJob(p)
    PROVE  worker' \in [Procs -> WorkerState] /\ WorkersHoldOne'
<1>1. IdleWorker \in WorkerState /\ IdleWorker.pc = "idle" /\ IdleWorker.job = {}
  BY DEF IdleWorker, WorkerState
<1> QED
  BY <1>1, WorkerMoves DEF EndJob

\* A worker that goes on with its job keeps the shape.
LEMMA WorkerGoesOn ==
    ASSUME Shape, NEW p \in Procs, worker[p].pc # "idle",
           NEW c \in {"fetch", "set", "recheck", "forget"}, NEW r \in BOOLEAN,
           worker' = [worker EXCEPT ![p] = [@ EXCEPT !.pc = c, !.reused = r]]
    PROVE  worker' \in [Procs -> WorkerState] /\ WorkersHoldOne'
<1> DEFINE w == [worker[p] EXCEPT !.pc = c, !.reused = r]
<1>1. worker[p] \in WorkerState
  BY DEF Shape, TypeOK
<1>2. w \in WorkerState /\ w.pc = c /\ w.job = worker[p].job
  BY <1>1 DEF WorkerState
<1>3. \E s \in Slots : w.job = {s}
  BY <1>2, JobInHand
<1>4. worker' = [worker EXCEPT ![p] = w]
  OBVIOUS
<1> HIDE DEF w
<1> QED
  BY <1>2, <1>3, <1>4, WorkerMoves

\* The caches start empty and everybody idle.
LEMMA InitShape == Init => Shape
BY PhotoAssumption DEF Init, Shape, TypeOK, WorkersHoldOne, IdleProc, IdleWorker, ProcState,
   WorkerState

\* Every step keeps the shape, action by action.
LEMMA NextShape == Shape /\ [Next]_vars => Shape'
<1> SUFFICES ASSUME Shape, [Next]_vars PROVE Shape'
  OBVIOUS
<1>1. ASSUME NEW p \in Procs, NEW l \in Listings, NEW g \in SUBSET Urls, NEW e \in BOOLEAN,
             ReplacePhotos(p, l, g, e)
      PROVE  Shape'
  <2> DEFINE shown == {<<l, u>> : u \in g}
             displaced == {s \in cached : s[1] = l /\ s \notin shown}
  <2>1. shown \in SUBSET Slots /\ displaced \in SUBSET Slots /\ {} \in SUBSET Urls
    BY DEF Slots, Shape, TypeOK
  <2>2. Unshared(displaced) \in SUBSET Urls
    BY <2>1, KeysAreUrls DEF Unshared
  <2>3. proc' \in [Procs -> ProcState]
    <3>1. CASE KeepsGallery(l, g, e)
      <4>1. Evict(p, {}, shown)
        BY <1>1, <3>1 DEF ReplacePhotos
      <4> HIDE DEF shown
      <4> QED
        BY <4>1, <2>1, EvictTyped DEF Shape
    <3>2. CASE ~KeepsGallery(l, g, e)
      <4>1. Evict(p, Unshared(displaced), shown)
        BY <1>1, <3>2 DEF ReplacePhotos
      <4> HIDE DEF shown, displaced
      <4> QED
        BY <4>1, <2>1, <2>2, EvictTyped DEF Shape
    <3> QED
      BY <3>1, <3>2
  <2>4. photo' \subseteq Slots /\ cached' \subseteq photo' /\ fresh' \subseteq cached'
    BY <1>1, <2>1 DEF ReplacePhotos, rows, Shape, TypeOK, Slots
  <2> QED
    BY <1>1, <2>3, <2>4 DEF ReplacePhotos, Shape, TypeOK, WorkersHoldOne
<1>2. ASSUME NEW p \in Procs, NEW gone \in SUBSET Listings, MarkMissingSources(p, gone)
      PROVE  Shape'
  <2> DEFINE freed == {s \in cached : s[1] \in gone}
  <2>1. freed \in SUBSET Slots
    BY DEF Shape, TypeOK
  <2>2. Free(p, freed)
    BY <1>2 DEF MarkMissingSources
  <2> HIDE DEF freed
  <2> QED
    BY <2>1, <2>2, FreeTyped DEF Free, Shape, WorkersHoldOne
<1>3. ASSUME NEW p \in Procs, FreeExpiredCachedPhotos(p)
      PROVE  Shape'
  <2>1. PICK S \in SUBSET Expired : Free(p, S)
    BY <1>3 DEF FreeExpiredCachedPhotos
  <2>2. S \in SUBSET Slots
    BY DEF Expired, Shape, TypeOK
  <2> QED
    BY <2>1, <2>2, FreeTyped DEF Free, Shape, WorkersHoldOne
<1>4. ASSUME NEW p \in Procs, DeleteKey(p)
      PROVE  Shape'
  <2>1. PICK u \in proc[p].todo, c \in {"delete", "forget"} :
            /\ bytes' \subseteq bytes
            /\ \/ /\ proc' = [proc EXCEPT ![p].pc = c, ![p].todo = proc[p].todo \ {u},
                                          ![p].deleted = proc[p].deleted \cup {u}]
                  /\ faults' = faults
               \/ /\ proc' = [proc EXCEPT ![p].pc = c, ![p].todo = proc[p].todo \ {u}]
                  /\ Fault
    <3>1. \A S : DeletePc(S) \in {"delete", "forget"}
      BY DEF DeletePc
    <3> QED
      BY <1>4, <3>1 DEF DeleteKey
  <2>2. proc[p] \in ProcState /\ u \in Urls
    BY DEF Shape, TypeOK, ProcState
  <2>3. proc' \in [Procs -> ProcState]
    BY <2>1, <2>2 DEF Shape, TypeOK, ProcState
  <2>4. faults' \in 0 .. MaxFaults
    BY <2>1, PhotoAssumption DEF Fault, Shape, TypeOK
  <2> QED
    BY <1>4, <2>1, <2>3, <2>4 DEF DeleteKey, rows, Shape, TypeOK, WorkersHoldOne
<1>5. ASSUME NEW p \in Procs, ForgetDeleted(p)
      PROVE  Shape'
  BY <1>5, PhotoAssumption DEF ForgetDeleted, ForgetPhotoKeys, Pointing, Fault, IdleProc, Shape,
     TypeOK, ProcState, WorkersHoldOne
<1>6. ASSUME NEW p \in Procs, TakePhoto(p)
      PROVE  Shape'
  <2>1. PICK s \in proc[p].jobs :
            /\ proc' = [proc EXCEPT ![p].jobs = @ \ {s}]
            /\ \/ worker' = [worker EXCEPT ![p] = [pc |-> "stat", job |-> {s}, reused |-> FALSE]]
               \/ UNCHANGED worker
    BY <1>6 DEF TakePhoto
  <2>2. proc[p] \in ProcState /\ s \in Slots
    BY DEF Shape, TypeOK, ProcState
  <2>3. proc' \in [Procs -> ProcState]
    BY <2>1, <2>2 DEF Shape, TypeOK, ProcState
  <2> DEFINE w == [pc |-> "stat", job |-> {s}, reused |-> FALSE]
  <2>4. w \in WorkerState /\ w.pc # "idle" /\ w.job = {s}
    BY <2>2 DEF WorkerState
  <2> HIDE DEF w
  <2>5. worker' \in [Procs -> WorkerState] /\ WorkersHoldOne'
    <3>1. CASE worker' = [worker EXCEPT ![p] = w]
      BY <3>1, <2>2, <2>4, WorkerMoves
    <3>2. CASE UNCHANGED worker
      BY <3>2 DEF Shape, TypeOK, WorkersHoldOne
    <3> QED
      BY <2>1, <3>1, <3>2 DEF w
  <2> QED
    BY <1>6, <2>3, <2>5 DEF TakePhoto, rows, Shape, TypeOK
<1>7. ASSUME NEW p \in Procs, StatPhoto(p)
      PROVE  Shape'
  <2>1. \/ worker' = [worker EXCEPT ![p] = [@ EXCEPT !.pc = "set", !.reused = TRUE]]
        \/ worker' = [worker EXCEPT ![p] = [@ EXCEPT !.pc = "fetch", !.reused = worker[p].reused]]
    BY <1>7 DEF StatPhoto, Shape, TypeOK, WorkerState
  <2>2. worker[p].reused \in BOOLEAN /\ worker[p].pc # "idle"
    BY <1>7 DEF StatPhoto, Shape, TypeOK, WorkerState
  <2>3. worker' \in [Procs -> WorkerState] /\ WorkersHoldOne'
    BY <2>1, <2>2, WorkerGoesOn
  <2> QED
    BY <1>7, <2>3 DEF StatPhoto, rows, Shape, TypeOK
<1>8. ASSUME NEW p \in Procs, PutPhoto(p)
      PROVE  Shape'
  <2>1. KeysOf(worker[p].job) \in SUBSET Urls
    BY KeysAreUrls DEF Shape, TypeOK, WorkerState
  <2>2. \/ worker' = [worker EXCEPT ![p] = [@ EXCEPT !.pc = "set", !.reused = worker[p].reused]]
        \/ EndJob(p)
    BY <1>8 DEF PutPhoto, Shape, TypeOK, WorkerState
  <2>3. worker[p].reused \in BOOLEAN /\ worker[p].pc # "idle"
    BY <1>8 DEF PutPhoto, Shape, TypeOK, WorkerState
  <2>4. worker' \in [Procs -> WorkerState] /\ WorkersHoldOne'
    BY <2>2, <2>3, WorkerGoesOn, WorkerEnds
  <2> QED
    BY <1>8, <2>1, <2>4 DEF PutPhoto, rows, Shape, TypeOK
<1>9. ASSUME NEW p \in Procs, SetPhotoCache(p)
      PROVE  Shape'
  <2>1. \/ worker' = [worker EXCEPT ![p] = [@ EXCEPT !.pc = "recheck", !.reused = worker[p].reused]]
        \/ EndJob(p)
    BY <1>9 DEF SetPhotoCache, Shape, TypeOK, WorkerState
  <2>2. worker[p].reused \in BOOLEAN /\ worker[p].pc # "idle"
    BY <1>9 DEF SetPhotoCache, Shape, TypeOK, WorkerState
  <2>3. worker' \in [Procs -> WorkerState] /\ WorkersHoldOne'
    BY <2>1, <2>2, WorkerGoesOn, WorkerEnds
  <2>4. faults' \in 0 .. MaxFaults
    BY <1>9, PhotoAssumption DEF SetPhotoCache, Fault, Shape, TypeOK
  <2>5. cached' \subseteq photo' /\ fresh' \subseteq cached'
    BY <1>9 DEF SetPhotoCache, ListingShows, Shape, TypeOK
  <2> QED
    BY <1>9, <2>3, <2>4, <2>5 DEF SetPhotoCache, Shape, TypeOK
<1>10. ASSUME NEW p \in Procs, StillCached(p)
       PROVE  Shape'
  <2>1. \/ worker' = [worker EXCEPT ![p] = [@ EXCEPT !.pc = "forget", !.reused = worker[p].reused]]
        \/ EndJob(p)
    BY <1>10 DEF StillCached, Shape, TypeOK, WorkerState
  <2>2. worker[p].reused \in BOOLEAN /\ worker[p].pc # "idle"
    BY <1>10 DEF StillCached, Shape, TypeOK, WorkerState
  <2>3. worker' \in [Procs -> WorkerState] /\ WorkersHoldOne'
    BY <2>1, <2>2, WorkerGoesOn, WorkerEnds
  <2>4. faults' \in 0 .. MaxFaults
    BY <1>10, PhotoAssumption DEF StillCached, Fault, Shape, TypeOK
  <2> QED
    BY <1>10, <2>3, <2>4 DEF StillCached, rows, Shape, TypeOK
<1>11. ASSUME NEW p \in Procs, ForgetMissing(p)
       PROVE  Shape'
  BY <1>11, PhotoAssumption DEF ForgetMissing, ForgetPhotoKeys, Pointing, EndJob, IdleWorker,
     Fault, Shape, TypeOK, WorkerState, WorkersHoldOne
<1>12. ASSUME NEW p \in Procs, Crash(p)
       PROVE  Shape'
  BY <1>12, PhotoAssumption DEF Crash, IdleProc, IdleWorker, Fault, rows, Shape, TypeOK,
     ProcState, WorkerState, WorkersHoldOne
<1>13. ASSUME NEW s \in Slots, RowAges(s)
       PROVE  Shape'
  BY <1>13 DEF RowAges, Shape, TypeOK, WorkersHoldOne
<1>14. CASE UNCHANGED vars
  BY <1>14 DEF vars, Shape, TypeOK, WorkersHoldOne
<1> QED
  BY <1>1, <1>2, <1>3, <1>4, <1>5, <1>6, <1>7, <1>8, <1>9, <1>10, <1>11, <1>12, <1>13, <1>14
     DEF Next, EvictStep, WorkerStep

\* In every reachable state cached rows are rows of their gallery (no thumbnail
\* lands on a row that shows another url: SetPhotoCache) and everything is
\* well typed, for any number of processes, listings, photos and faults.
THEOREM TypeCorrect == Spec => []TypeOK
<1>1. Spec => []Shape
  BY InitShape, NextShape, PTL DEF Spec
<1>2. Shape => TypeOK
  BY DEF Shape
<1> QED
  BY <1>1, <1>2, PTL

-----------------------------------------------------------------------------
(* Dangling rows are transient: what a worker is fetching is in nobody's   *)
(* hands to delete, so the bytes it puts are there when it writes the row; *)
(* a row pointed at reused bytes is looked at again.                       *)

\* What no failure breaks, besides the property itself.
Unhurt ==
    /\ \A s \in Dangling : BeingForgotten(s[2])
    /\ \A p \in Procs : worker[p].pc = "set" /\ ~worker[p].reused
                        => KeysOf(worker[p].job) \subseteq bytes
    /\ \A p, q \in Procs : Fetching(p) \cap proc[q].todo = {}

FaultFree == Shape /\ (faults = 0 => Unhurt)

\* A fault is not undone.
LEMMA FaultsStay == ASSUME TypeOK, Fault PROVE faults' # 0
BY PhotoAssumption DEF TypeOK, Fault

\* Freeing rows and starting to delete keys nobody fetches hurts nothing.
LEMMA EvictUnhurt ==
    ASSUME FetchesUndisturbed, Shape, Unhurt, NEW p \in Procs, NEW K, NEW n, Evict(p, K, n),
           cached' \subseteq cached, UNCHANGED <<bytes, worker>>
    PROVE  Unhurt'
<1>1. \A q \in Procs : /\ proc'[q].deleted = proc[q].deleted
                       /\ \/ proc'[q].todo = proc[q].todo
                          \/ proc'[q].todo = K
  BY DEF Evict, Shape, TypeOK, ProcState
<1>2. \A q \in Procs : K \cap Fetching(q) = {}
  BY DEF Evict
<1>3. \A q \in Procs : Fetching(q)' = Fetching(q)
  BY DEF Fetching
<1>4. \A s \in Dangling' : s \in Dangling
  BY DEF Dangling
<1>5. \A u : BeingForgotten(u) => BeingForgotten(u)'
  BY <1>1 DEF BeingForgotten
<1>6. \A q, r \in Procs : Fetching(q)' \cap proc'[r].todo = {}
  BY <1>1, <1>2, <1>3 DEF Unhurt
<1> QED
  BY <1>4, <1>5, <1>6 DEF Unhurt

\* A worker's step that leaves the rows and their processes alone: it hurts
\* nothing if p gives up no row that dangles, fetches nothing that is being
\* deleted, and has put what it is about to write.
LEMMA WorkerUnhurt ==
    ASSUME Shape, Unhurt, NEW p \in Procs, NEW w, worker' = [worker EXCEPT ![p] = w],
           cached' = cached, bytes \subseteq bytes',
           \A q \in Procs : proc'[q].todo = proc[q].todo /\ proc'[q].deleted = proc[q].deleted,
           worker[p].pc \in {"recheck", "forget"}
              => \/ KeysOf(worker[p].job) \subseteq bytes
                 \/ w.pc = "forget" /\ w.job = worker[p].job,
           w.pc = "set" /\ ~w.reused => KeysOf(w.job) \subseteq bytes',
           (w.pc = "fetch" \/ (w.pc = "set" /\ ~w.reused))
              => \A q \in Procs : KeysOf(w.job) \cap proc[q].todo = {}
    PROVE  Unhurt'
<1>1. worker'[p] = w /\ \A q \in Procs \ {p} : worker'[q] = worker[q]
  BY DEF Shape, TypeOK
<1>2. \A s \in Dangling' : s \in Dangling /\ s[2] \notin bytes
  BY DEF Dangling
<1>3. \A u : BeingForgotten(u) /\ u \notin bytes => BeingForgotten(u)'
  BY <1>1 DEF BeingForgotten
<1>4. \A q \in Procs : worker'[q].pc = "set" /\ ~worker'[q].reused
                       => KeysOf(worker'[q].job) \subseteq bytes'
  BY <1>1 DEF Unhurt
<1>5. \A q, r \in Procs : Fetching(q)' \cap proc'[r].todo = {}
  BY <1>1 DEF Unhurt, Fetching
<1> QED
  BY <1>2, <1>3, <1>4, <1>5 DEF Unhurt

\* A step without a fault hurts nothing, action by action.
LEMMA NextUnhurt ==
    ASSUME FetchesUndisturbed, Shape, Unhurt, [Next]_vars, faults' = 0
    PROVE  Unhurt'
<1> USE DEF Shape
<1>1. ASSUME NEW p \in Procs, NEW l \in Listings, NEW g \in SUBSET Urls, NEW e \in BOOLEAN,
             ReplacePhotos(p, l, g, e)
      PROVE  Unhurt'
  <2>1. \E K, n : Evict(p, K, n)
    BY <1>1 DEF ReplacePhotos
  <2>2. cached' \subseteq cached /\ UNCHANGED <<bytes, worker>>
    BY <1>1 DEF ReplacePhotos, rows
  <2> QED
    BY <2>1, <2>2, EvictUnhurt
<1>2. ASSUME NEW p \in Procs, NEW slots, Free(p, slots)
      PROVE  Unhurt'
  BY <1>2, EvictUnhurt DEF Free
<1>3. ASSUME NEW p \in Procs, DeleteKey(p)
      PROVE  Unhurt'
  <2>1. PICK u \in proc[p].todo, c \in {"delete", "forget"} :
            /\ bytes' = bytes \ {u}
            /\ proc' = [proc EXCEPT ![p].pc = c, ![p].todo = proc[p].todo \ {u},
                                    ![p].deleted = proc[p].deleted \cup {u}]
    <3>1. \A S : DeletePc(S) \in {"delete", "forget"}
      BY DEF DeletePc
    <3> QED
      BY <1>3, <3>1, FaultsStay DEF DeleteKey
  <2>2. /\ proc'[p].deleted = proc[p].deleted \cup {u}
        /\ \A q \in Procs : /\ proc'[q].todo \subseteq proc[q].todo
                            /\ proc[q].deleted \subseteq proc'[q].deleted
    BY <2>1 DEF TypeOK, ProcState
  <2>3. UNCHANGED <<cached, worker>>
    BY <1>3 DEF DeleteKey, rows
  <2>4. \A q \in Procs : Fetching(q)' = Fetching(q) /\ u \notin Fetching(q)
    BY <2>3 DEF Fetching, Unhurt
  <2>5. \A s \in Dangling' : s \in Dangling \/ s[2] = u
    BY <2>1, <2>3 DEF Dangling
  <2>6. \A v : BeingForgotten(v) \/ v = u => BeingForgotten(v)'
    BY <2>2, <2>3 DEF BeingForgotten
  <2>7. \A q \in Procs : worker'[q].pc = "set" /\ ~worker'[q].reused
                         => KeysOf(worker'[q].job) \subseteq bytes'
    BY <2>1, <2>3, <2>4 DEF Unhurt, Fetching
  <2>8. \A q, r \in Procs : Fetching(q)' \cap proc'[r].todo = {}
    BY <2>2, <2>4 DEF Unhurt
  <2> QED
    BY <2>5, <2>6, <2>7, <2>8 DEF Unhurt
<1>4. ASSUME NEW p \in Procs, ForgetDeleted(p)
      PROVE  Unhurt'
  <2>1. /\ cached' = cached \ Pointing(proc[p].deleted)
        /\ UNCHANGED <<bytes, worker>>
    BY <1>4, FaultsStay DEF ForgetDeleted, ForgetPhotoKeys
  <2>2. /\ proc'[p].todo = {}
        /\ \A q \in Procs \ {p} : proc'[q] = proc[q]
    BY <1>4 DEF ForgetDeleted, IdleProc, TypeOK
  <2>3. \A s \in Dangling' : s \in Dangling /\ s[2] \notin proc[p].deleted
    BY <2>1 DEF Dangling, Pointing
  <2>4. \A u : BeingForgotten(u) /\ u \notin proc[p].deleted => BeingForgotten(u)'
    BY <2>1, <2>2 DEF BeingForgotten
  <2>5. \A q, r \in Procs : Fetching(q)' \cap proc'[r].todo = {}
    BY <2>1, <2>2 DEF Unhurt, Fetching
  <2> QED
    BY <2>1, <2>3, <2>4, <2>5 DEF Unhurt
<1>5. ASSUME NEW p \in Procs, TakePhoto(p)
      PROVE  Unhurt'
  <2>1. PICK w : worker' = [worker EXCEPT ![p] = w] /\ w.pc \in {"idle", "stat"}
    <3>1. CASE worker' = worker
      <4>1. worker' = [worker EXCEPT ![p] = worker[p]] /\ worker[p].pc = "idle"
        BY <1>5, <3>1 DEF TakePhoto, TypeOK
      <4> QED
        BY <4>1
    <3>2. ASSUME NEW s,
                 worker' = [worker EXCEPT ![p] = [pc |-> "stat", job |-> {s}, reused |-> FALSE]]
          PROVE  \E w : worker' = [worker EXCEPT ![p] = w] /\ w.pc \in {"idle", "stat"}
      <4>1. [pc |-> "stat", job |-> {s}, reused |-> FALSE].pc = "stat"
        OBVIOUS
      <4> QED
        BY <3>2, <4>1
    <3> QED
      BY <1>5, <3>1, <3>2 DEF TakePhoto
  <2>2. \A q \in Procs : proc'[q].todo = proc[q].todo /\ proc'[q].deleted = proc[q].deleted
    BY <1>5 DEF TakePhoto, TypeOK, ProcState
  <2>3. UNCHANGED <<cached, bytes>> /\ worker[p].pc = "idle"
    BY <1>5 DEF TakePhoto, rows
  <2> QED
    BY <2>1, <2>2, <2>3, WorkerUnhurt
<1>6. ASSUME NEW p \in Procs, StatPhoto(p)
      PROVE  Unhurt'
  <2>1. UNCHANGED <<cached, bytes, proc>> /\ worker[p].pc = "stat"
    BY <1>6 DEF StatPhoto, rows
  <2>2. PICK s \in Slots : worker[p].job = {s} /\ KeysOf(worker[p].job) = {s[2]}
    BY <2>1, JobInHand
  <2> DEFINE hit == [worker[p] EXCEPT !.pc = "set", !.reused = TRUE]
             miss == [worker[p] EXCEPT !.pc = "fetch"]
  <2>3. \/ worker' = [worker EXCEPT ![p] = hit]
        \/ /\ worker' = [worker EXCEPT ![p] = miss]
           /\ \A q \in Procs : s[2] \notin proc[q].todo
    BY <1>6, <2>2 DEF StatPhoto, TypeOK
  <2>4. /\ hit.pc = "set" /\ hit.reused
        /\ miss.pc = "fetch" /\ miss.job = worker[p].job
    BY DEF TypeOK, WorkerState
  <2> HIDE DEF hit, miss
  <2>5. CASE worker' = [worker EXCEPT ![p] = hit]
    BY <2>1, <2>4, <2>5, WorkerUnhurt
  <2>6. CASE worker' = [worker EXCEPT ![p] = miss] /\ \A q \in Procs : s[2] \notin proc[q].todo
    <3>1. \A q \in Procs : KeysOf(miss.job) \cap proc[q].todo = {}
      BY <2>2, <2>4, <2>6
    <3> QED
      BY <2>1, <2>4, <2>6, <3>1, WorkerUnhurt
  <2> QED
    BY <2>3, <2>5, <2>6
<1>7. ASSUME NEW p \in Procs, PutPhoto(p)
      PROVE  Unhurt'
  <2>1. /\ UNCHANGED <<cached, proc>> /\ bytes \subseteq bytes' /\ worker[p].pc = "fetch"
        /\ \A q \in Procs : KeysOf(worker[p].job) \cap proc[q].todo = {}
    BY <1>7 DEF PutPhoto, rows, Unhurt, Fetching
  <2> DEFINE put == [worker[p] EXCEPT !.pc = "set"]
  <2>2. \/ worker' = [worker EXCEPT ![p] = put] /\ bytes' = bytes \cup KeysOf(worker[p].job)
        \/ worker' = [worker EXCEPT ![p] = IdleWorker]
    BY <1>7 DEF PutPhoto, EndJob, TypeOK
  <2>3. put.pc = "set" /\ put.job = worker[p].job /\ IdleWorker.pc = "idle"
    BY DEF TypeOK, WorkerState, IdleWorker
  <2> HIDE DEF put
  <2> QED
    BY <2>1, <2>2, <2>3, WorkerUnhurt
<1>8. ASSUME NEW p \in Procs, SetPhotoCache(p)
      PROVE  Unhurt'
  <2>1. UNCHANGED <<bytes, proc>> /\ worker[p].pc = "set"
    BY <1>8 DEF SetPhotoCache
  <2>2. PICK s \in Slots : worker[p].job = {s} /\ KeysOf(worker[p].job) = {s[2]}
    BY <2>1, JobInHand
  <2> DEFINE check == [worker[p] EXCEPT !.pc = "recheck"]
  <2>3. \/ worker' = [worker EXCEPT ![p] = check] /\ worker[p].reused /\ cached' = cached \cup {s}
        \/ worker' = [worker EXCEPT ![p] = IdleWorker] /\ ~worker[p].reused /\ cached' = cached \cup {s}
        \/ worker' = [worker EXCEPT ![p] = IdleWorker] /\ cached' = cached
    BY <1>8, <2>2, FaultsStay DEF SetPhotoCache, EndJob, TypeOK
  <2>4. /\ check.pc = "recheck" /\ check.job = worker[p].job
        /\ IdleWorker.pc = "idle"
    BY DEF TypeOK, WorkerState, IdleWorker
  <2> HIDE DEF check
  <2>5. /\ worker'[p] \in {check, IdleWorker}
        /\ \A q \in Procs \ {p} : worker'[q] = worker[q]
    BY <2>3 DEF TypeOK
  <2>6. \A u : BeingForgotten(u) => BeingForgotten(u)'
    BY <2>1, <2>5 DEF BeingForgotten
  <2>7. \A q \in Procs : Fetching(q)' \subseteq Fetching(q)
    BY <2>4, <2>5 DEF Fetching
  <2>8. ASSUME NEW d \in Dangling'
        PROVE  BeingForgotten(d[2])'
    <3>1. CASE d \in Dangling
      BY <3>1, <2>6 DEF Unhurt
    <3>2. CASE d \notin Dangling
      <4>1. d = s /\ s[2] \notin bytes /\ s \in cached' /\ s \notin cached
        BY <3>2, <2>1, <2>3 DEF Dangling
      <4>2. worker[p].reused
        BY <4>1, <2>1, <2>2 DEF Unhurt
      <4>3. worker'[p] = check
        BY <4>1, <4>2, <2>3 DEF TypeOK
      <4> QED
        BY <4>1, <4>3, <2>2, <2>4 DEF BeingForgotten
    <3> QED
      BY <3>1, <3>2
  <2>9. \A q \in Procs : worker'[q].pc = "set" /\ ~worker'[q].reused
                         => KeysOf(worker'[q].job) \subseteq bytes'
    BY <2>1, <2>4, <2>5 DEF Unhurt
  <2>10. \A q, r \in Procs : Fetching(q)' \cap proc'[r].todo = {}
    BY <2>1, <2>7 DEF Unhurt
  <2> QED
    BY <2>8, <2>9, <2>10 DEF Unhurt
<1>9. ASSUME NEW p \in Procs, StillCached(p)
      PROVE  Unhurt'
  <2>1. UNCHANGED <<cached, bytes, proc>> /\ worker[p].pc = "recheck"
    BY <1>9 DEF StillCached, rows
  <2>2. PICK s \in Slots : worker[p].job = {s} /\ KeysOf(worker[p].job) = {s[2]}
    BY <2>1, JobInHand
  <2> DEFINE forget == [worker[p] EXCEPT !.pc = "forget"]
  <2>3. \/ worker' = [worker EXCEPT ![p] = forget]
        \/ worker' = [worker EXCEPT ![p] = IdleWorker] /\ KeysOf(worker[p].job) \subseteq bytes
    BY <1>9, <2>2, FaultsStay DEF StillCached, Gone, EndJob, TypeOK
  <2>4. /\ forget.pc = "forget" /\ forget.job = worker[p].job
        /\ IdleWorker.pc = "idle"
    BY DEF TypeOK, WorkerState, IdleWorker
  <2> HIDE DEF forget
  <2> QED
    BY <2>1, <2>3, <2>4, WorkerUnhurt
<1>10. ASSUME NEW p \in Procs, ForgetMissing(p)
       PROVE  Unhurt'
  <2>1. /\ cached' = cached \ Pointing(KeysOf(worker[p].job))
        /\ UNCHANGED <<bytes, proc>>
        /\ worker' = [worker EXCEPT ![p] = IdleWorker]
    BY <1>10, FaultsStay DEF ForgetMissing, ForgetPhotoKeys, EndJob
  <2>2. /\ worker'[p] = IdleWorker /\ IdleWorker.pc = "idle"
        /\ \A q \in Procs \ {p} : worker'[q] = worker[q]
    BY <2>1 DEF TypeOK, IdleWorker
  <2>3. \A d \in Dangling' : d \in Dangling /\ d[2] \notin KeysOf(worker[p].job)
    BY <2>1 DEF Dangling, Pointing
  <2>4. \A u : BeingForgotten(u) /\ u \notin KeysOf(worker[p].job) => BeingForgotten(u)'
    BY <2>1, <2>2 DEF BeingForgotten
  <2>5. \A q \in Procs : Fetching(q)' \subseteq Fetching(q)
    BY <2>2 DEF Fetching
  <2>6. \A q \in Procs : worker'[q].pc = "set" /\ ~worker'[q].reused
                         => KeysOf(worker'[q].job) \subseteq bytes'
    BY <2>1, <2>2 DEF Unhurt
  <2> QED
    BY <2>1, <2>3, <2>4, <2>5, <2>6 DEF Unhurt
<1>11. ASSUME NEW p \in Procs, Crash(p)
       PROVE  Unhurt'
  BY <1>11, FaultsStay DEF Crash
<1>12. ASSUME UNCHANGED <<cached, bytes, proc, worker>>
       PROVE  Unhurt'
  BY <1>12 DEF Unhurt, Dangling, BeingForgotten, Fetching
<1> QED
  BY <1>1, <1>2, <1>3, <1>4, <1>5, <1>6, <1>7, <1>8, <1>9, <1>10, <1>11, <1>12
     DEF Next, MarkMissingSources, FreeExpiredCachedPhotos, EvictStep, WorkerStep, RowAges, vars

\* While no process crashes and no call fails, /img never resolves to missing
\* bytes but for rows somebody is about to forget, for any number of processes,
\* listings and photos, however galleries, delists and sweeps interleave: if
\* no eviction takes a key between its fetch and its row.
THEOREM DanglingTransient ==
    ASSUME FetchesUndisturbed
    PROVE  Spec => []DanglingIsTransient
<1>1. Init => FaultFree
  BY InitShape DEF Init, FaultFree, Unhurt, Dangling, Fetching, IdleWorker, IdleProc
<1>2. FaultFree /\ [Next]_vars => FaultFree'
  <2> SUFFICES ASSUME FaultFree, [Next]_vars PROVE FaultFree'
    OBVIOUS
  <2>1. Shape'
    BY NextShape DEF FaultFree
  <2>2. ASSUME faults' = 0 PROVE faults = 0
    <3>1. faults' \in {faults, faults + 1} /\ faults \in Nat
      <4>1. faults \in Nat
        BY PhotoAssumption DEF FaultFree, Shape, TypeOK
      <4>2. faults' = faults \/ Fault
        BY DEF Next, ReplacePhotos, MarkMissingSources, FreeExpiredCachedPhotos, Free, EvictStep,
           DeleteKey, ForgetDeleted, WorkerStep, TakePhoto, StatPhoto, PutPhoto, SetPhotoCache,
           StillCached, ForgetMissing, Crash, RowAges, vars
      <4> QED
        BY <4>1, <4>2 DEF Fault
    <3> QED
      BY <2>2, <3>1
  <2> QED
    BY <2>1, <2>2, NextUnhurt DEF FaultFree
<1>3. FaultFree => DanglingIsTransient
  BY DEF FaultFree, Unhurt, DanglingIsTransient
<1> QED
  BY <1>1, <1>2, <1>3, PTL DEF Spec
-----------------------------------------------------------------------------
(* Shared bytes outlive an eviction.                                       *)

\* An eviction of freed rows lists no key that a row still shows.
LEMMA EvictSpares ==
    ASSUME TypeOK, NEW p \in Procs, NEW gone, NEW next, Evict(p, Unshared(gone), next),
           cached' = cached \ gone, NEW q \in Procs, NEW u \in proc'[q].todo \ proc[q].todo,
           NEW s \in cached'
    PROVE  s[2] # u
<1>1. u \in Unshared(gone)
  BY DEF Evict, TypeOK, ProcState
<1>2. s[2] \in KeysOf(cached \ gone)
  BY DEF KeysOf
<1> QED
  BY <1>1, <1>2 DEF Unshared

\* Nothing but the start of an eviction lists keys to delete.
LEMMA OnlyEvictionsList ==
    ASSUME TypeOK, [Next]_vars, NEW q \in Procs, NEW u \in proc'[q].todo \ proc[q].todo
    PROVE  \/ \E p \in Procs, slots \in SUBSET Slots : Free(p, slots)
           \/ \E p \in Procs, l \in Listings, g \in SUBSET Urls, e \in BOOLEAN :
                 ReplacePhotos(p, l, g, e)
<1>1. ASSUME NEW p \in Procs, EvictStep(p) \/ WorkerStep(p) \/ Crash(p)
      PROVE  FALSE
  <2>1. DeleteKey(p) => proc'[q].todo \subseteq proc[q].todo
    BY DEF DeleteKey, TypeOK, ProcState
  <2>2. ForgetDeleted(p) \/ Crash(p) => proc'[q].todo \subseteq proc[q].todo
    BY DEF ForgetDeleted, Crash, IdleProc, TypeOK, ProcState
  <2>3. WorkerStep(p) => proc'[q].todo = proc[q].todo
    BY DEF WorkerStep, TakePhoto, StatPhoto, PutPhoto, SetPhotoCache, StillCached,
       ForgetMissing, TypeOK, ProcState
  <2> QED
    BY <1>1, <2>1, <2>2, <2>3 DEF EvictStep
<1>2. ASSUME NEW p \in Procs, NEW gone \in SUBSET Listings, MarkMissingSources(p, gone)
      PROVE  \E slots \in SUBSET Slots : Free(p, slots)
  <2>1. {s \in cached : s[1] \in gone} \in SUBSET Slots
    BY DEF TypeOK
  <2> QED
    BY <1>2, <2>1 DEF MarkMissingSources
<1>3. ASSUME NEW p \in Procs, FreeExpiredCachedPhotos(p)
      PROVE  \E slots \in SUBSET Slots : Free(p, slots)
  BY <1>3 DEF FreeExpiredCachedPhotos, Expired, TypeOK
<1>4. ASSUME NEW s \in Slots, RowAges(s)
      PROVE  FALSE
  BY <1>4 DEF RowAges
<1> QED
  BY <1>1, <1>2, <1>3, <1>4 DEF Next, vars

\* An eviction takes no bytes that a row of another listing shows, whatever
\* crashes and failed calls there are (ReplacePhotos, MarkMissingSources and
\* FreeExpiredCachedPhotos return only the keys no row shows any more).
THEOREM SharedBytesSurvive == Spec => SharedBytesKept
<1>1. Shape /\ [Next]_vars =>
          [\A p \in Procs : \A u \in proc'[p].todo \ proc[p].todo :
               \A s \in cached' : s[2] # u]_vars
  <2> SUFFICES ASSUME Shape, [Next]_vars, NEW q \in Procs,
                      NEW u \in proc'[q].todo \ proc[q].todo, NEW s \in cached'
               PROVE  s[2] # u
    OBVIOUS
  <2>1. ASSUME NEW p \in Procs, NEW slots \in SUBSET Slots, Free(p, slots)
        PROVE  s[2] # u
    BY <2>1, EvictSpares DEF Free, Shape
  <2>2. ASSUME NEW p \in Procs, NEW l \in Listings, NEW g \in SUBSET Urls, NEW e \in BOOLEAN,
               ReplacePhotos(p, l, g, e)
        PROVE  s[2] # u
    <3> DEFINE shown == {<<l, v>> : v \in g}
               displaced == {r \in cached : r[1] = l /\ r \notin shown}
    <3>1. \/ Evict(p, {}, shown)
          \/ Evict(p, Unshared(displaced), shown) /\ cached' = cached \ displaced
      BY <2>2 DEF ReplacePhotos
    <3>2. ~Evict(p, {}, shown)
      BY DEF Evict, Shape, TypeOK, ProcState
    <3> HIDE DEF shown, displaced
    <3> QED
      BY <3>1, <3>2, EvictSpares DEF Shape
  <2> QED
    BY <2>1, <2>2, OnlyEvictionsList DEF Shape
<1> QED
  BY <1>1, InitShape, NextShape, PTL DEF Spec, SharedBytesKept
=============================================================================
