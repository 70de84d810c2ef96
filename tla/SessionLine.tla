---------------------------- MODULE SessionLine ----------------------------
(***************************************************************************)
(* The mutation line of a Session (session/session.ts) with the settlement *)
(* of a transaction (session/transaction.ts), the cache of documents, and  *)
(* one watch (session/observation.ts).                                     *)
(*                                                                         *)
(* Storage holds one document address beside the tables.  Memory holds the *)
(* document as loaded for one version of its definition.  Jobs run on the  *)
(* line one at a time, in the order they were enqueued; a job that awaits  *)
(* keeps the line, while callers, readers of the cache, reads past the     *)
(* line, watches, failures and close go on beside it.                      *)
(***************************************************************************)
EXTENDS Integers, Sequences

CONSTANTS
  MaxRequests, \* bound: calls of commit(), numbered in the order they are made
  Readers,    \* calls of snapshot()
  Versions,   \* versions of the document's definition
  MaxPending, \* MAX_PENDING_WATCH_FRAMES
  MaxSweeps   \* bound: unloads and evictions queued on the line

ASSUME NumbersAssumption ==
  /\ MaxRequests \in Nat /\ MaxSweeps \in Nat
  /\ Versions \subseteq Nat /\ MaxPending \in Nat \ {0}

Requests == 1..MaxRequests
Nobody == 0

VARIABLES
  line,    \* jobs enqueued on #tail, the running one first
  req,     \* [Requests -> status of the call]
  batch,   \* what the running transaction stages: [what, ver]
  effect,  \* requests whose batch Storage holds
  doc,     \* the document in Storage: [inc, n, ver, live]
  cache,   \* #documents: [on, inc, n, ver, as]
  heard,   \* requests whose publication reached the scheduler's listener
  failed,  \* #failure is set
  phase,   \* close(): "open", "closing", "queued", "draining", "closed"
  scan,    \* a guarded call past the line is underway
  read,    \* [Readers -> [status, as, got, made]]
  watch,   \* the watch: [status: none, queued, on or ended; started, running, inc, as, at, queue]
  sweeps   \* how many evictions were queued

vars == <<line, req, batch, effect, doc, cache, heard, failed, phase, scan, read,
          watch, sweeps>>
store == <<effect, doc>>
session == <<failed, phase>>

Statuses == {"new", "queued", "change", "storing", "stored",
             "done", "empty", "refused", "lost"}
InTurn == {"change", "storing", "stored"}

\* Jobs.
CommitJob(r) == [kind |-> "commit", id |-> r]
ReadJob(d) == [kind |-> "read", id |-> d]
WatchJob == [kind |-> "watch", id |-> Nobody]
SweepJob == [kind |-> "sweep", id |-> Nobody]
CloseJob == [kind |-> "close", id |-> Nobody]
Jobs ==
  {CommitJob(r) : r \in Requests} \cup {ReadJob(d) : d \in Readers}
    \cup {WatchJob, SweepJob, CloseJob}

Runs(job) == line # <<>> /\ Head(line) = job

NoBatch == [what |-> "nothing", ver |-> 0]
NoDoc == [inc |-> 0, n |-> 0, ver |-> 0, live |-> FALSE]
NoCache == [on |-> FALSE, inc |-> 0, n |-> 0, ver |-> 0, as |-> 0]
NoRead == [status |-> "new", as |-> 0, got |-> 0, made |-> 0]
NoWatch == [status |-> "none", started |-> FALSE, running |-> "no",
            inc |-> 0, as |-> 0, at |-> [n |-> 0, as |-> 0], queue |-> <<>>]

\* assertUsable: asked when a call is made; a job on the line asks only whether
\* the Session failed meanwhile.
Usable == ~failed /\ phase = "open"

----------------------------------------------------------------------------
(* Documents.  n numbers the states of the address: each change, creation  *)
(* and retirement is a new one, a migration alone is not.                  *)

Whats == {"nothing", "table", "ops", "migrate", "create", "retire"}

\* What a batch makes of the stored document.
Stored(b) ==
  CASE b.what = "ops" -> [doc EXCEPT !.n = @ + 1, !.ver = b.ver]
    [] b.what = "migrate" -> [doc EXCEPT !.ver = b.ver]
    [] b.what = "create" ->
         [inc |-> doc.inc + 1, n |-> doc.n + 1, ver |-> b.ver, live |-> TRUE]
    [] b.what = "retire" -> [doc EXCEPT !.n = @ + 1, !.live = FALSE]
    [] OTHER -> doc

\* #loadDocument: the cached document, if it was made for this version; else
\* it is dropped and the current one, if any, comes from Storage.
Loaded(v) ==
  IF cache.on /\ cache.as = v THEN cache
  ELSE IF doc.live
  THEN [on |-> TRUE, inc |-> doc.inc, n |-> doc.n, ver |-> doc.ver, as |-> v]
  ELSE NoCache

\* checkRecordVersion: the stored document is not of a later version.
Readable(v) == doc.live => doc.ver <= v

\* Bug: a retired document stays in the cache.
Bug_AdoptedKeeps(b) ==
  CASE b.what = "ops" -> [cache EXCEPT !.n = @ + 1, !.ver = b.ver]
    [] b.what = "migrate" -> [cache EXCEPT !.ver = b.ver]
    [] b.what = "create" ->
         [on |-> TRUE, inc |-> doc.inc, n |-> doc.n, ver |-> b.ver, as |-> b.ver]
    [] OTHER -> cache
\* Transaction.adopt, after Storage took the batch: the tracker takes its
\* prepared change, a creation is installed, a retired incarnation leaves.
Adopted(b) ==
  CASE b.what = "ops" -> [cache EXCEPT !.n = @ + 1, !.ver = b.ver]
    [] b.what = "migrate" -> [cache EXCEPT !.ver = b.ver]
    [] b.what = "create" ->
         [on |-> TRUE, inc |-> doc.inc, n |-> doc.n, ver |-> b.ver, as |-> b.ver]
    [] b.what = "retire" -> IF cache.on /\ cache.inc = doc.inc THEN NoCache ELSE cache
    [] OTHER -> cache

\* #attachedDocuments: a live watch pins its incarnation.
Last(q) == q[Len(q)]
Retired(w) == w.running = "last" \/ (w.queue # <<>> /\ Last(w.queue).kind = "null")
Pinned(inc) == watch.status = "on" /\ watch.inc = inc /\ ~Retired(watch)

\* #sweepDocuments: an idle document may have outlived its retention.
Swept(c) == {c} \cup (IF c.on /\ ~Pinned(c.inc) THEN {NoCache} ELSE {})

----------------------------------------------------------------------------
(* The watch: an observer of one incarnation, fed by publications.         *)

\* A frame takes a value at the state from, made for a version, to another.
At(n, as) == [n |-> n, as |-> as]
Frame(kind, from, to) == [kind |-> kind, from |-> from, to |-> to]

\* CommittedWatch.#terminate, for whatever reason: nothing pending is delivered any
\* more, and the watch is over when its running listener returns.
Ended(w) ==
  IF w.status = "on"
  THEN [NoWatch EXCEPT !.status = "ended", !.running = w.running]
  ELSE w

\* Bug: a full queue loses its frames and keeps the newest operations.
Bug_PushedOverflow(q, frame) ==
  IF Len(q) >= MaxPending THEN <<frame>> ELSE Append(q, frame)
\* advance: a full queue becomes one replacement of the value by the newest.
Pushed(q, frame) ==
  IF Len(q) >= MaxPending
  THEN <<IF frame.kind = "null" THEN frame ELSE [frame EXCEPT !.kind = "root"]>>
  ELSE Append(q, frame)

\* observedOperations: operations extend the value of the version they are
\* written for; an observer of another one gets the value.
Frames(b) ==
  CASE b.what = "retire" -> {Frame("null", At(0, 0), At(doc.n, watch.as))}
    [] b.what \in {"ops", "migrate"} /\ b.ver # watch.as ->
         {Frame("root", At(0, 0), At(doc.n, b.ver))}
    [] b.what = "ops" /\ b.ver = watch.as ->
         {Frame("ops", At(doc.n - 1, b.ver), At(doc.n, b.ver))}
    [] OTHER -> {}

\* #attachDocument's commit listener.
Advanced(b) ==
  IF watch.status = "on" /\ watch.inc = doc.inc /\ ~Retired(watch) /\ Frames(b) # {}
  THEN LET frame == CHOOSE f \in Frames(b) : TRUE
       IN [watch EXCEPT !.queue = Pushed(@, frame),
                        !.as = frame.to.as]
  ELSE watch
----------------------------------------------------------------------------
(* Failure and close.                                                      *)

\* fail(): the first error wins, admission ends, close listeners run at once.
FailsWith(w) ==
  /\ failed' = TRUE
  /\ phase' = IF phase = "open" THEN "closing" ELSE phase
  /\ watch' = Ended(w)
Fails == FailsWith(watch)

Enqueue(job) == line' = Append(line, job)
Answer(r, status) ==
  /\ req' = [req EXCEPT ![r] = status]
  /\ line' = Tail(line)
  /\ batch' = NoBatch

\* close(): seals admission and ends observers; further calls join it.
Close ==
  /\ phase = "open" /\ phase' = "closing"
  /\ watch' = Ended(watch)
  /\ UNCHANGED <<line, req, batch, store, cache, heard, failed, scan, read, sweeps>>

\* beforeClose(): the scheduler joined its handlers; close takes its place.
Joined ==
  /\ phase = "closing" /\ phase' = "queued"
  /\ Enqueue(CloseJob)
  /\ UNCHANGED <<req, batch, store, cache, heard, failed, scan, read, watch, sweeps>>

\* Bug: a failed Session leaves its backend open.
Bug_CloseBegins ==
  /\ Runs(CloseJob) /\ phase = "queued" /\ ~failed /\ phase' = "draining"
  /\ cache' = NoCache
  /\ UNCHANGED <<line, req, batch, store, heard, failed, scan, read, watch, sweeps>>
\* The close job forgets what is in memory; the guard refuses new calls.
CloseBegins ==
  /\ Runs(CloseJob) /\ phase = "queued" /\ phase' = "draining"
  /\ cache' = NoCache
  /\ UNCHANGED <<line, req, batch, store, heard, failed, scan, read, watch, sweeps>>

\* GuardedStorage.close: after every call underway.  The backend's close may throw.
CloseEnds ==
  /\ phase = "draining" /\ ~scan
  /\ phase' = "closed" /\ line' = Tail(line)
  /\ failed' \in {failed, TRUE}
  /\ UNCHANGED <<req, batch, store, cache, heard, scan, read, watch, sweeps>>

----------------------------------------------------------------------------
(* Guarded calls past the line, as handlers make them: reads of tables.    *)

ScanBegins ==
  /\ ~failed /\ phase \notin {"draining", "closed"} /\ ~scan
  /\ scan' = TRUE
  /\ UNCHANGED <<line, req, batch, store, cache, heard, session, read, watch, sweeps>>

\* It answers, is refused (the Session failed meanwhile), or was invalid or
\* cancelled, which says nothing about Storage.
ScanEnds ==
  /\ scan /\ scan' = FALSE
  /\ UNCHANGED <<line, req, batch, store, cache, heard, session, read, watch, sweeps>>

\* Any other error fails the Session.
ScanFails ==
  /\ scan /\ ~failed /\ scan' = FALSE
  /\ Fails
  /\ UNCHANGED <<line, req, batch, store, cache, heard, read, sweeps>>

----------------------------------------------------------------------------
(* A commit.                                                               *)

Commit(r) ==
  /\ Usable /\ req[r] = "new" /\ \A p \in 1..(r - 1) : req[p] # "new"
  /\ req' = [req EXCEPT ![r] = "queued"]
  /\ Enqueue(CommitJob(r))
  /\ UNCHANGED <<batch, store, cache, heard, session, scan, read, watch, sweeps>>

\* The Session failed, or the caller cancelled, while the call waited.
CommitRefused(r) ==
  /\ Runs(CommitJob(r)) /\ req[r] = "queued"
  /\ Answer(r, IF failed THEN "lost" ELSE "refused")
  /\ UNCHANGED <<store, cache, heard, session, scan, read, watch, sweeps>>

CommitBegins(r) ==
  /\ Runs(CommitJob(r)) /\ req[r] = "queued" /\ ~failed
  /\ req' = [req EXCEPT ![r] = "change"]
  /\ UNCHANGED <<line, batch, store, cache, heard, session, scan, read, watch, sweeps>>

\* tx.doc(): the callback acquires the document for a version, once.
TxDoc(r, v) ==
  /\ req[r] = "change" /\ ~failed /\ batch = NoBatch /\ Readable(v)
  /\ cache' = Loaded(v)
  /\ batch' = [what |-> IF doc.live THEN "migrate" ELSE "create", ver |-> v]
  /\ UNCHANGED <<line, req, store, heard, session, scan, read, watch, sweeps>>

\* A read of the transaction fails in Storage.
TxReadFails(r) ==
  /\ req[r] = "change" /\ ~failed
  /\ Fails
  /\ UNCHANGED <<line, req, batch, store, cache, heard, scan, read, sweeps>>

\* What a callback may have staged: a loaded document changes, migrates if it
\* was stored by an older version, or retires; a missing one is created.
Stageable ==
  CASE batch.what = "nothing" ->
         {[what |-> w, ver |-> 0] : w \in {"nothing", "table"} \cup (IF doc.live THEN {"retire"} ELSE {})}
    [] batch.what = "create" -> {batch, [batch EXCEPT !.what = "table"]}
    [] OTHER ->
         {[batch EXCEPT !.what = w] : w \in {"ops", "retire"}}
           \cup (IF doc.ver < batch.ver THEN {batch} ELSE {[batch EXCEPT !.what = "nothing"]})

\* settleSuccess: every change is prepared and the batch goes to Storage.
CallbackReturns(r) ==
  /\ req[r] = "change" /\ ~failed
  /\ \E b \in Stageable :
       IF b.what = "nothing"
       THEN /\ Answer(r, "empty")
            /\ cache' \in Swept(cache)
       ELSE /\ batch' = b
            /\ req' = [req EXCEPT ![r] = "storing"]
            /\ UNCHANGED <<line, cache>>
  /\ UNCHANGED <<store, heard, session, scan, read, watch, sweeps>>

\* settleFailure: the callback threw, a check of settlement refused the batch,
\* or the Session failed under it.
CallbackThrows(r) ==
  /\ req[r] = "change"
  /\ Answer(r, IF failed THEN "lost" ELSE "refused")
  /\ cache' \in Swept(cache)
  /\ UNCHANGED <<store, heard, session, scan, read, watch, sweeps>>

\* Storage takes the whole batch.  Nobody knows yet.
StorageCommits(r) ==
  /\ req[r] = "storing"
  /\ req' = [req EXCEPT ![r] = "stored"]
  /\ effect' = effect \cup {r}
  /\ doc' = Stored(batch)
  /\ UNCHANGED <<line, batch, cache, heard, session, scan, read, watch, sweeps>>

\* Bug: an error that blames the request leaves the Session healthy.
Bug_StorageThrows(r) ==
  /\ req[r] \in {"storing", "stored"}
  /\ Answer(r, IF failed THEN "lost" ELSE "refused")
  /\ UNCHANGED <<store, cache, heard, session, scan, read, watch, sweeps>>
\* Storage throws before or after it took the batch: which, nobody knows.
StorageThrows(r) ==
  /\ req[r] \in {"storing", "stored"}
  /\ Answer(r, "lost")
  /\ Fails
  /\ UNCHANGED <<store, cache, heard, scan, read, sweeps>>

\* The guard drops an answer that comes after the Session failed.
AnswerDropped(r) ==
  /\ req[r] = "stored" /\ failed
  /\ Answer(r, "lost")
  /\ UNCHANGED <<store, cache, heard, session, scan, read, watch, sweeps>>

\* Adoption, publication and the inline sweep, in one turn of the event loop.
Publishes(r) ==
  /\ req[r] = "stored" /\ ~failed
  /\ Answer(r, "done")
  /\ heard' = heard \cup {r}
  /\ watch' = Advanced(batch)
  /\ cache' \in Swept(Adopted(batch))
  /\ UNCHANGED <<store, session, scan, read, sweeps>>

\* A component's listener throws: it lost a durable commit, so the Session
\* fails; the caller still gets its result.
ListenerThrows(r) ==
  /\ req[r] = "stored" /\ ~failed
  /\ Answer(r, "done")
  /\ cache' \in Swept(Adopted(batch))
  /\ Fails
  /\ UNCHANGED <<store, heard, scan, read, sweeps>>

\* Memory cannot follow what Storage already holds.
AdoptFails(r) ==
  /\ req[r] = "stored" /\ ~failed
  /\ Answer(r, "lost")
  /\ Fails
  /\ UNCHANGED <<store, cache, heard, scan, read, sweeps>>

----------------------------------------------------------------------------
(* Readers.                                                                *)

\* What a load for version v answers: the state of the address it found, and the
\* version the value was made for.
Value(v) == IF Loaded(v).on THEN [n |-> Loaded(v).n, as |-> Loaded(v).as]
            ELSE [n |-> doc.n, as |-> v]

\* snapshot(): a document cached for this version answers at once, whatever
\* runs on the line.
SnapshotCached(d, v) ==
  /\ Usable /\ read[d].status = "new" /\ cache.on /\ cache.as = v
  /\ read' = [read EXCEPT ![d] =
       [status |-> "answered", as |-> v, got |-> cache.n, made |-> cache.as]]
  /\ UNCHANGED <<line, req, batch, store, cache, heard, session, scan, watch, sweeps>>

SnapshotQueued(d, v) ==
  /\ Usable /\ read[d].status = "new" /\ ~(cache.on /\ cache.as = v)
  /\ read' = [read EXCEPT ![d].status = "queued", ![d].as = v]
  /\ Enqueue(ReadJob(d))
  /\ UNCHANGED <<req, batch, store, cache, heard, session, scan, watch, sweeps>>

LoadRuns(d) ==
  LET v == read[d].as IN
  /\ Runs(ReadJob(d)) /\ ~failed /\ Readable(v)
  /\ line' = Tail(line)
  /\ cache' = Loaded(v)
  /\ read' = [read EXCEPT ![d].status = "answered",
                          ![d].got = Value(v).n, ![d].made = Value(v).as]
  /\ UNCHANGED <<req, batch, store, heard, session, scan, watch, sweeps>>

\* The Session failed meanwhile, the document is of a later version, or the
\* reader cancelled.
LoadRefused(d) ==
  /\ Runs(ReadJob(d))
  /\ line' = Tail(line)
  /\ read' = [read EXCEPT ![d].status = "refused"]
  /\ UNCHANGED <<req, batch, store, cache, heard, session, scan, watch, sweeps>>

LoadFails(d) ==
  /\ Runs(ReadJob(d)) /\ ~failed /\ ~(cache.on /\ cache.as = read[d].as)
  /\ line' = Tail(line)
  /\ read' = [read EXCEPT ![d].status = "refused"]
  /\ cache' = NoCache
  /\ Fails
  /\ UNCHANGED <<req, batch, store, heard, scan, sweeps>>

\* A sweep is due, or the host unloads the documents.
SweepQueued ==
  /\ sweeps < MaxSweeps
  /\ sweeps' = sweeps + 1
  /\ Enqueue(SweepJob)
  /\ UNCHANGED <<req, batch, store, cache, heard, session, scan, read, watch>>

\* A sweep drops what is idle, unloadDocuments() also what is attached.
SweepRuns ==
  /\ Runs(SweepJob)
  /\ line' = Tail(line)
  /\ cache' \in {cache, NoCache}
  /\ UNCHANGED <<req, batch, store, heard, session, scan, read, watch, sweeps>>

----------------------------------------------------------------------------
(* The watch.                                                              *)

WatchDoc(v) ==
  /\ Usable /\ watch.status = "none"
  /\ watch' = [watch EXCEPT !.status = "queued", !.as = v]
  /\ Enqueue(WatchJob)
  /\ UNCHANGED <<req, batch, store, cache, heard, session, scan, read, sweeps>>

\* #attachDocument: the observer begins with the loaded value, pinned.
WatchRuns ==
  LET v == watch.as IN
  /\ Runs(WatchJob) /\ watch.status = "queued"
  /\ ~failed /\ phase = "open" /\ Readable(v)
  /\ line' = Tail(line)
  /\ cache' = Loaded(v)
  /\ watch' = IF Loaded(v).on
              THEN [watch EXCEPT !.status = "on", !.inc = Loaded(v).inc,
                                   !.at = At(Loaded(v).n, Loaded(v).as)]
              ELSE [NoWatch EXCEPT !.status = "ended"]
  /\ UNCHANGED <<req, batch, store, heard, session, scan, read, sweeps>>

\* As for a reader; closing refuses the subscriptions.
WatchRefused ==
  /\ Runs(WatchJob) /\ watch.status = "queued"
  /\ line' = Tail(line)
  /\ watch' = [NoWatch EXCEPT !.status = "ended"]
  /\ UNCHANGED <<req, batch, store, cache, heard, session, scan, read, sweeps>>

WatchLoadFails ==
  /\ Runs(WatchJob) /\ watch.status = "queued"
  /\ ~failed /\ ~(cache.on /\ cache.as = watch.as)
  /\ line' = Tail(line)
  /\ cache' = NoCache
  /\ FailsWith([NoWatch EXCEPT !.status = "ended"])
  /\ UNCHANGED <<req, batch, store, heard, scan, read, sweeps>>

WatchStarts ==
  /\ watch.status = "on" /\ ~watch.started
  /\ watch' = [watch EXCEPT !.started = TRUE]
  /\ UNCHANGED <<line, req, batch, store, cache, heard, session, scan, read, sweeps>>

\* #drain: one frame at a time; the listener's promise is awaited.
WatchDelivers ==
  /\ watch.status = "on" /\ watch.started /\ watch.running = "no" /\ watch.queue # <<>>
  /\ watch' = [watch EXCEPT
       !.queue = Tail(@), !.at = Head(watch.queue).to,
       !.running = IF Head(watch.queue).kind = "null" THEN "last" ELSE "yes"]
  /\ UNCHANGED <<line, req, batch, store, cache, heard, session, scan, read, sweeps>>

WatchListenerReturns ==
  /\ watch.running # "no"
  /\ watch' = [IF watch.running = "last" THEN Ended(watch) ELSE watch
               EXCEPT !.running = "no"]
  /\ UNCHANGED <<line, req, batch, store, cache, heard, session, scan, read, sweeps>>

WatchListenerThrows ==
  /\ watch.running # "no"
  /\ watch' = [Ended(watch) EXCEPT !.running = "no"]
  /\ UNCHANGED <<line, req, batch, store, cache, heard, session, scan, read, sweeps>>

WatchStops ==
  /\ watch.status = "on"
  /\ watch' = Ended(watch)
  /\ UNCHANGED <<line, req, batch, store, cache, heard, session, scan, read, sweeps>>

----------------------------------------------------------------------------
Init ==
  /\ line = <<>> /\ req = [r \in Requests |-> "new"] /\ batch = NoBatch
  /\ effect = {}
  /\ doc \in {NoDoc} \cup {[inc |-> 1, n |-> 1, ver |-> v, live |-> TRUE] : v \in Versions}
  /\ cache = NoCache /\ heard = {} /\ failed = FALSE /\ phase = "open"
  /\ scan = FALSE /\ read = [d \in Readers |-> NoRead] /\ watch = NoWatch
  /\ sweeps = 0

\* Steps of the job at the head of the line that bring it to its end, given
\* that callbacks settle and Storage answers.
CommitMoves(r) ==
  \/ CommitRefused(r) \/ CommitBegins(r) \/ CallbackReturns(r) \/ CallbackThrows(r)
  \/ StorageCommits(r) \/ StorageThrows(r) \/ AnswerDropped(r) \/ Publishes(r)
  \/ ListenerThrows(r) \/ AdoptFails(r)

LineMoves ==
  \/ CloseBegins \/ CloseEnds \/ SweepRuns \/ WatchRuns \/ WatchRefused
  \/ WatchLoadFails
  \/ \E r \in Requests : CommitMoves(r)
  \/ \E d \in Readers : LoadRuns(d) \/ LoadRefused(d) \/ LoadFails(d)

Next ==
  \/ LineMoves
  \/ Close \/ Joined \/ ScanBegins \/ ScanEnds \/ ScanFails \/ SweepQueued
  \/ WatchStarts \/ WatchDelivers \/ WatchListenerReturns \/ WatchListenerThrows
  \/ WatchStops
  \/ \E v \in Versions : WatchDoc(v)
  \/ \E r \in Requests :
       Commit(r) \/ TxReadFails(r) \/ \E v \in Versions : TxDoc(r, v)
  \/ \E d \in Readers, v \in Versions : SnapshotCached(d, v) \/ SnapshotQueued(d, v)

Spec == Init /\ [][Next]_vars
FairSpec == Spec /\ WF_vars(LineMoves) /\ WF_vars(Joined) /\ WF_vars(ScanEnds)

----------------------------------------------------------------------------
(* Properties.                                                             *)

Points == [n : Int, as : Versions \cup {0}]
Watches ==
  [status : {"none", "queued", "on", "ended"}, started : BOOLEAN,
   running : {"no", "yes", "last"}, inc : Nat, as : Versions \cup {0}, at : Points,
   queue : Seq([kind : {"ops", "root", "null"}, from : Points, to : Points])]
Reads ==
  [status : {"new", "queued", "answered", "refused"},
   as : Versions \cup {0}, got : Nat, made : Versions \cup {0}]

TypeOK ==
  /\ line \in Seq(Jobs) /\ req \in [Requests -> Statuses]
  /\ batch \in [what : Whats, ver : Versions \cup {0}]
  /\ effect \subseteq Requests /\ heard \subseteq Requests
  /\ doc \in [inc : Nat, n : Nat, ver : Versions \cup {0}, live : BOOLEAN]
  /\ cache \in [on : BOOLEAN, inc : Nat, n : Nat, ver : Versions \cup {0}, as : Versions \cup {0}]
  /\ failed \in BOOLEAN /\ scan \in BOOLEAN
  /\ phase \in {"open", "closing", "queued", "draining", "closed"}
  /\ read \in [Readers -> Reads] /\ watch \in Watches /\ sweeps \in Nat

\* A request as the journal sees it, whose turn it is, and what may still happen.
Stage == [r \in Requests |->
            IF req[r] = "queued" \/ req[r] \in InTurn THEN "asked" ELSE req[r]]
Turn == IF \E r \in Requests : req[r] \in InTurn
        THEN CHOOSE r \in Requests : req[r] \in InTurn ELSE Nobody
Alive == IF failed THEN "failed" ELSE IF phase = "closed" THEN "closed" ELSE "open"

\* A Session keeps the journal's promise: a commit answered "done" took effect,
\* once and in its turn, and was heard before the next one began; one refused
\* never did; and only a failed Session leaves it open.  (#runCommit, fail, close.)
J == INSTANCE Journal WITH
       stage <- Stage, turn <- Turn, None <- Nobody, durable <- effect,
       heard <- heard, alive <- Alive
KeepsJournal == J!Spec

\* The state of the address that publications have told so far.
Unadopted ==
  batch.what \in {"ops", "create", "retire"} /\ \E r \in Requests : req[r] = "stored"
Known == IF Unadopted THEN doc.n - 1 ELSE doc.n

\* A snapshot answers the newest published state of its document, made for the
\* version that was asked, though eviction, reloads for other versions, creation
\* and retirement race the read that never takes the line.
ReadsAreCurrent ==
  [][\A d \in Readers :
       read[d].status # "answered" /\ read'[d].status = "answered"
         => read'[d].got = Known /\ read'[d].made = read'[d].as]_vars

\* What a watch delivered and still holds replays without a gap to the newest
\* published state of the incarnation it watches, through an overflow of its
\* queue, a change of version and a retirement: operations only extend the value
\* and the version they were written for.
WatchIsGapless ==
  LET q == watch.queue
      Before(i) == IF i = 1 THEN watch.at ELSE q[i - 1].to
      Newest == IF q = <<>> THEN watch.at.n ELSE Last(q).to.n
  IN watch.status = "on" =>
       /\ \A i \in DOMAIN q :
            /\ q[i].kind = "ops" => q[i].from = Before(i)
            /\ q[i].kind = "null" => i = Len(q)
       /\ ~Retired(watch) => watch.inc = doc.inc /\ Newest = Known
       /\ Retired(watch) => Newest <= Known

\* Whatever fails, the Session comes to owe nobody an answer: every call made on it
\* is answered, and a close ends with the backend closed.  Nothing on the line waits
\* for the close it precedes.
Owes ==
  \/ \E r \in Requests : req[r] = "queued" \/ req[r] \in InTurn
  \/ \E d \in Readers : read[d].status = "queued"
  \/ watch.status = "queued"
  \/ phase \notin {"open", "closed"}
EveryoneIsAnswered == []<>~Owes
=============================================================================
