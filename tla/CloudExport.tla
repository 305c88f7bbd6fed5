---------------------------- MODULE CloudExport ----------------------------
(***************************************************************************)
(* The backups a family keeps in the cloud (cloud-export-service.ts).  A   *)
(* request only queues one; the export-build job builds it later; a parent *)
(* downloads it, restores from it, or deletes it.  The job is started      *)
(* every five minutes, from AWS and from the family's own server, so two   *)
(* of its runs may overlap, and a run may be killed at any step.           *)
(*                                                                         *)
(* A repository call is a step.  Exports of one family are numbered in the *)
(* order of their creation, and a number also names the stored object:     *)
(* s3Key holds a PIN of its own for each.                                  *)
(***************************************************************************)
EXTENDS Integers, FiniteSets

CONSTANTS
    MaxExports,     \* exports ever made (bound)
    Quota,          \* maxCloudExports of the plan
    MaxDownloads,   \* maxDownloads of an export
    Expiring,       \* exports that are kept until expires_at (bound)
    Limit,          \* exports one run of the job takes
    Workers,        \* runs of the job at a time (bound)
    Sessions,       \* requests in flight at a time (bound)
    Outlives,       \* TRUE: a build may still run after ten minutes (no timeout kills it)
    Refuses,        \* TRUE: the storage may fail to delete
    NoWorker

CloudExportAssumption ==
    /\ MaxExports \in Nat /\ Quota \in Nat /\ MaxDownloads \in Nat /\ Limit \in Nat
    /\ Expiring \subseteq Nat /\ IsFiniteSet(Sessions) /\ Sessions # {}
    /\ Outlives \in BOOLEAN /\ Refuses \in BOOLEAN
    /\ NoWorker \notin Workers

Exports == 1 .. MaxExports

VARIABLES
    row,        \* status column of each row ("none": not made, "gone": deleted)
    stale,      \* rows whose build began more than ten minutes ago
    expired,    \* rows past expires_at
    downloads,  \* download_count of each row
    store,      \* the objects in S3 or on disk
    job,        \* the run of the job each worker is at
    request,    \* the request each session is at
    asked       \* history of the deletion of an export: "sure" when it was ready or failed
                \* by then, "unsure" when it was not, or when the storage refused

vars == <<row, stale, expired, downloads, store, job, request, asked>>

Live(e)  == row[e] \notin {"none", "gone"}
Final(e) == row[e] \in {"ready", "failed"}
Kept     == {e \in Exports : Live(e)}

Resting == [at |-> "idle", todo |-> {}, exp |-> 0]
Quiet   == [at |-> "idle", exp |-> 0]

Builds(w, e) == job[w].at \in {"build", "ready"} /\ job[w].exp = e

Init == /\ row = [e \in Exports |-> "none"]
        /\ stale = {} /\ expired = {} /\ store = {}
        /\ downloads = [e \in Exports |-> 0]
        /\ job = [w \in Workers |-> Resting]
        /\ request = [s \in Sessions |-> Quiet]
        /\ asked = [e \in Exports |-> "no"]

----------------------------------------------------------------------------
\* The table cloud_exports.

HeldReady == Cardinality({e \in Exports : row[e] = "ready"})

\* countByTenant counts every row, expired and used up ones too.
Held == Cardinality(Kept)

\* updateStatus: whatever the row holds; no row, no update.
SetStatus(e, s) == /\ row' = [row EXCEPT ![e] = IF Live(e) THEN s ELSE @]
                   /\ stale' = stale \ {e}

ClaimableTwice(e) == row[e] \in {"pending", "building"}

\* claimForBuild.
Claimable(e) == row[e] = "pending"

StaleAtOnce == {e \in Exports : row[e] = "building"}
StaleNever  == {e \in stale : row[e] = "pending"}

\* findStaleBuildingExports.
Stale == {e \in stale : row[e] = "building"}

\* findPendingBuilds: the oldest come first.
Pending == {e \in Exports : row[e] = "pending"}
Oldest  == {e \in Pending : Cardinality({d \in Pending : d < e}) < Limit}

----------------------------------------------------------------------------
\* The export-build job.

GoJob(w, at, todo, e) == job' = [job EXCEPT ![w] = [at |-> at, todo |-> todo, exp |-> e]]

\* The loop of drainPendingExports ends with its list.
GoOn(w, todo) == GoJob(w, IF todo = {} THEN "idle" ELSE "pick", todo, 0)

\* drainPendingExports lists the builds that were given up; a run that finds nothing to do at
\* all is no step.
Begin(w) == /\ job[w].at = "idle"
            /\ \/ Stale # {} /\ GoJob(w, "reclaim", Stale, 0)
               \/ Stale = {} /\ Oldest # {} /\ GoJob(w, "pick", Oldest, 0)
            /\ UNCHANGED <<row, stale, expired, downloads, store, request, asked>>

Reclaim(w) == /\ job[w].at = "reclaim" /\ job[w].todo # {}
              /\ \E e \in job[w].todo : /\ SetStatus(e, "failed")
                                        /\ GoJob(w, "reclaim", job[w].todo \ {e}, 0)
              /\ UNCHANGED <<expired, downloads, store, request, asked>>

\* findPendingBuilds.
List(w) == /\ job[w].at = "reclaim" /\ job[w].todo = {}
           /\ GoOn(w, Oldest)
           /\ UNCHANGED <<row, stale, expired, downloads, store, request, asked>>

\* Another run may have claimed the export first.
Claim(w) == /\ job[w].at = "pick"
            /\ \E e \in job[w].todo :
                   LET rest == job[w].todo \ {e}
                   IN  /\ \A d \in job[w].todo : e <= d
                       /\ IF Claimable(e)
                          THEN SetStatus(e, "building") /\ GoJob(w, "build", rest, e)
                          ELSE GoOn(w, rest) /\ UNCHANGED <<row, stale>>
            /\ UNCHANGED <<expired, downloads, store, request, asked>>

SaveMarked(w) == /\ job[w].at = "build"
                 /\ SetStatus(job[w].exp, "ready")
                 /\ GoJob(w, "ready", job[w].todo, job[w].exp)
                 /\ UNCHANGED <<expired, downloads, store, request, asked>>

Save(w) == /\ job[w].at = "build"
           /\ store' = store \cup {job[w].exp}
           /\ GoJob(w, "ready", job[w].todo, job[w].exp)
           /\ UNCHANGED <<row, stale, expired, downloads, request, asked>>

MarkReady(w) == /\ job[w].at = "ready"
                /\ SetStatus(job[w].exp, "ready")
                /\ GoOn(w, job[w].todo)
                /\ UNCHANGED <<expired, downloads, store, request, asked>>

\* The build, the upload or the update has thrown.
MarkFailed(w) == /\ job[w].at \in {"build", "ready"}
                 /\ SetStatus(job[w].exp, "failed")
                 /\ GoOn(w, job[w].todo)
                 /\ UNCHANGED <<expired, downloads, store, request, asked>>

\* The time budget is spent, or the run is killed at any step.
Stop(w) == /\ job[w].at # "idle"
           /\ job' = [job EXCEPT ![w] = Resting]
           /\ UNCHANGED <<row, stale, expired, downloads, store, request, asked>>

----------------------------------------------------------------------------
\* The requests.

GoRequest(s, at, e) == request' = [request EXCEPT ![s] = [at |-> at, exp |-> e]]

\* createCloudExport counts, and then inserts.
AskCreate(s) == /\ request[s].at = "idle"
                /\ Held < Quota
                /\ GoRequest(s, "insert", 0)
                /\ UNCHANGED <<row, stale, expired, downloads, store, job, asked>>

Insert(s) == /\ request[s].at = "insert"
             /\ \E e \in Exports :
                    /\ row[e] = "none" /\ \A d \in Exports : d < e => row[d] # "none"
                    /\ row' = [row EXCEPT ![e] = "pending"]
             /\ GoRequest(s, "idle", 0)
             /\ UNCHANGED <<stale, expired, downloads, store, job, asked>>

\* deleteCloudExport looks the row up, erases the object, and deletes the row.
AskDelete(s, e) == /\ request[s].at = "idle"
                   /\ Live(e)
                   /\ GoRequest(s, "erase", e)
                   /\ asked' = [asked EXCEPT ![e] = IF Final(e) /\ @ # "unsure" THEN "sure"
                                                                                ELSE "unsure"]
                   /\ UNCHANGED <<row, stale, expired, downloads, store, job>>

Erase(s) == /\ request[s].at = "erase"
            /\ store' = store \ {request[s].exp}
            /\ GoRequest(s, "unlist", request[s].exp)
            /\ UNCHANGED <<row, stale, expired, downloads, job, asked>>

\* The storage refuses; the code only logs it.
EraseFails(s) == /\ Refuses /\ request[s].at = "erase"
                 /\ asked' = [asked EXCEPT ![request[s].exp] = "unsure"]
                 /\ GoRequest(s, "unlist", request[s].exp)
                 /\ UNCHANGED <<row, stale, expired, downloads, store, job>>

Unlist(s) == /\ request[s].at = "unlist"
             /\ row' = [row EXCEPT ![request[s].exp] = "gone"]
             /\ stale' = stale \ {request[s].exp}
             /\ expired' = expired \ {request[s].exp}
             /\ downloads' = [downloads EXCEPT ![request[s].exp] = 0]
             /\ GoRequest(s, "idle", 0)
             /\ UNCHANGED <<store, job, asked>>

Usable(e) == Live(e) /\ e \notin expired /\ downloads[e] < MaxDownloads

\* The download route; a presigned URL is made whether or not the object is there.
Download(s, e) == /\ request[s].at = "idle"
                  /\ Usable(e) /\ row[e] = "ready"
                  /\ GoRequest(s, "count", e)
                  /\ UNCHANGED <<row, stale, expired, downloads, store, job, asked>>

\* fetchCloudExportByPin does not ask for the status, only for the object.
Import(s, e) == /\ request[s].at = "idle"
                /\ Usable(e) /\ e \in store
                /\ GoRequest(s, "count", e)
                /\ UNCHANGED <<row, stale, expired, downloads, store, job, asked>>

\* incrementDownloadCount; a restore counts when it has succeeded, a preview never.
Count(s) == /\ request[s].at = "count"
            /\ downloads' = [downloads EXCEPT ![request[s].exp] =
                                IF Live(request[s].exp) THEN @ + 1 ELSE @]
            /\ GoRequest(s, "idle", 0)
            /\ UNCHANGED <<row, stale, expired, store, job, asked>>

\* The row cannot be deleted, or the request is killed.
Abandon(s) == /\ request[s].at = "unlist"
              /\ GoRequest(s, "idle", 0)
              /\ UNCHANGED <<row, stale, expired, downloads, store, job, asked>>

----------------------------------------------------------------------------
\* Time.

\* Ten minutes pass after a claim; a run on AWS is killed after thirty seconds.
GoStale(e) == /\ row[e] = "building" /\ e \notin stale
              /\ Outlives \/ \A w \in Workers : ~Builds(w, e)
              /\ stale' = stale \cup {e}
              /\ UNCHANGED <<row, expired, downloads, store, job, request, asked>>

Expire(e) == /\ e \in Expiring \ expired /\ Live(e)
             /\ expired' = expired \cup {e}
             /\ UNCHANGED <<row, stale, downloads, store, job, request, asked>>

JobStep(w) == \/ Begin(w)
              \/ Reclaim(w)
              \/ List(w)
              \/ Claim(w)
              \/ Save(w)
              \/ MarkReady(w)
              \/ MarkFailed(w)
              \/ Stop(w)

RequestStep(s) == \/ AskCreate(s)
                  \/ Insert(s)
                  \/ Erase(s)
                  \/ EraseFails(s)
                  \/ Unlist(s)
                  \/ Count(s)
                  \/ Abandon(s)

Next == \/ \E w \in Workers : JobStep(w)
        \/ \E s \in Sessions : RequestStep(s)
        \/ \E s \in Sessions, e \in Exports : AskDelete(s, e)
        \/ \E s \in Sessions, e \in Exports : Download(s, e)
        \/ \E s \in Sessions, e \in Exports : Import(s, e)
        \/ \E e \in Exports : GoStale(e)
        \/ \E e \in Exports : Expire(e)

Spec == Init /\ [][Next]_vars

(* The scheduler keeps starting the job, and a run is not stopped every    *)
(* time at the same step; ten minutes pass.  Requests owe nothing.         *)
Fairness == /\ \A w \in Workers : /\ WF_vars(Begin(w))
                                  /\ SF_vars(Reclaim(w))
                                  /\ SF_vars(List(w))
                                  /\ SF_vars(Claim(w))
                                  /\ WF_vars(Save(w))
                                  /\ WF_vars(MarkReady(w))
            /\ \A e \in Exports : WF_vars(GoStale(e))

FairSpec == Spec /\ Fairness

----------------------------------------------------------------------------
Status == {"none", "pending", "building", "ready", "failed", "gone"}

\* Every variable has its type.
TypeOK == /\ row \in [Exports -> Status]
          /\ stale \subseteq Exports /\ expired \subseteq Exports /\ store \subseteq Exports
          /\ downloads \in [Exports -> Nat]
          /\ job \in [Workers -> [at : {"idle", "reclaim", "pick", "build", "ready"},
                                  todo : SUBSET Exports, exp : Exports \cup {0}]]
          /\ request \in [Sessions -> [at : {"idle", "insert", "erase", "unlist", "count"},
                                       exp : Exports \cup {0}]]
          /\ asked \in [Exports -> {"no", "sure", "unsure"}]

\* Whoever builds an export is alone with it, and nobody has settled it meanwhile: neither
\* another run that listed it too (claimForBuild) nor the reclaim of builds thought dead.
BuiltByOne == \A w \in Workers, e \in Exports :
    Builds(w, e) => /\ row[e] \in {"building", "gone"}
                    /\ \A v \in Workers : Builds(v, e) => v = w

\* A list shows an export as ready only when its object is in the store, unless a deletion of
\* it has begun (drainPendingExports saves before it marks).
ReadyIsStored == \A e \in Exports : row[e] = "ready" /\ asked[e] = "no" => e \in store

\* Deleting an export that was ready or failed takes its object along for good, when the
\* storage obeys: no run of the job can still write it back (deleteCloudExport).
DeletedIsErased == \A e \in Exports : row[e] = "gone" /\ asked[e] = "sure" => e \notin store

\* The store follows the rows through overlapping builds and deletions.
FilesFollowRows == ReadyIsStored /\ DeletedIsErased

\* The count and the insert of a request are apart, so the plan's quota may be passed, but
\* only by as many exports as there are other requests at that moment (createCloudExport).
Inserting == {s \in Sessions : request[s].at = "insert"}
QuotaNearlyKept == Held + Cardinality(Inserting) <= Quota + Cardinality(Sessions) - 1

\* The queue keeps its promise, for jobs and for the workers that build them.
builder == [e \in Exports |-> IF \E w \in Workers : Builds(w, e)
                              THEN CHOOSE w \in Workers : Builds(w, e) ELSE NoWorker]
Job == INSTANCE ExportJob WITH status <- row, builder <- builder

\* Every step of the service is a step of the queue that is promised, or none.
KeepsPromise == Job!Spec

\* A queued export does not stay queued, or under construction, for ever (reclaim and drain).
QueueSettles == Job!Settles

\* What the docs say of deletion: the file in the store goes too, for every export.
DeleteTakesFile == \A e \in Exports :
    row[e] = "gone" /\ (\A w \in Workers : ~Builds(w, e))
        => e \notin store

\* What the refusal of a further export says: delete one of those you see.
Listed(e) == Live(e) /\ e \notin expired /\ (row[e] = "ready" => downloads[e] < MaxDownloads)
RefusedSeesWhy == Held >= Quota /\ (\A e \in Kept : Final(e)) => \E e \in Exports : Listed(e)

\* What the plans say: at most so many exports at a time.
QuotaKept == Held <= Quota
=============================================================================
