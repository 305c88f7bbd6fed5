--------------------------- MODULE MCCloudExport ---------------------------
(* One family, two overlapping runs of the job.  The service is an         *)
(* instance, so that the theorems of TenantProofs can speak of it.         *)
EXTENDS Integers, TLC

CONSTANTS
    MaxExports, Quota, MaxDownloads, Expiring, RunLimit, Workers, Sessions, Outlives, Refuses,
    NoWorker

VARIABLES exportRow, stale, expired, downloads, store, job, request, asked

Cloud == INSTANCE CloudExport WITH row <- exportRow, Limit <- RunLimit

ASSUME ExportAssumption == Cloud!CloudExportAssumption

ExportSpec     == Cloud!Spec
FairExportSpec == Cloud!FairSpec

\* What is built is built by one run alone (CloudExport).
BuiltByOne == Cloud!BuiltByOne

\* Rows and files agree (CloudExport).
FilesFollowRows == Cloud!FilesFollowRows

\* The plan's quota is passed by the requests in flight only (CloudExport).
QuotaNearlyKept == Cloud!QuotaNearlyKept

\* The service implements the queue it promises (CloudExport, ExportJob).
KeepsPromise == Cloud!KeepsPromise

\* No export stays queued or under construction for ever (CloudExport, ExportJob).
QueueSettles == Cloud!QueueSettles

\* What docs, refusals and plans say and the service does not keep (CloudExport).
DeleteTakesFile == Cloud!DeleteTakesFile
RefusedSeesWhy  == Cloud!RefusedSeesWhy
QuotaKept       == Cloud!QuotaKept

ExportSymmetry == Permutations(Workers) \cup Permutations(Sessions)
=============================================================================
