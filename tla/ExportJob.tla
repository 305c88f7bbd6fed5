----------------------------- MODULE ExportJob -----------------------------
(***************************************************************************)
(* What the queue of cloud exports promises (async-backup-export.md, 3.2): *)
(* every export is one job, built at most once, by one worker; it is given *)
(* up only when nobody builds it; its outcome is final.                    *)
(***************************************************************************)
CONSTANTS Exports, Workers, NoWorker

VARIABLES
    status,     \* where the job is
    builder     \* who builds it

jobVars == <<status, builder>>

Becomes(e, s, w) == /\ status' = [status EXCEPT ![e] = s]
                    /\ builder' = [builder EXCEPT ![e] = w]

Init == /\ status = [e \in Exports |-> "none"]
        /\ builder = [e \in Exports |-> NoWorker]

Issue(e)   == status[e] = "none" /\ Becomes(e, "pending", NoWorker)
Build(e)   == \E w \in Workers : status[e] = "pending" /\ Becomes(e, "building", w)
Finish(e)  == /\ status[e] = "building" /\ builder[e] # NoWorker
              /\ \E s \in {"ready", "failed"} : Becomes(e, s, NoWorker)
Lose(e)    == builder[e] # NoWorker /\ Becomes(e, status[e], NoWorker)
GiveUp(e)  == status[e] = "building" /\ builder[e] = NoWorker /\ Becomes(e, "failed", NoWorker)
Discard(e) == status[e] \notin {"none", "gone"} /\ Becomes(e, "gone", builder[e])

Next == \E e \in Exports :
            \/ Issue(e)
            \/ Build(e)
            \/ Finish(e)
            \/ Lose(e)
            \/ GiveUp(e)
            \/ Discard(e)

Spec == Init /\ [][Next]_jobVars

\* No parent waits for ever: a job that is queued is decided or discarded.
Settles == \A e \in Exports : status[e] = "pending" ~> status[e] \in {"ready", "failed", "gone"}
=============================================================================
