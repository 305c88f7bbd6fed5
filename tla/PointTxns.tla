------------------------------ MODULE PointTxns ------------------------------
(***************************************************************************)
(* The point-moving transactions as the DSQL backend runs them: a          *)
(* transaction reads the snapshot it began with, buffers its writes, and   *)
(* commits only if no row it wrote or locked FOR UPDATE was written or     *)
(* locked by a transaction that committed meanwhile (SQLSTATE 40001        *)
(* otherwise).  runInTransaction starts the work again from a new          *)
(* snapshot, MaxAttempts times in all.  There are no savepoints and no     *)
(* nesting.                                                                *)
(***************************************************************************)
EXTENDS PointLedger, FiniteSetsExt

CONSTANT MaxAttempts        \* 3 in occ-retry.ts

ASSUME MaxAttemptsAssumption == MaxAttempts \in Nat \ {0}

VARIABLES
    running,    \* requests inside a transaction
    snap,       \* the rows as the transaction saw them when it began
    stale,      \* rows committed by others since then
    attempt     \* the attempt the request is at

occVars == <<running, snap, stale, attempt>>
vars == <<ledgerVars, occVars>>

Init ==
    /\ LedgerInit
    /\ running = {}
    /\ snap = [c \in Requests |-> OpeningDb]
    /\ stale = [c \in Requests |-> {}]
    /\ attempt = [c \in Requests |-> 1]

-----------------------------------------------------------------------------
(* Rows, as the adjudicator compares them.                                 *)
ChildRow      == <<"children">>
StatusRow     == <<"statuses">>
LogRow(c)     == <<"activity_logs", c>>
EntryRow(e)   == <<"point_ledger", e>>
MasteryRow(a) == <<"activity_mastery", a>>
MissionRow(m) == <<"daily_missions", m>>

(* The rows each transaction writes or locks, given what it saw.  Inserts  *)
(* of logs and entries have fresh keys and conflict with nothing.  An      *)
(* UPDATE of children leaves no row behind when the child is gone.         *)
ChildRows(d) == IF d.exists THEN {ChildRow} ELSE {}

RecordRows(d, c) == ChildRows(d) \cup {StatusRow, MasteryRow(req[c].activity), LogRow(c), EntryRow(c)}

CancelRows(d, c) ==
    LET a == req[req[c].log].activity
    IN  {ChildRow, LogRow(req[c].log), EntryRow(c)}
          \cup (IF d.mastery[a] > 0 THEN {MasteryRow(a)} ELSE {})
          \cup (IF req[c].hasCategory THEN {StatusRow} ELSE {})

(* spendPointsAtomic locks the child's row even when it finds the balance  *)
(* short.                                                                  *)
SpendRows(d, c) ==
    ChildRows(d) \cup (IF d.exists /\ d.total >= req[c].amount THEN {EntryRow(c)} ELSE {})

PostRows(d, c) == {ChildRow, EntryRow(c)}

(* Variant: only the mission itself is locked.                             *)
MissionRowsOwn(d, c) ==
    LET m == req[c].mission
    IN  {MissionRow(m) : n \in OpenMissions(d) \cap {m}}
          \cup (IF m \in OpenMissions(d) /\ CompletesAll(d, m)
                THEN ChildRows(d) \cup {EntryRow(c)} ELSE {})

(* The mission itself and, FOR UPDATE, every mission still open.           *)
MissionRows(d, c) ==
    LET m == req[c].mission
    IN  {MissionRow(n) : n \in OpenMissions(d)}
          \cup (IF m \in OpenMissions(d) /\ CompletesAll(d, m)
                THEN ChildRows(d) \cup {EntryRow(c)} ELSE {})

DeleteRows(d) ==
    {ChildRow, StatusRow}
      \cup {LogRow(c) : c \in {b \in Requests : d.log[b] # "absent"}}
      \cup {EntryRow(e) : e \in d.ledger}
      \cup {MasteryRow(a) : a \in Activities}
      \cup {MissionRow(m) : m \in Missions}

-----------------------------------------------------------------------------
(* Begin, commit, conflict and rollback of one transaction.                *)

Begin(c) ==
    /\ req[c] # NoRequest
    /\ result[c] = "none"
    /\ c \notin running
    /\ running' = running \cup {c}
    /\ snap' = [snap EXCEPT ![c] = db]
    /\ UNCHANGED <<ledgerVars, stale, attempt>>

Running(c, op) == c \in running /\ req[c].op = op

(* The transaction of c is over; the others learn of the rows it wrote.    *)
Leave(c, rows) ==
    /\ running' = running \ {c}
    /\ snap' = [snap EXCEPT ![c] = OpeningDb]
    /\ stale' = [b \in Requests |-> IF b \in running \ {c} THEN stale[b] \cup rows ELSE {}]

Commit(c, rows, newDb, reply) ==
    /\ rows \cap stale[c] = {}
    /\ db' = newDb
    /\ Answer(c, reply)
    /\ Leave(c, rows)
    /\ UNCHANGED attempt

(* 40001: withOccRetry runs the work again, or rethrows after the last try.*)
Conflict(c, rows) ==
    /\ rows \cap stale[c] # {}
    /\ Leave(c, {})
    /\ IF attempt[c] < MaxAttempts
       THEN attempt' = [attempt EXCEPT ![c] = @ + 1] /\ UNCHANGED ledgerVars
       ELSE Answer(c, "OCC_CONFLICT") /\ UNCHANGED <<db, attempt>>

Finish(c, rows, newDb, reply) == Commit(c, rows, newDb, reply) \/ Conflict(c, rows)

(* The work threw: nothing is written, whatever committed meanwhile.       *)
Rollback(c, reason) ==
    /\ Answer(c, reason)
    /\ Leave(c, {})
    /\ UNCHANGED <<db, attempt>>

-----------------------------------------------------------------------------
(* Variant: the count of the service function is trusted.                  *)
RunRecordWithoutRecount(c) ==
    /\ Running(c, "record")
    /\ Finish(c, RecordRows(snap[c], c), Recorded(db, snap[c], c, req[c]), "ok")

(* recordActivityCore counts today's logs again inside the transaction.    *)
RunRecord(c) ==
    /\ Running(c, "record")
    /\ LET seen == snap[c]
           a == req[c].activity
       IN  \/ /\ LimitReached(seen, req, a)
              /\ Rollback(c, LimitReason(a))
           \/ /\ ~LimitReached(seen, req, a)
              /\ Finish(c, RecordRows(seen, c), Recorded(db, seen, c, req[c]), "ok")

(* Variant: the affected rows of the flip are not looked at.               *)
RunCancelUnchecked(c) ==
    /\ Running(c, "cancel")
    /\ LET seen == snap[c]
           l == req[c].log
       IN  \/ /\ ~seen.exists
              /\ Rollback(c, "CHILD_NOT_FOUND")
           \/ /\ seen.exists
              /\ Finish(c, CancelRows(seen, c),
                        Cancelled(db, seen, c, req[c], req[l].activity), "ok")

(* cancelActivityCore flips cancelled = false and gives up if no row did;  *)
(* it throws if the child is gone.                                         *)
RunCancel(c) ==
    /\ Running(c, "cancel")
    /\ LET seen == snap[c]
           l == req[c].log
       IN  \/ /\ seen.log[l] # "active"
              /\ Rollback(c, "ALREADY_CANCELLED")
           \/ /\ seen.log[l] = "active" /\ ~seen.exists
              /\ Rollback(c, "CHILD_NOT_FOUND")
           \/ /\ seen.log[l] = "active" /\ seen.exists
              /\ Finish(c, CancelRows(seen, c),
                        Cancelled(db, seen, c, req[c], req[l].activity), "ok")

(* Variant: the balance is not read again inside the transaction.          *)
RunSpendUnchecked(c) ==
    /\ Running(c, "spend")
    /\ LET seen == snap[c]
       IN  \/ seen.exists /\ Finish(c, SpendRows(seen, c), Posted(db, seen, c, req[c]), "ok")
           \/ ~seen.exists /\ Finish(c, SpendRows(seen, c), db, "INSUFFICIENT_POINTS")

(* spendPointsAtomic returns the shortage instead of throwing, so that     *)
(* transaction commits too and can meet a conflict.                        *)
RunSpend(c) ==
    /\ Running(c, "spend")
    /\ LET seen == snap[c]
           enough == seen.exists /\ seen.total >= req[c].amount
       IN  \/ enough /\ Finish(c, SpendRows(seen, c), Posted(db, seen, c, req[c]), "ok")
           \/ ~enough /\ Finish(c, SpendRows(seen, c), db, "INSUFFICIENT_POINTS")

(* insertPointEntry throws when its UPDATE of children matches no row.     *)
RunEntry(c) ==
    /\ Running(c, "entry")
    /\ LET seen == snap[c]
       IN  \/ ~seen.exists /\ Rollback(c, "CHILD_NOT_FOUND")
           \/ seen.exists /\ Finish(c, PostRows(seen, c), Posted(db, seen, c, req[c]), "ok")

(* completeMissionAndMaybeGrantBonus.                                      *)
RunMission(c) ==
    /\ Running(c, "mission")
    /\ Finish(c, MissionRows(snap[c], c), MissionCompleted(db, snap[c], c, req[c]), "ok")

RunDelete(c) ==
    /\ Running(c, "delete")
    /\ Finish(c, DeleteRows(snap[c]), ChildDeleted(db), "ok")

(* deletePointLedgerBeforeDate is one statement outside any transaction.   *)
Prune ==
    /\ PruneOpening
    /\ stale' = [b \in Requests |-> IF b \in running THEN stale[b] \cup {EntryRow(Opening)} ELSE {}]
    /\ UNCHANGED <<running, snap, attempt>>

Run(c) ==
    \/ RunRecord(c) \/ RunCancel(c) \/ RunSpend(c)
    \/ RunEntry(c) \/ RunMission(c) \/ RunDelete(c)

Next ==
    \/ Prune
    \/ \E c \in Requests :
          \/ ServiceReads(c) /\ UNCHANGED occVars
          \/ Begin(c)
          \/ Run(c)

Spec == Init /\ [][Next]_vars

-----------------------------------------------------------------------------
TypeOK ==
    /\ db \in Database
    /\ req \in [Requests -> Request \cup {NoRequest}]
    /\ result \in [Requests -> {"none", "ok"} \cup Rejections]
    /\ running \subseteq Requests
    /\ snap \in [Requests -> Database]
    /\ attempt \in [Requests -> 1 .. MaxAttempts]

EntryAmount(e) == IF e = Opening THEN OpeningBalance ELSE Amount(req[e])

(* The stored balance of a child is the sum of its ledger, whatever was    *)
(* pruned from it: derived-drift.ts reports a difference as a fault.       *)
BalanceMatchesLedger ==
    db.exists => db.total = db.pruned + MapThenSumSet(EntryAmount, db.ledger)

(* However many requests counted the day's logs before their transaction,  *)
(* no activity has more active logs than its daily limit.                  *)
DailyLimitHeld ==
    \A a \in Activities :
        DailyLimit[a] # 0 => Cardinality(ActiveLogs(db, req, a)) <= DailyLimit[a]

(* A log is refunded at most once, and only after it was recorded: of the  *)
(* cancellations that answered ok, no two name the same log.               *)
NoDoubleRefund ==
    \A c \in Requests : req[c].op = "cancel" /\ result[c] = "ok" =>
        /\ result[req[c].log] = "ok"
        /\ db.log[req[c].log] # "active"
        /\ \A b \in Requests \ {c} :
              ~ (req[b].op = "cancel" /\ result[b] = "ok" /\ req[b].log = req[c].log)

(* The bonus for completing every mission is paid once, at the moment the  *)
(* last mission is completed: neither twice nor, when two requests each    *)
(* complete one of the last two missions, not at all.                      *)
MissionBonusExactlyOnce ==
    db.exists =>
        Cardinality({c \in Requests : req[c].op = "mission" /\ c \in db.ledger})
          = IF Missions # {} /\ \A m \in Missions : db.missions[m] = "completed" THEN 1 ELSE 0

(* A spend that answers ok took its amount off the balance of that moment  *)
(* and left it non-negative, whatever committed since it read the balance. *)
SpendStep(c) ==
    req[c].op = "spend" /\ result[c] = "none" /\ result'[c] = "ok" =>
        /\ db'.total = db.total - req[c].amount
        /\ db'.total >= 0

SpendNeverOverdraws == [][\A c \in Requests : SpendStep(c)]_vars

(* XP stays between 70% of its peak and its peak.                          *)
XpBand == DecayFloor(db.peak) <= db.xp /\ db.xp <= db.peak

(* The mastery count is the number of records that were not cancelled.     *)
MasteryCountsActiveLogs ==
    db.exists =>
        \A a \in Activities :
            db.mastery[a] = OpeningMastery[a] + Cardinality(ActiveLogs(db, req, a))

(* Every interleaving of records, cancels, spends and prunings leaves the  *)
(* derived columns (total_point, count, xp) in line with the rows they are *)
(* derived from; the next request computes from the columns alone.         *)
DerivedColumnsAgree == BalanceMatchesLedger /\ MasteryCountsActiveLogs /\ XpBand

-----------------------------------------------------------------------------
(* What comments and documents of the repository say of these operations.  *)

(* activity-record-preparation.ts: "Streak: only award on first record of  *)
(* the day".  Two records of one activity carry the bonus at most once.    *)
StreakBonusOncePerDay ==
    \A a \in Activities :
        Cardinality({c \in ActiveLogs(db, req, a) : req[c].streak > 0}) <= 1

(* domain/validation/activity.ts: a record-cancel cycle leaves no mastery  *)
(* bonus in the balance.  When every record of a day of records and        *)
(* cancellations was cancelled, the balance is what it was.                *)
NoResidueAfterCancels ==
    /\ \A c \in Requests : req[c].op \in {"none", "record", "cancel"}
    /\ \A c \in Requests : db.log[c] # "active"
    /\ db.exists
    => db.total <= OpeningBalance

(* m3-physical-model.md, I-BAL-NONNEG: a discretionary use of points never *)
(* takes the balance below zero.                                           *)
DiscretionaryUseNonNegative ==
    (\A c \in Requests : req[c].op # "cancel") => db.total >= 0

(* cancel-activity-core.ts: "child 不在 = total_point 共更新不能 ... 片肺書込禁止". *)
(* No ledger entry is written for a child whose balance no longer exists.  *)
NoEntryWithoutChild == ~ db.exists => db.ledger = {}

=============================================================================
