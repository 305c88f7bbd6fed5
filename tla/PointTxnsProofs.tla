--------------------------- MODULE PointTxnsProofs ---------------------------
(***************************************************************************)
(* The transactions of PointTxns are serializable: they implement          *)
(* PointLedger, for any number of requests, activities, missions and       *)
(* attempts.  What holds of the requests taken one at a time therefore     *)
(* holds of every interleaving, and is proved on PointLedger: the limits,  *)
(* the refunds, the mission bonus and every derived column.                *)
(***************************************************************************)
EXTENDS PointTxns, SumTheorems, FiniteSetTheorems, TLAPS

USE DEF ConstantsAssumption

-----------------------------------------------------------------------------
(* Arithmetic of the bonus and of the XP floor.                            *)

LEMMA BonusStepsFinite == IsFiniteSet(BonusSteps)
<1>1. BonusSteps \in SUBSET Nat /\ \A s \in BonusSteps : s <= 8720
  BY DEF BonusSteps
<1> QED BY <1>1, FS_BoundedSetOfNaturals

LEMMA BonusIsNat == ASSUME NEW n \in Nat PROVE MasteryBonusAt(n) \in Nat
<1>1. IsFiniteSet({k \in BonusSteps : k <= n})
  BY BonusStepsFinite, FS_Subset
<1>2. Cardinality({k \in BonusSteps : k <= n}) \in Nat
  BY <1>1, FS_CardinalityType
<1> QED BY <1>2 DEF MasteryBonusAt

LEMMA RefundIsNat == ASSUME NEW n \in Nat PROVE MasteryRefund(n) \in Nat
BY BonusIsNat DEF MasteryRefund

LEMMA FloorBelowPeak ==
  ASSUME NEW p \in Nat PROVE DecayFloor(p) \in Nat /\ DecayFloor(p) <= p
BY DEF DecayFloor

LEMMA RevertXpIsNat ==
  ASSUME NEW x \in Nat, NEW k \in Int, NEW p \in Nat PROVE RevertXp(x, k, p) \in Nat
BY FloorBelowPeak DEF RevertXp

LEMMA AmountIsInt == ASSUME NEW r \in Request PROVE Amount(r) \in Int
BY ConstantsAssumption DEF Request, Amount, RecordRequest, CancelRequest, SpendRequest, EntryRequest,
   MissionRequest, DeleteRequest

-----------------------------------------------------------------------------
(* Types of the requests and of what each transaction makes of the rows.   *)

LEMMA RequestByOp ==
  ASSUME NEW r \in Request \cup {NoRequest}
  PROVE  /\ r.op = "record" => r \in RecordRequest
         /\ r.op = "cancel" => r \in CancelRequest
         /\ r.op = "spend" => r \in SpendRequest
         /\ r.op = "entry" => r \in EntryRequest
         /\ r.op = "mission" => r \in MissionRequest
         /\ r.op = "delete" => r \in DeleteRequest
BY DEF Request, NoRequest, RecordRequest, CancelRequest, SpendRequest, EntryRequest,
   MissionRequest, DeleteRequest

LEMMA RecordAmount ==
  ASSUME NEW r \in RecordRequest PROVE Amount(r) \in Nat
BY DEF RecordRequest, Amount

(* One field of the rows at a time.                                        *)
LEMMA PutLog ==
  ASSUME NEW d \in Database, NEW log \in [Requests -> {"absent", "active", "cancelled"}],
         NEW mastery \in [Activities -> Nat]
  PROVE  [d EXCEPT !.log = log, !.mastery = mastery] \in Database
BY DEF Database

LEMMA PutPoints ==
  ASSUME NEW d \in Database, NEW ledger \in SUBSET Entries, NEW total \in Int
  PROVE  [d EXCEPT !.ledger = ledger, !.total = total] \in Database
BY DEF Database

LEMMA PutStatus ==
  ASSUME NEW d \in Database, NEW xp \in Nat, NEW peak \in Nat
  PROVE  [d EXCEPT !.xp = xp, !.peak = peak] \in Database
BY DEF Database

LEMMA PutMissions ==
  ASSUME NEW d \in Database, NEW missions \in [Missions -> {"absent", "open", "completed"}]
  PROVE  [d EXCEPT !.missions = missions] \in Database
BY DEF Database

LEMMA PutGone ==
  ASSUME NEW d \in Database, NEW exists \in BOOLEAN, NEW pruned \in Int
  PROVE  [d EXCEPT !.exists = exists, !.pruned = pruned] \in Database
BY DEF Database

LEMMA RecordedType ==
  ASSUME NEW cur \in Database, NEW seen \in Database, NEW c \in Requests, NEW r \in RecordRequest
  PROVE  Recorded(cur, seen, c, r) \in Database
<1> DEFINE xp == seen.xp + Amount(r)
           peak == IF xp >= seen.peak THEN xp ELSE seen.peak
           total == AddPoints(cur, seen, Amount(r))
           log == [cur.log EXCEPT ![c] = "active"]
           mastery == [cur.mastery EXCEPT ![r.activity] = seen.mastery[r.activity] + 1]
           ledger == cur.ledger \cup {c}
           d1 == [cur EXCEPT !.log = log, !.mastery = mastery]
           d2 == [d1 EXCEPT !.ledger = ledger, !.total = total]
<1>1. xp \in Nat /\ peak \in Nat /\ total \in Int
  BY RecordAmount DEF Database, AddPoints
<1>2. /\ log \in [Requests -> {"absent", "active", "cancelled"}]
      /\ mastery \in [Activities -> Nat]
      /\ ledger \in SUBSET Entries
  BY DEF RecordRequest, Database, Entries
<1>3. Recorded(cur, seen, c, r) = [d2 EXCEPT !.xp = xp, !.peak = peak]
  BY DEF Recorded, Database
<1> HIDE DEF xp, peak, total, log, mastery, ledger
<1>4. d2 \in Database
  BY <1>1, <1>2, PutLog, PutPoints
<1> HIDE DEF d2
<1> QED BY <1>1, <1>3, <1>4, PutStatus

LEMMA CancelledType ==
  ASSUME NEW cur \in Database, NEW seen \in Database, NEW c \in Requests,
         NEW r \in CancelRequest, NEW a \in Activities
  PROVE  Cancelled(cur, seen, c, r, a) \in Database
<1> DEFINE xp == IF r.hasCategory THEN RevertXp(seen.xp, r.refund, seen.peak) ELSE cur.xp
           total == seen.total + Amount(r)
           count == IF seen.mastery[a] > 0 THEN seen.mastery[a] - 1 ELSE cur.mastery[a]
           log == [cur.log EXCEPT ![r.log] = "cancelled"]
           mastery == [cur.mastery EXCEPT ![a] = count]
           ledger == cur.ledger \cup {c}
           d1 == [cur EXCEPT !.log = log, !.mastery = mastery]
           d2 == [d1 EXCEPT !.ledger = ledger, !.total = total]
<1>1. r.log \in Requests /\ r.refund \in Int /\ Amount(r) \in Int
  BY AmountIsInt DEF CancelRequest, Request
<1>2. xp \in Nat
  <2>1. cur.xp \in Nat /\ seen.xp \in Nat /\ seen.peak \in Nat
    BY DEF Database
  <2> QED BY <1>1, <2>1, RevertXpIsNat
<1>3. total \in Int /\ count \in Nat /\ cur.peak \in Nat
  BY <1>1 DEF Database
<1>4. /\ log \in [Requests -> {"absent", "active", "cancelled"}]
      /\ mastery \in [Activities -> Nat]
      /\ ledger \in SUBSET Entries
  BY <1>1, <1>3 DEF Database, Entries
<1>5. Cancelled(cur, seen, c, r, a) = [d2 EXCEPT !.xp = xp, !.peak = cur.peak]
  BY DEF Cancelled, Database
<1> HIDE DEF xp, count, total, log, mastery, ledger
<1>6. d2 \in Database
  BY <1>3, <1>4, PutLog, PutPoints
<1> HIDE DEF d2
<1> QED BY <1>2, <1>3, <1>5, <1>6, PutStatus

LEMMA PostedType ==
  ASSUME NEW cur \in Database, NEW seen \in Database, NEW c \in Requests, NEW r \in Request
  PROVE  Posted(cur, seen, c, r) \in Database
<1>1. seen.total + Amount(r) \in Int
  BY AmountIsInt DEF Database
<1>2. cur.ledger \cup {c} \in SUBSET Entries
  BY DEF Database, Entries
<1> QED BY <1>1, <1>2 DEF Posted, Database

LEMMA MissionCompletedType ==
  ASSUME NEW cur \in Database, NEW seen \in Database, NEW c \in Requests, NEW r \in MissionRequest
  PROVE  MissionCompleted(cur, seen, c, r) \in Database
<1>1. r.mission \in Missions
  BY DEF MissionRequest
<1>2. AddPoints(cur, seen, MissionBonus) \in Int
  BY ConstantsAssumption DEF AddPoints, Database
<1>3. cur.ledger \cup {c} \in SUBSET Entries
  BY DEF Database, Entries
<1> QED BY <1>1, <1>2, <1>3 DEF MissionCompleted, Database

LEMMA ChildDeletedType ==
  ASSUME NEW cur \in Database PROVE ChildDeleted(cur) \in Database
<1> DEFINE log == [c \in Requests |-> "absent"]
           mastery == [a \in Activities |-> 0]
           missions == [m \in Missions |-> "absent"]
           d1 == [cur EXCEPT !.log = log, !.mastery = mastery]
           d2 == [d1 EXCEPT !.ledger = {}, !.total = 0]
           d3 == [d2 EXCEPT !.xp = 0, !.peak = 0]
           d4 == [d3 EXCEPT !.missions = missions]
<1>1. /\ log \in [Requests -> {"absent", "active", "cancelled"}]
      /\ mastery \in [Activities -> Nat]
      /\ missions \in [Missions -> {"absent", "open", "completed"}]
  OBVIOUS
<1>2. ChildDeleted(cur) = [d4 EXCEPT !.exists = FALSE, !.pruned = 0]
  BY DEF ChildDeleted, Database
<1> HIDE DEF log, mastery, missions
<1>3. d2 \in Database
  <2>1. d1 \in Database
    BY <1>1, PutLog
  <2>2. {} \in SUBSET Entries /\ 0 \in Int
    OBVIOUS
  <2> HIDE DEF d1
  <2> QED BY <2>1, <2>2, PutPoints
<1>4. d4 \in Database
  <2>1. d3 \in Database
    BY <1>3, PutStatus
  <2> QED BY <1>1, <2>1, PutMissions
<1>5. FALSE \in BOOLEAN /\ 0 \in Int
  OBVIOUS
<1> HIDE DEF d4
<1> QED BY <1>2, <1>4, <1>5, PutGone

LEMMA OpeningType == OpeningDb \in Database
BY ConstantsAssumption DEF OpeningDb, Database, Entries

-----------------------------------------------------------------------------
(* The inductive type invariant: beside the types, a running request has   *)
(* not been answered, and every log was written by a record request (whose *)
(* points and activity a cancellation reads).                              *)
LogsRecorded(d) == \A b \in Requests : d.log[b] # "absent" => req[b] \in RecordRequest

CancelsNameRecords ==
    \A c \in Requests : req[c].op = "cancel" => req[req[c].log] \in RecordRequest

RunningUnanswered == \A c \in running : req[c] # NoRequest /\ result[c] = "none"

TypeInv ==
    /\ TypeOK
    /\ LogsRecorded(db)
    /\ \A c \in Requests : LogsRecorded(snap[c])
    /\ CancelsNameRecords
    /\ RunningUnanswered

LEMMA OpeningLogs == LogsRecorded(OpeningDb)
BY DEF LogsRecorded, OpeningDb

LEMMA AskStep ==
  ASSUME TypeInv, NEW c \in Requests, NEW r \in Request, Ask(c, r), UNCHANGED occVars,
         r.op = "cancel" => req[r.log] \in RecordRequest
  PROVE  TypeInv'
<1>1. req[c] = NoRequest /\ req' = [req EXCEPT ![c] = r] /\ UNCHANGED <<db, result, running, snap, stale, attempt>>
  BY DEF Ask, occVars
<1>2. TypeOK'
  BY <1>1 DEF TypeInv, TypeOK
<1>3. NoRequest \notin RecordRequest
  BY DEF NoRequest, RecordRequest
<1>4. \A b \in Requests : req[b] \in RecordRequest => req'[b] = req[b]
  BY <1>1, <1>3 DEF TypeInv, TypeOK
<1>5. LogsRecorded(db)' /\ \A b \in Requests : LogsRecorded(snap[b])'
  BY <1>1, <1>4 DEF TypeInv, LogsRecorded
<1>6. CancelsNameRecords'
  <2> SUFFICES ASSUME NEW b \in Requests, req'[b].op = "cancel"
               PROVE  req'[req'[b].log] \in RecordRequest
    BY DEF CancelsNameRecords
  <2>1. CASE b = c
    <3>1. req'[b] = r
      BY <1>1, <2>1 DEF TypeInv, TypeOK
    <3>2. r \in CancelRequest
      BY <3>1, RequestByOp
    <3>3. r.log \in Requests /\ req[r.log] \in RecordRequest
      BY <3>1, <3>2 DEF CancelRequest
    <3> QED BY <3>1, <3>3, <1>4
  <2>2. CASE b # c
    <3>1. req'[b] = req[b] /\ req[b] \in Request \cup {NoRequest}
      BY <1>1, <2>2 DEF TypeInv, TypeOK
    <3>2. req[b] \in CancelRequest
      BY <3>1, RequestByOp
    <3>3. req[b].log \in Requests /\ req[req[b].log] \in RecordRequest
      BY <3>1, <3>2 DEF CancelRequest, TypeInv, CancelsNameRecords
    <3> QED BY <3>1, <3>3, <1>4
  <2> QED BY <2>1, <2>2
<1>7. RunningUnanswered'
  BY <1>1 DEF TypeInv, RunningUnanswered, TypeOK
<1> QED BY <1>2, <1>5, <1>6, <1>7 DEF TypeInv

LEMMA LeaveStep ==
  ASSUME TypeInv, NEW c \in running, NEW rows, Leave(c, rows),
         UNCHANGED req, db' \in Database, LogsRecorded(db)',
         result' \in [Requests -> {"none", "ok"} \cup Rejections],
         \A b \in Requests \ {c} : result'[b] = result[b],
         attempt' \in [Requests -> 1 .. MaxAttempts]
  PROVE  TypeInv'
<1>1. running' = running \ {c} /\ snap' = [snap EXCEPT ![c] = OpeningDb]
  BY DEF Leave
<1>2. TypeOK'
  BY <1>1, OpeningType DEF TypeInv, TypeOK
<1>3. \A b \in Requests : LogsRecorded(snap[b])'
  <2> SUFFICES ASSUME NEW b \in Requests PROVE LogsRecorded(snap[b])'
    OBVIOUS
  <2>1. snap'[b] = OpeningDb \/ snap'[b] = snap[b]
    BY <1>1 DEF TypeInv, TypeOK
  <2> QED BY <2>1, OpeningLogs DEF LogsRecorded, TypeInv
<1>4. CancelsNameRecords' /\ RunningUnanswered'
  BY <1>1 DEF TypeInv, CancelsNameRecords, RunningUnanswered, TypeOK
<1> QED BY <1>2, <1>3, <1>4 DEF TypeInv

LEMMA FinishStep ==
  ASSUME TypeInv, NEW c \in running, NEW rows, NEW newDb \in Database, LogsRecorded(newDb),
         NEW reply \in Rejections \cup {"ok"}, Finish(c, rows, newDb, reply)
  PROVE  TypeInv'
<1>0. c \in Requests
  BY DEF TypeInv, TypeOK
<1>1. CASE Commit(c, rows, newDb, reply)
  <2>1. db' = newDb /\ result' = [result EXCEPT ![c] = reply] /\ UNCHANGED <<req, attempt>> /\ Leave(c, rows)
    BY <1>1 DEF Commit, Answer
  <2>2. LogsRecorded(db)'
    BY <2>1 DEF LogsRecorded
  <2>3. /\ result' \in [Requests -> {"none", "ok"} \cup Rejections]
        /\ \A b \in Requests \ {c} : result'[b] = result[b]
    BY <2>1 DEF TypeInv, TypeOK
  <2> QED BY <2>1, <2>2, <2>3, LeaveStep DEF TypeInv, TypeOK
<1>2. CASE Conflict(c, rows)
  <2>1. Leave(c, {}) /\ UNCHANGED <<req, db>>
    BY <1>2 DEF Conflict, Answer, ledgerVars
  <2>2. LogsRecorded(db)'
    BY <2>1 DEF LogsRecorded, TypeInv
  <2>3. /\ result' \in [Requests -> {"none", "ok"} \cup Rejections]
        /\ \A b \in Requests \ {c} : result'[b] = result[b]
    BY <1>0, <1>2 DEF Conflict, Answer, ledgerVars, Rejections, TypeInv, TypeOK
  <2>4. attempt' \in [Requests -> 1 .. MaxAttempts]
    BY <1>0, <1>2, MaxAttemptsAssumption DEF Conflict, TypeInv, TypeOK
  <2> QED BY <2>1, <2>2, <2>3, <2>4, LeaveStep DEF TypeInv, TypeOK
<1> QED BY <1>1, <1>2 DEF Finish

LEMMA RollbackStep ==
  ASSUME TypeInv, NEW c \in running, NEW reason \in Rejections, Rollback(c, reason)
  PROVE  TypeInv'
<1>1. result' = [result EXCEPT ![c] = reason] /\ UNCHANGED <<req, db, attempt>> /\ Leave(c, {})
  BY DEF Rollback, Answer
<1>2. LogsRecorded(db)'
  BY <1>1 DEF LogsRecorded, TypeInv
<1>3. /\ result' \in [Requests -> {"none", "ok"} \cup Rejections]
      /\ \A b \in Requests \ {c} : result'[b] = result[b]
  BY <1>1 DEF TypeInv, TypeOK
<1> QED BY <1>1, <1>2, <1>3, LeaveStep DEF TypeInv, TypeOK

-----------------------------------------------------------------------------
(* The service functions hand over well-formed requests.                   *)
LEMMA ServiceReadsStep ==
  ASSUME TypeInv, NEW c \in Requests, ServiceReads(c), UNCHANGED occVars
  PROVE  TypeInv'
<1> USE DEF Request
<1>1. ASSUME NEW a \in Activities, AskRecord(c, a) PROVE TypeInv'
  <2> DEFINE r == [op |-> "record", activity |-> a, points |-> BasePoints[a],
                   streak |-> IF ActiveLogs(db, req, a) = {} THEN StreakBonus ELSE 0,
                   bonus |-> MasteryBonusAt(db.mastery[a])]
  <2>1. db.mastery[a] \in Nat
    BY DEF TypeInv, TypeOK, Database
  <2>2. r \in RecordRequest
    BY <2>1, BonusIsNat, ConstantsAssumption DEF RecordRequest
  <2>3. Ask(c, r)
    BY <1>1 DEF AskRecord
  <2> QED BY <2>2, <2>3, AskStep
<1>2. ASSUME NEW l \in Requests, AskCancel(c, l) PROVE TypeInv'
  <2>1. db.log[l] = "active" /\ req[l] \in RecordRequest
    BY <1>2 DEF AskCancel, TypeInv, LogsRecorded
  <2> PICK known \in BOOLEAN :
        Ask(c, [op |-> "cancel", log |-> l,
                refund |-> req[l].points + req[l].streak + MasteryRefund(db.mastery[req[l].activity]),
                hasCategory |-> known])
    BY <1>2 DEF AskCancel
  <2> DEFINE n == req[l].points + req[l].streak + MasteryRefund(db.mastery[req[l].activity])
             r == [op |-> "cancel", log |-> l, refund |-> n, hasCategory |-> known]
  <2>2. req[l].points \in Nat /\ req[l].streak \in Nat /\ req[l].activity \in Activities
    BY <2>1 DEF RecordRequest
  <2>3. db.mastery[req[l].activity] \in Nat
    BY <2>2 DEF TypeInv, TypeOK, Database
  <2>4. n \in Int
    BY <2>2, <2>3, RefundIsNat
  <2>5. Ask(c, r)
    OBVIOUS
  <2> HIDE DEF n
  <2>6. r \in CancelRequest /\ r.log = l
    BY <2>4 DEF CancelRequest
  <2> QED BY <2>1, <2>5, <2>6, AskStep
<1>3. ASSUME NEW n \in SpendAmounts, AskSpend(c, n) \/ AskConvert(c, n) PROVE TypeInv'
  <2>1. n \in Nat /\ - n \in Int
    BY ConstantsAssumption
  <2>2. [op |-> "spend", amount |-> n] \in SpendRequest /\ [op |-> "entry", amount |-> - n] \in EntryRequest
    BY <2>1 DEF SpendRequest, EntryRequest
  <2> QED BY <1>3, <2>2, AskStep DEF AskSpend, AskConvert
<1>4. ASSUME NEW n \in GrantAmounts, AskGrant(c, n) PROVE TypeInv'
  <2>1. n \in Int
    BY ConstantsAssumption
  <2>2. [op |-> "entry", amount |-> n] \in EntryRequest
    BY <2>1 DEF EntryRequest
  <2> QED BY <1>4, <2>2, AskStep DEF AskGrant
<1>5. ASSUME NEW m \in Missions, AskMission(c, m) PROVE TypeInv'
  <2>1. [op |-> "mission", mission |-> m] \in MissionRequest
    BY DEF MissionRequest
  <2> QED BY <1>5, <2>1, AskStep DEF AskMission
<1>6. CASE AskDelete(c)
  <2>1. [op |-> "delete"] \in DeleteRequest
    BY DEF DeleteRequest
  <2> QED BY <1>6, <2>1, AskStep DEF AskDelete
<1> QED BY <1>1, <1>2, <1>3, <1>4, <1>5, <1>6 DEF ServiceReads

(* What the transactions do to the logs.                                   *)
LEMMA RecordedLogs ==
  ASSUME NEW cur \in Database, NEW seen, NEW c \in Requests, NEW r \in RecordRequest
  PROVE  /\ Recorded(cur, seen, c, r).log = [cur.log EXCEPT ![c] = "active"]
         /\ Recorded(cur, seen, c, r).exists = cur.exists
         /\ Recorded(cur, seen, c, r).missions = cur.missions
BY DEF Recorded, Database

LEMMA CancelledLogs ==
  ASSUME NEW cur \in Database, NEW seen, NEW c, NEW r, NEW a
  PROVE  /\ Cancelled(cur, seen, c, r, a).log = [cur.log EXCEPT ![r.log] = "cancelled"]
         /\ Cancelled(cur, seen, c, r, a).exists = cur.exists
         /\ Cancelled(cur, seen, c, r, a).missions = cur.missions
BY DEF Cancelled, Database

LEMMA PostedRows ==
  ASSUME NEW cur \in Database, NEW seen, NEW c, NEW r
  PROVE  /\ Posted(cur, seen, c, r).log = cur.log
         /\ Posted(cur, seen, c, r).exists = cur.exists
         /\ Posted(cur, seen, c, r).missions = cur.missions
BY DEF Posted, Database

LEMMA MissionCompletedRows ==
  ASSUME NEW cur \in Database, NEW seen, NEW c, NEW r
  PROVE  /\ MissionCompleted(cur, seen, c, r).log = cur.log
         /\ MissionCompleted(cur, seen, c, r).exists = cur.exists
         /\ MissionCompleted(cur, seen, c, r).mastery = cur.mastery
         /\ MissionCompleted(cur, seen, c, r).xp = cur.xp
         /\ MissionCompleted(cur, seen, c, r).peak = cur.peak
BY DEF MissionCompleted, Database

LEMMA MissionCompletedTotal ==
  ASSUME NEW cur \in Database, NEW seen, NEW c, NEW r,
         \/ seen.missions[r.mission] # "open"
         \/ ~ CompletesAll(seen, r.mission)
         \/ ~ seen.exists
  PROVE  MissionCompleted(cur, seen, c, r).total = cur.total
BY DEF MissionCompleted, AddPoints, Database

LEMMA ChildDeletedRows ==
  ASSUME NEW cur \in Database
  PROVE  /\ ~ ChildDeleted(cur).exists
         /\ ChildDeleted(cur).log = [c \in Requests |-> "absent"]
         /\ ChildDeleted(cur).missions = [m \in Missions |-> "absent"]
BY DEF ChildDeleted, Database

-----------------------------------------------------------------------------
LEMMA RunningRequest ==
  ASSUME TypeInv, NEW c, NEW op, Running(c, op)
  PROVE  c \in Requests /\ c \in running /\ result[c] = "none" /\ req[c].op = op
         /\ req[c] \in Request \cup {NoRequest} /\ snap[c] \in Database /\ db \in Database
         /\ LogsRecorded(db) /\ LogsRecorded(snap[c]) /\ req[c] # NoRequest
BY DEF Running, TypeInv, TypeOK, RunningUnanswered

LEMMA RunStep ==
  ASSUME TypeInv, NEW c, Run(c)
  PROVE  TypeInv'
<1> DEFINE seen == snap[c]
<1> USE DEF Rejections
<1>1. CASE RunRecord(c)
  <2>1. Running(c, "record")
    BY <1>1 DEF RunRecord
  <2>2. req[c] \in RecordRequest
    BY <2>1, RunningRequest, RequestByOp
  <2> DEFINE d == Recorded(db, seen, c, req[c])
  <2>3. d \in Database
    BY <2>1, <2>2, RunningRequest, RecordedType
  <2>4. LogsRecorded(d)
    <3>1. c \in Requests /\ db \in Database /\ LogsRecorded(db)
      BY <2>1, RunningRequest
    <3>2. d.log = [db.log EXCEPT ![c] = "active"]
      BY <2>2, <3>1, RecordedLogs
    <3>3. db.log \in [Requests -> {"absent", "active", "cancelled"}]
      BY <3>1 DEF Database
    <3> HIDE DEF d
    <3> QED BY <2>2, <3>1, <3>2, <3>3 DEF LogsRecorded
  <2>5. CASE Rollback(c, LimitReason(req[c].activity))
    BY <2>1, <2>5, RunningRequest, RollbackStep DEF LimitReason
  <2>6. CASE Finish(c, RecordRows(seen, c), d, "ok")
    BY <2>1, <2>3, <2>4, <2>6, RunningRequest, FinishStep
  <2> QED BY <1>1, <2>5, <2>6 DEF RunRecord
<1>2. CASE RunCancel(c)
  <2>1. Running(c, "cancel")
    BY <1>2 DEF RunCancel
  <2>2. req[c] \in CancelRequest /\ req[c].log \in Requests /\ req[req[c].log] \in RecordRequest
    BY <2>1, RunningRequest, RequestByOp DEF CancelRequest, TypeInv, CancelsNameRecords
  <2>3. req[req[c].log].activity \in Activities
    BY <2>2 DEF RecordRequest
  <2> DEFINE d == Cancelled(db, seen, c, req[c], req[req[c].log].activity)
  <2>4. d \in Database
    BY <2>1, <2>2, <2>3, RunningRequest, CancelledType
  <2>5. LogsRecorded(d)
    <3>1. db \in Database /\ LogsRecorded(db)
      BY <2>1, RunningRequest
    <3>2. d.log = [db.log EXCEPT ![req[c].log] = "cancelled"]
      BY <3>1, CancelledLogs
    <3>3. db.log \in [Requests -> {"absent", "active", "cancelled"}]
      BY <3>1 DEF Database
    <3> HIDE DEF d
    <3> QED BY <2>2, <3>1, <3>2, <3>3 DEF LogsRecorded
  <2>6. CASE Rollback(c, "ALREADY_CANCELLED") \/ Rollback(c, "CHILD_NOT_FOUND")
    BY <2>1, <2>6, RunningRequest, RollbackStep
  <2>7. CASE Finish(c, CancelRows(seen, c), d, "ok")
    BY <2>1, <2>4, <2>5, <2>7, RunningRequest, FinishStep
  <2> QED BY <1>2, <2>6, <2>7 DEF RunCancel
<1>3. CASE RunSpend(c)
  <2>1. Running(c, "spend")
    BY <1>3 DEF RunSpend
  <2> DEFINE d == Posted(db, seen, c, req[c])
  <2>2. req[c] \in Request
    BY <2>1, RunningRequest
  <2>3. d \in Database /\ LogsRecorded(d)
    BY <2>1, <2>2, RunningRequest, PostedType, PostedRows DEF LogsRecorded
  <2>4. CASE Finish(c, SpendRows(seen, c), d, "ok")
    BY <2>1, <2>3, <2>4, RunningRequest, FinishStep
  <2>5. CASE Finish(c, SpendRows(seen, c), db, "INSUFFICIENT_POINTS")
    BY <2>1, <2>5, RunningRequest, FinishStep
  <2> QED BY <1>3, <2>4, <2>5 DEF RunSpend
<1>4. CASE RunEntry(c)
  <2>1. Running(c, "entry")
    BY <1>4 DEF RunEntry
  <2> DEFINE d == Posted(db, seen, c, req[c])
  <2>2. req[c] \in Request
    BY <2>1, RunningRequest
  <2>3. d \in Database /\ LogsRecorded(d)
    BY <2>1, <2>2, RunningRequest, PostedType, PostedRows DEF LogsRecorded
  <2>4. CASE Finish(c, PostRows(seen, c), d, "ok")
    BY <2>1, <2>3, <2>4, RunningRequest, FinishStep
  <2>5. CASE Rollback(c, "CHILD_NOT_FOUND")
    BY <2>1, <2>5, RunningRequest, RollbackStep
  <2> QED BY <1>4, <2>4, <2>5 DEF RunEntry
<1>5. CASE RunMission(c)
  <2>1. Running(c, "mission")
    BY <1>5 DEF RunMission
  <2>2. req[c] \in MissionRequest
    BY <2>1, RunningRequest, RequestByOp
  <2> DEFINE d == MissionCompleted(db, seen, c, req[c])
  <2>3. d \in Database /\ d.log = db.log
    <3>1. c \in Requests /\ db \in Database /\ seen \in Database
      BY <2>1, RunningRequest
    <3>2. d \in Database
      BY <2>2, <3>1, MissionCompletedType
    <3>3. d.log = db.log
      BY <2>2, <3>1, MissionCompletedRows
    <3> QED BY <3>2, <3>3
  <2>4. Finish(c, MissionRows(seen, c), d, "ok")
    BY <1>5 DEF RunMission
  <2> HIDE DEF d
  <2>5. LogsRecorded(d)
    BY <2>1, <2>3, RunningRequest DEF LogsRecorded
  <2> QED BY <2>1, <2>3, <2>4, <2>5, RunningRequest, FinishStep
<1>6. CASE RunDelete(c)
  <2>1. Running(c, "delete") /\ Finish(c, DeleteRows(seen), ChildDeleted(db), "ok")
    BY <1>6 DEF RunDelete
  <2>2. ChildDeleted(db) \in Database /\ LogsRecorded(ChildDeleted(db))
    BY <2>1, RunningRequest, ChildDeletedType, ChildDeletedRows DEF LogsRecorded
  <2> QED BY <2>1, <2>2, RunningRequest, FinishStep
<1> QED BY <1>1, <1>2, <1>3, <1>4, <1>5, <1>6 DEF Run

(* Rows, requests, answers and attempts stay within their types.           *)
LEMMA TypeInvariant == Spec => []TypeInv
<1>1. Init => TypeInv
  <2> SUFFICES ASSUME Init PROVE TypeInv
    OBVIOUS
  <2> USE DEF Init, LedgerInit
  <2>1. \A c \in Requests : req[c] = NoRequest /\ NoRequest.op = "none" /\ 1 \in 1 .. MaxAttempts
    BY MaxAttemptsAssumption DEF NoRequest
  <2>2. TypeOK
    BY <2>1, OpeningType, MaxAttemptsAssumption DEF TypeOK
  <2>3. LogsRecorded(db) /\ \A c \in Requests : LogsRecorded(snap[c])
    BY OpeningLogs
  <2>4. CancelsNameRecords /\ RunningUnanswered
    BY <2>1 DEF CancelsNameRecords, RunningUnanswered
  <2> QED BY <2>2, <2>3, <2>4 DEF TypeInv
<1>2. TypeInv /\ [Next]_vars => TypeInv'
  <2> SUFFICES ASSUME TypeInv, [Next]_vars PROVE TypeInv'
    OBVIOUS
  <2>1. CASE Prune
    <3>1. db' = [db EXCEPT !.ledger = @ \ {Opening}, !.pruned = @ + OpeningBalance]
          /\ UNCHANGED <<req, result, running, snap, attempt>>
      BY <2>1 DEF Prune, PruneOpening
    <3>2. db \in Database /\ db.ledger \ {Opening} \in SUBSET Entries /\ db.pruned + OpeningBalance \in Int
      BY ConstantsAssumption DEF TypeInv, TypeOK, Database
    <3>3. db' \in Database /\ db'.log = db.log
      BY <3>1, <3>2 DEF Database
    <3> QED BY <3>1, <3>3 DEF TypeInv, TypeOK, LogsRecorded, CancelsNameRecords, RunningUnanswered
  <2>2. ASSUME NEW c \in Requests, ServiceReads(c) /\ UNCHANGED occVars PROVE TypeInv'
    BY <2>2, ServiceReadsStep
  <2>3. ASSUME NEW c \in Requests, Begin(c) PROVE TypeInv'
    <3>1. running' = running \cup {c} /\ snap' = [snap EXCEPT ![c] = db]
          /\ req[c] # NoRequest /\ result[c] = "none" /\ UNCHANGED <<db, req, result, attempt>>
      BY <2>3 DEF Begin, ledgerVars
    <3>2. TypeOK'
      BY <3>1 DEF TypeInv, TypeOK
    <3>3. \A b \in Requests : LogsRecorded(snap[b])'
      BY <3>1 DEF TypeInv, TypeOK, LogsRecorded
    <3> QED BY <3>1, <3>2, <3>3 DEF TypeInv, LogsRecorded, CancelsNameRecords, RunningUnanswered
  <2>4. ASSUME NEW c \in Requests, Run(c) PROVE TypeInv'
    BY <2>4, RunStep
  <2>5. CASE UNCHANGED vars
    BY <2>5 DEF vars, ledgerVars, occVars, TypeInv, TypeOK, LogsRecorded, CancelsNameRecords, RunningUnanswered
  <2> QED BY <2>1, <2>2, <2>3, <2>4, <2>5 DEF Next
<1> QED BY <1>1, <1>2, PTL DEF Spec

(* Rows, requests, snapshots and row sets keep their types, for any number *)
(* of transactions in flight.                                              *)
THEOREM TypeCorrect == Spec => []TypeOK
<1>1. TypeInv => TypeOK
  BY DEF TypeInv
<1> QED BY <1>1, TypeInvariant, PTL

-----------------------------------------------------------------------------
(* What a running transaction may rely on, given the rows it knows to be   *)
(* stale: the row of the child stands for everything written along with    *)
(* it.  A child is never recreated, and a mission never reopened.          *)
ChildCoherent(d, s, st) ==
    s.exists /\ ChildRow \notin st =>
        /\ d.exists
        /\ d.total = s.total /\ d.log = s.log /\ d.mastery = s.mastery
        /\ d.xp = s.xp /\ d.peak = s.peak

MissionsCoherent(d, s, st) ==
    \A m \in Missions :
        /\ MissionRow(m) \notin st => d.missions[m] = s.missions[m]
        /\ s.missions[m] # "open" => d.missions[m] # "open"

LogsOf(q, log, a) == {b \in Requests : q[b].op = "record" /\ q[b].activity = a /\ log[b] = "active"}

(* Without a child only its orphaned rows can still be written.            *)
OrphansCoherent(d, q, s, st) ==
    ~ s.exists =>
        /\ ~ d.exists
        /\ \A a \in Activities : MasteryRow(a) \notin st =>
              d.mastery[a] = s.mastery[a] /\ LogsOf(q, d.log, a) = LogsOf(q, s.log, a)
        /\ StatusRow \notin st => d.xp = s.xp /\ d.peak = s.peak

Coherent(c) ==
    /\ ChildCoherent(db, snap[c], stale[c])
    /\ MissionsCoherent(db, snap[c], stale[c])
    /\ OrphansCoherent(db, req, snap[c], stale[c])

Coherence == \A c \in running : Coherent(c)

(* The rows a commit reports cover every change it makes.                  *)
Covers(rows, d) ==
    /\ d.exists => db.exists
    /\ db.exists /\ ChildRow \notin rows =>
          /\ d.exists
          /\ d.total = db.total /\ d.log = db.log /\ d.mastery = db.mastery
          /\ d.xp = db.xp /\ d.peak = db.peak
    /\ \A m \in Missions :
          /\ MissionRow(m) \notin rows => d.missions[m] = db.missions[m]
          /\ db.missions[m] # "open" => d.missions[m] # "open"
    /\ ~ db.exists =>
          /\ \A a \in Activities : MasteryRow(a) \notin rows =>
                d.mastery[a] = db.mastery[a] /\ LogsOf(req, d.log, a) = LogsOf(req, db.log, a)
          /\ StatusRow \notin rows => d.xp = db.xp /\ d.peak = db.peak

LEMMA CoveredCommit ==
  ASSUME NEW s, NEW st, NEW rows, NEW d, Covers(rows, d),
         ChildCoherent(db, s, st), MissionsCoherent(db, s, st), OrphansCoherent(db, req, s, st)
  PROVE  /\ ChildCoherent(d, s, st \cup rows)
         /\ MissionsCoherent(d, s, st \cup rows)
         /\ OrphansCoherent(d, req, s, st \cup rows)
<1>1. ChildCoherent(d, s, st \cup rows)
  BY DEF Covers, ChildCoherent
<1>2. MissionsCoherent(d, s, st \cup rows)
  BY DEF Covers, MissionsCoherent
<1>3. OrphansCoherent(d, req, s, st \cup rows)
  BY DEF Covers, OrphansCoherent
<1> QED BY <1>1, <1>2, <1>3

LEMMA RowsDiffer ==
  /\ ChildRow # StatusRow
  /\ \A a, b : MasteryRow(a) = MasteryRow(b) => a = b
  /\ \A m, n : MissionRow(m) = MissionRow(n) => m = n
  /\ \A x, y : MasteryRow(x) # MissionRow(y) /\ LogRow(x) # MissionRow(y) /\ EntryRow(x) # MissionRow(y)
  /\ \A x, y : MasteryRow(x) # LogRow(y) /\ MasteryRow(x) # EntryRow(y) /\ LogRow(x) # EntryRow(y)
  /\ \A x : ChildRow \notin {MissionRow(x), MasteryRow(x), LogRow(x), EntryRow(x)}
  /\ \A x : StatusRow \notin {MissionRow(x), MasteryRow(x), LogRow(x), EntryRow(x)}
BY DEF ChildRow, StatusRow, MasteryRow, MissionRow, LogRow, EntryRow

(* One case per transaction: the rows it reports cover its changes.        *)
LEMMA Covering ==
  ASSUME TypeInv, NEW c, NEW op, Running(c, op), Coherent(c)
  PROVE  /\ op = "record" /\ RecordRows(snap[c], c) \cap stale[c] = {}
              => Covers(RecordRows(snap[c], c), Recorded(db, snap[c], c, req[c]))
         /\ op = "cancel" /\ CancelRows(snap[c], c) \cap stale[c] = {} /\ snap[c].exists
              => Covers(CancelRows(snap[c], c),
                        Cancelled(db, snap[c], c, req[c], req[req[c].log].activity))
         /\ op \in {"spend", "entry"} /\ snap[c].exists /\ ChildRow \notin stale[c]
              => \A rows : ChildRow \in rows => Covers(rows, Posted(db, snap[c], c, req[c]))
         /\ op = "mission" /\ MissionRows(snap[c], c) \cap stale[c] = {}
              => Covers(MissionRows(snap[c], c), MissionCompleted(db, snap[c], c, req[c]))
         /\ Covers(DeleteRows(snap[c]), ChildDeleted(db))
         /\ \A rows : Covers(rows, db)
<1> DEFINE s == snap[c]
<1>0. c \in Requests /\ db \in Database /\ s \in Database /\ req[c] \in Request
  BY RunningRequest
<1>1. ASSUME op = "record", RecordRows(s, c) \cap stale[c] = {}
      PROVE  Covers(RecordRows(s, c), Recorded(db, s, c, req[c]))
  <2> DEFINE d == Recorded(db, s, c, req[c])
             rows == RecordRows(s, c)
  <2>1. req[c] \in RecordRequest
    BY <1>1, RunningRequest, RequestByOp
  <2>2. d.exists = db.exists /\ d.missions = db.missions /\ d.log = [db.log EXCEPT ![c] = "active"]
    BY <1>0, <2>1, RecordedLogs
  <2>3. d.mastery = [db.mastery EXCEPT ![req[c].activity] = s.mastery[req[c].activity] + 1]
    BY <1>0, <2>1 DEF Recorded, Database
  <2>4. StatusRow \in rows /\ MasteryRow(req[c].activity) \in rows
    BY DEF RecordRows
  <2>5. ChildRow \notin rows => ~ db.exists
    BY RunningRequest DEF RecordRows, ChildRows, Coherent, OrphansCoherent
  <2>6. db.log \in [Requests -> {"absent", "active", "cancelled"}] /\ db.mastery \in [Activities -> Nat]
    BY <1>0 DEF Database
  <2> HIDE DEF d, rows
  <2>7. \A a \in Activities : MasteryRow(a) \notin rows =>
           d.mastery[a] = db.mastery[a] /\ LogsOf(req, d.log, a) = LogsOf(req, db.log, a)
    BY <1>0, <2>2, <2>3, <2>4, <2>6 DEF LogsOf
  <2>8. Covers(rows, d)
    BY <2>2, <2>4, <2>5, <2>7 DEF Covers
  <2> QED BY <2>8 DEF d, rows
<1>2. ASSUME op = "cancel", CancelRows(s, c) \cap stale[c] = {}, s.exists
      PROVE  Covers(CancelRows(s, c), Cancelled(db, s, c, req[c], req[req[c].log].activity))
  <2> DEFINE d == Cancelled(db, s, c, req[c], req[req[c].log].activity)
             rows == CancelRows(s, c)
  <2>1. d.exists = db.exists /\ d.missions = db.missions
    BY <1>0 DEF Cancelled, Database
  <2>2. ChildRow \in rows
    BY DEF CancelRows
  <2>3. db.exists
    BY <1>2, <2>2 DEF Coherent, ChildCoherent
  <2> HIDE DEF d, rows
  <2>4. Covers(rows, d)
    BY <2>1, <2>2, <2>3 DEF Covers
  <2> QED BY <2>4 DEF d, rows
<1>3. ASSUME s.exists, ChildRow \notin stale[c], NEW rows, ChildRow \in rows
      PROVE  Covers(rows, Posted(db, s, c, req[c]))
  <2> DEFINE d == Posted(db, s, c, req[c])
  <2>1. d.exists = db.exists /\ d.missions = db.missions
    BY <1>0, PostedRows
  <2>2. db.exists
    BY <1>3 DEF Coherent, ChildCoherent
  <2> HIDE DEF d
  <2>3. Covers(rows, d)
    BY <1>3, <2>1, <2>2 DEF Covers
  <2> QED BY <2>3 DEF d
<1>4. ASSUME op = "mission", MissionRows(s, c) \cap stale[c] = {}
      PROVE  Covers(MissionRows(s, c), MissionCompleted(db, s, c, req[c]))
  <2> DEFINE d == MissionCompleted(db, s, c, req[c])
             rows == MissionRows(s, c)
             m == req[c].mission
  <2>1. m \in Missions
    BY <1>4, RunningRequest, RequestByOp DEF MissionRequest
  <2>2. d.exists = db.exists /\ d.log = db.log /\ d.mastery = db.mastery /\ d.xp = db.xp /\ d.peak = db.peak
    BY <1>0, MissionCompletedRows
  <2>3. d.missions = IF s.missions[m] # "open" THEN db.missions ELSE [db.missions EXCEPT ![m] = "completed"]
    BY <1>0 DEF MissionCompleted, Database
  <2>4. s.missions[m] = "open" => MissionRow(m) \in rows
    BY <2>1 DEF MissionRows, OpenMissions
  <2>5. db.exists /\ ChildRow \notin rows => d.total = db.total
    <3>1. ChildRow \notin rows =>
            \/ s.missions[m] # "open"
            \/ ~ CompletesAll(s, m)
            \/ ~ s.exists
      BY <2>1 DEF MissionRows, ChildRows, OpenMissions
    <3> QED BY <1>0, <3>1, MissionCompletedTotal
  <2>6. db.missions \in [Missions -> {"absent", "open", "completed"}]
    BY <1>0 DEF Database
  <2> HIDE DEF d, rows
  <2>7. Covers(rows, d)
    BY <2>1, <2>2, <2>3, <2>4, <2>5, <2>6 DEF Covers
  <2> QED BY <2>7 DEF d, rows
<1>5. Covers(DeleteRows(s), ChildDeleted(db))
  <2>1. /\ ChildRow \in DeleteRows(s) /\ StatusRow \in DeleteRows(s)
        /\ \A a \in Activities : MasteryRow(a) \in DeleteRows(s)
        /\ \A m \in Missions : MissionRow(m) \in DeleteRows(s)
    BY DEF DeleteRows
  <2>2. \A m \in Missions : ChildDeleted(db).missions[m] = "absent"
    BY <1>0, ChildDeletedRows
  <2>3. ~ ChildDeleted(db).exists
    BY <1>0, ChildDeletedRows
  <2> QED BY <2>1, <2>2, <2>3 DEF Covers
<1>6. \A rows : Covers(rows, db)
  BY DEF Covers
<1> QED BY <1>1, <1>2, <1>3, <1>4, <1>5, <1>6

-----------------------------------------------------------------------------
(* Coherence is invariant.                                                 *)

(* The others after c has left with the given rows and the database d.     *)
LEMMA LeaveCoherence ==
  ASSUME TypeInv, Coherence, NEW c \in running, NEW rows, NEW d, Covers(rows, d),
         Leave(c, rows), db' = d, UNCHANGED req
  PROVE  Coherence'
<1> SUFFICES ASSUME NEW b \in running' PROVE Coherent(b)'
  BY DEF Coherence
<1>1. b \in running \ {c} /\ b \in Requests
  BY DEF Leave, TypeInv, TypeOK
<1>2. snap'[b] = snap[b] /\ stale'[b] = stale[b] \cup rows
  BY <1>1 DEF Leave, TypeInv, TypeOK
<1>3. Coherent(b)
  BY <1>1 DEF Coherence
<1>4. /\ ChildCoherent(d, snap[b], stale[b] \cup rows)
      /\ MissionsCoherent(d, snap[b], stale[b] \cup rows)
      /\ OrphansCoherent(d, req, snap[b], stale[b] \cup rows)
  BY <1>3, CoveredCommit DEF Coherent
<1> QED BY <1>2, <1>4 DEF Coherent

LEMMA FinishCoherence ==
  ASSUME TypeInv, Coherence, NEW c \in running, NEW rows, NEW d, NEW reply,
         rows \cap stale[c] = {} => Covers(rows, d), Covers({}, db), Finish(c, rows, d, reply)
  PROVE  Coherence'
<1>1. CASE Commit(c, rows, d, reply)
  BY <1>1, LeaveCoherence DEF Commit, Answer
<1>2. CASE Conflict(c, rows)
  <2>1. Leave(c, {}) /\ db' = db /\ UNCHANGED req
    BY <1>2 DEF Conflict, Answer, ledgerVars
  <2> QED BY <2>1, LeaveCoherence
<1> QED BY <1>1, <1>2 DEF Finish

LEMMA RunCoherence ==
  ASSUME TypeInv, Coherence, NEW c, Run(c)
  PROVE  Coherence'
<1> DEFINE seen == snap[c]
<1>1. c \in running /\ \E op : Running(c, op)
  BY DEF Run, RunRecord, RunCancel, RunSpend, RunEntry, RunMission, RunDelete, Running
<1>2. Coherent(c)
  BY <1>1 DEF Coherence
<1>3. Covers({}, db)
  BY DEF Covers
<1>4. ASSUME NEW reason, Rollback(c, reason) PROVE Coherence'
  BY <1>1, <1>3, <1>4, LeaveCoherence DEF Rollback, Answer
<1>5. CASE RunRecord(c)
  BY <1>1, <1>2, <1>3, <1>4, <1>5, Covering, FinishCoherence DEF RunRecord
<1>6. CASE RunCancel(c)
  BY <1>1, <1>2, <1>3, <1>4, <1>6, Covering, FinishCoherence DEF RunCancel
<1>7. CASE RunSpend(c)
  <2>1. Running(c, "spend")
    BY <1>7 DEF RunSpend
  <2>2. CASE seen.exists /\ Finish(c, SpendRows(seen, c), Posted(db, seen, c, req[c]), "ok")
    <3>1. ChildRow \in SpendRows(seen, c)
      BY <2>2 DEF SpendRows, ChildRows
    <3>2. SpendRows(seen, c) \cap stale[c] = {} => Covers(SpendRows(seen, c), Posted(db, seen, c, req[c]))
      BY <1>2, <2>1, <2>2, <3>1, Covering
    <3> QED BY <1>1, <1>3, <2>2, <3>2, FinishCoherence
  <2>3. CASE Finish(c, SpendRows(seen, c), db, "INSUFFICIENT_POINTS")
    <3>1. Covers(SpendRows(seen, c), db)
      BY DEF Covers
    <3> QED BY <1>1, <1>3, <2>3, <3>1, FinishCoherence
  <2> QED BY <1>7, <2>2, <2>3 DEF RunSpend
<1>8. CASE RunEntry(c)
  <2>1. Running(c, "entry")
    BY <1>8 DEF RunEntry
  <2>2. CASE seen.exists /\ Finish(c, PostRows(seen, c), Posted(db, seen, c, req[c]), "ok")
    <3>1. ChildRow \in PostRows(seen, c)
      BY DEF PostRows
    <3>2. PostRows(seen, c) \cap stale[c] = {} => Covers(PostRows(seen, c), Posted(db, seen, c, req[c]))
      BY <1>2, <2>1, <2>2, <3>1, Covering
    <3> QED BY <1>1, <1>3, <2>2, <3>2, FinishCoherence
  <2> QED BY <1>4, <1>8, <2>2 DEF RunEntry
<1>9. CASE RunMission(c)
  BY <1>1, <1>2, <1>3, <1>9, Covering, FinishCoherence DEF RunMission
<1>10. CASE RunDelete(c)
  BY <1>1, <1>2, <1>3, <1>10, Covering, FinishCoherence DEF RunDelete
<1> QED BY <1>5, <1>6, <1>7, <1>8, <1>9, <1>10 DEF Run

LEMMA AskCoherence ==
  ASSUME TypeInv, Coherence, NEW c \in Requests, NEW r, Ask(c, r), UNCHANGED occVars
  PROVE  Coherence'
<1> SUFFICES ASSUME NEW b \in running PROVE Coherent(b)'
  BY DEF Coherence, occVars
<1>1. /\ req[c] = NoRequest /\ req' = [req EXCEPT ![c] = r]
      /\ db' = db /\ snap' = snap /\ stale' = stale
  BY DEF Ask, occVars
<1>2. req[c] \notin RecordRequest
  BY <1>1 DEF NoRequest, RecordRequest
<1>3. ASSUME NEW d, LogsRecorded(d), NEW a PROVE LogsOf(req', d.log, a) = LogsOf(req, d.log, a)
  <2>1. d.log[c] = "absent"
    BY <1>2, <1>3 DEF LogsRecorded
  <2>2. \A x \in Requests \ {c} : req'[x] = req[x]
    BY <1>1 DEF TypeInv, TypeOK
  <2> QED BY <2>1, <2>2 DEF LogsOf
<1>4. LogsRecorded(db) /\ LogsRecorded(snap[b])
  BY DEF TypeInv, TypeOK
<1>5. Coherent(b)
  BY DEF Coherence
<1>6. OrphansCoherent(db, req', snap[b], stale[b])
  BY <1>3, <1>4, <1>5 DEF Coherent, OrphansCoherent
<1> QED BY <1>1, <1>5, <1>6 DEF Coherent

LEMMA CoherenceInvariant == Spec => []Coherence
<1>1. Init => Coherence
  BY DEF Init, Coherence
<1>2. TypeInv /\ Coherence /\ [Next]_vars => Coherence'
  <2> SUFFICES ASSUME TypeInv, Coherence, [Next]_vars PROVE Coherence'
    OBVIOUS
  <2>1. CASE Prune
    <3>1. db' = [db EXCEPT !.ledger = @ \ {Opening}, !.pruned = @ + OpeningBalance]
          /\ UNCHANGED <<req, running, snap>>
      BY <2>1 DEF Prune, PruneOpening
    <3>2. db \in Database
      BY DEF TypeInv, TypeOK
    <3>3. Covers({EntryRow(Opening)}, db')
      <4>1. /\ db'.exists = db.exists /\ db'.total = db.total /\ db'.log = db.log
            /\ db'.mastery = db.mastery /\ db'.xp = db.xp /\ db'.peak = db.peak
            /\ db'.missions = db.missions
        BY <3>1, <3>2 DEF Database
      <4> QED BY <4>1 DEF Covers
    <3> SUFFICES ASSUME NEW b \in running PROVE Coherent(b)'
      BY <3>1 DEF Coherence
    <3>4. stale'[b] = stale[b] \cup {EntryRow(Opening)}
      BY <2>1 DEF Prune, TypeInv, TypeOK
    <3>5. Coherent(b)
      BY DEF Coherence
    <3>6. /\ ChildCoherent(db', snap[b], stale[b] \cup {EntryRow(Opening)})
          /\ MissionsCoherent(db', snap[b], stale[b] \cup {EntryRow(Opening)})
          /\ OrphansCoherent(db', req, snap[b], stale[b] \cup {EntryRow(Opening)})
      BY <3>3, <3>5, CoveredCommit DEF Coherent
    <3> QED BY <3>1, <3>4, <3>6 DEF Coherent
  <2>2. ASSUME NEW c \in Requests, ServiceReads(c) /\ UNCHANGED occVars PROVE Coherence'
    BY <2>2, AskCoherence
       DEF ServiceReads, AskRecord, AskCancel, AskSpend, AskConvert, AskGrant, AskMission, AskDelete
  <2>3. ASSUME NEW c \in Requests, Begin(c) PROVE Coherence'
    <3>1. running' = running \cup {c} /\ snap' = [snap EXCEPT ![c] = db] /\ UNCHANGED <<db, req, stale>>
      BY <2>3 DEF Begin, ledgerVars
    <3> SUFFICES ASSUME NEW b \in running' PROVE Coherent(b)'
      BY DEF Coherence
    <3>2. CASE b = c
      <4>1. snap'[b] = db
        BY <3>1, <3>2 DEF TypeInv, TypeOK
      <4> QED BY <3>1, <4>1 DEF Coherent, ChildCoherent, MissionsCoherent, OrphansCoherent
    <3>3. CASE b # c
      <4>1. b \in running /\ snap'[b] = snap[b]
        BY <3>1, <3>3 DEF TypeInv, TypeOK
      <4> QED BY <3>1, <4>1 DEF Coherence, Coherent
    <3> QED BY <3>2, <3>3
  <2>4. ASSUME NEW c \in Requests, Run(c) PROVE Coherence'
    BY <2>4, RunCoherence
  <2>5. CASE UNCHANGED vars
    BY <2>5 DEF vars, ledgerVars, occVars, Coherence, Coherent
  <2> QED BY <2>1, <2>2, <2>3, <2>4, <2>5 DEF Next
<1> QED BY <1>1, <1>2, TypeInvariant, PTL DEF Spec

-----------------------------------------------------------------------------
(* Serializability: every step of PointTxns is a step of PointLedger.      *)

LEMMA AnswerStep ==
  ASSUME TypeInv, NEW c \in running, NEW reason \in Rejections, Answer(c, reason), UNCHANGED db
  PROVE  LedgerNext
<1>1. c \in Requests /\ req[c] # NoRequest /\ result[c] = "none"
  BY DEF TypeInv, TypeOK, RunningUnanswered
<1>2. TurnAway(c)
  BY <1>1 DEF TurnAway
<1> QED BY <1>1, <1>2 DEF LedgerNext

LEMMA ConflictStep ==
  ASSUME TypeInv, NEW c \in running, NEW rows, Conflict(c, rows)
  PROVE  [LedgerNext]_ledgerVars
<1>1. CASE UNCHANGED ledgerVars
  BY <1>1
<1>2. CASE Answer(c, "OCC_CONFLICT") /\ UNCHANGED db
  BY <1>2, AnswerStep DEF Rejections
<1> QED BY <1>1, <1>2 DEF Conflict

LEMMA RollbackLedgerStep ==
  ASSUME TypeInv, NEW c \in running, NEW reason \in Rejections, Rollback(c, reason)
  PROVE  LedgerNext
BY AnswerStep DEF Rollback

(* With no stale row among those a record writes, the count it made and    *)
(* the values it computed are those of the current rows.                   *)
LEMMA RecordAgrees ==
  ASSUME TypeInv, NEW c, Running(c, "record"), Coherent(c), RecordRows(snap[c], c) \cap stale[c] = {}
  PROVE  /\ LimitReached(snap[c], req, req[c].activity) <=> LimitReached(db, req, req[c].activity)
         /\ Recorded(db, snap[c], c, req[c]) = Recorded(db, db, c, req[c])
<1> DEFINE s == snap[c]
           a == req[c].activity
<1>1. req[c] \in RecordRequest /\ LogsRecorded(db) /\ LogsRecorded(s)
  BY RunningRequest, RequestByOp
<1>2. a \in Activities
  BY <1>1 DEF RecordRequest
<1>3. MasteryRow(a) \notin stale[c] /\ StatusRow \notin stale[c] /\ (s.exists => ChildRow \notin stale[c])
  BY DEF RecordRows, ChildRows
<1>4. \A d : LogsRecorded(d) => ActiveLogs(d, req, a) = LogsOf(req, d.log, a)
  BY <1>2 DEF LogsRecorded, ActiveLogs, LogsOf, RecordRequest
<1>5. /\ LogsOf(req, db.log, a) = LogsOf(req, s.log, a) /\ db.mastery[a] = s.mastery[a]
      /\ db.xp = s.xp /\ db.peak = s.peak
      /\ s.exists => db.exists /\ db.total = s.total
      /\ ~ s.exists => ~ db.exists
  BY <1>2, <1>3 DEF Coherent, ChildCoherent, OrphansCoherent
<1>6. ActiveLogs(db, req, a) = ActiveLogs(s, req, a)
  BY <1>1, <1>4, <1>5
<1>7. AddPoints(db, s, Amount(req[c])) = AddPoints(db, db, Amount(req[c]))
  BY <1>5 DEF AddPoints
<1> QED BY <1>5, <1>6, <1>7 DEF LimitReached, Recorded

LEMMA MissionAgrees ==
  ASSUME TypeInv, NEW c, Running(c, "mission"), Coherent(c), MissionRows(snap[c], c) \cap stale[c] = {}
  PROVE  MissionCompleted(db, snap[c], c, req[c]) = MissionCompleted(db, db, c, req[c])
<1> DEFINE s == snap[c]
           m == req[c].mission
<1>1. m \in Missions
  BY RunningRequest, RequestByOp DEF MissionRequest
<1>2. \A n \in Missions : (s.missions[n] = "open") <=> (db.missions[n] = "open")
  BY DEF MissionRows, OpenMissions, Coherent, MissionsCoherent
<1>3. OpenMissions(s) = OpenMissions(db)
  BY <1>2 DEF OpenMissions
<1>4. CompletesAll(s, m) <=> CompletesAll(db, m)
  BY <1>3 DEF CompletesAll
<1>5. s.missions[m] = "open" /\ CompletesAll(s, m) =>
        AddPoints(db, s, MissionBonus) = AddPoints(db, db, MissionBonus)
  <2> SUFFICES ASSUME s.missions[m] = "open", CompletesAll(s, m)
               PROVE  AddPoints(db, s, MissionBonus) = AddPoints(db, db, MissionBonus)
    OBVIOUS
  <2>1. s.exists => ChildRow \notin stale[c]
    BY <1>1 DEF MissionRows, OpenMissions, ChildRows
  <2> QED BY <2>1 DEF Coherent, ChildCoherent, OrphansCoherent, AddPoints
<1> QED BY <1>1, <1>2, <1>4, <1>5 DEF MissionCompleted

LEMMA CommitStep ==
  ASSUME TypeInv, NEW c \in running, NEW op, Running(c, op), NEW rows, NEW d, NEW reply,
         Commit(c, rows, d, reply)
  PROVE  c \in Requests /\ Pending(c, op) /\ db' = d /\ Answer(c, reply)
BY RunningRequest DEF Commit, Pending

LEMMA RunLedgerStep ==
  ASSUME TypeInv, Coherence, NEW c, Run(c)
  PROVE  [LedgerNext]_ledgerVars
<1> DEFINE s == snap[c]
<1> USE DEF Rejections
<1>1. c \in running
  BY DEF Run, RunRecord, RunCancel, RunSpend, RunEntry, RunMission, RunDelete, Running
<1>2. Coherent(c) /\ c \in Requests
  BY <1>1 DEF Coherence, TypeInv, TypeOK
<1>3. ASSUME NEW rows, Conflict(c, rows) PROVE [LedgerNext]_ledgerVars
  BY <1>1, <1>3, ConflictStep
<1>4. CASE RunRecord(c)
  <2>1. Running(c, "record")
    BY <1>4 DEF RunRecord
  <2>2. CASE Rollback(c, LimitReason(req[c].activity))
    BY <1>1, <2>2, RollbackLedgerStep DEF LimitReason
  <2>3. CASE /\ ~ LimitReached(s, req, req[c].activity)
             /\ Commit(c, RecordRows(s, c), Recorded(db, s, c, req[c]), "ok")
    <3>1. RecordRows(s, c) \cap stale[c] = {}
      BY <2>3 DEF Commit
    <3>2. ~ LimitReached(db, req, req[c].activity) /\ Recorded(db, s, c, req[c]) = Recorded(db, db, c, req[c])
      BY <1>2, <2>1, <2>3, <3>1, RecordAgrees
    <3>3. Pending(c, "record") /\ db' = Recorded(db, s, c, req[c]) /\ Answer(c, "ok")
      BY <1>1, <2>1, <2>3, CommitStep
    <3>4. Record(c)
      BY <3>2, <3>3 DEF Record
    <3> QED BY <1>2, <3>4 DEF LedgerNext
  <2> QED BY <1>3, <1>4, <2>2, <2>3 DEF RunRecord, Finish
<1>5. CASE RunCancel(c)
  <2>1. Running(c, "cancel")
    BY <1>5 DEF RunCancel
  <2> DEFINE a == req[req[c].log].activity
  <2>2. CASE Rollback(c, "ALREADY_CANCELLED") \/ Rollback(c, "CHILD_NOT_FOUND")
    BY <1>1, <2>2, RollbackLedgerStep
  <2>3. CASE /\ s.log[req[c].log] = "active" /\ s.exists
             /\ Commit(c, CancelRows(s, c), Cancelled(db, s, c, req[c], a), "ok")
    <3>1. ChildRow \notin stale[c]
      BY <2>3 DEF Commit, CancelRows
    <3>2. /\ db.exists /\ db.total = s.total /\ db.log = s.log /\ db.mastery = s.mastery
          /\ db.xp = s.xp /\ db.peak = s.peak
      BY <1>2, <2>3, <3>1 DEF Coherent, ChildCoherent
    <3>3. Cancelled(db, s, c, req[c], a) = Cancelled(db, db, c, req[c], a)
      BY <3>2 DEF Cancelled
    <3>4. Pending(c, "cancel") /\ db' = Cancelled(db, s, c, req[c], a) /\ Answer(c, "ok")
      BY <1>1, <2>1, <2>3, CommitStep
    <3>5. Cancel(c)
      BY <2>3, <3>2, <3>3, <3>4 DEF Cancel
    <3> QED BY <1>2, <3>5 DEF LedgerNext
  <2> QED BY <1>3, <1>5, <2>2, <2>3 DEF RunCancel, Finish
<1>6. CASE RunSpend(c)
  <2>1. Running(c, "spend")
    BY <1>6 DEF RunSpend
  <2>2. CASE Commit(c, SpendRows(s, c), db, "INSUFFICIENT_POINTS")
    <3>1. Answer(c, "INSUFFICIENT_POINTS") /\ UNCHANGED db
      BY <2>2 DEF Commit
    <3> QED BY <1>1, <3>1, AnswerStep
  <2>3. CASE /\ s.exists /\ s.total >= req[c].amount
             /\ Commit(c, SpendRows(s, c), Posted(db, s, c, req[c]), "ok")
    <3>1. ChildRow \notin stale[c]
      BY <2>3 DEF Commit, SpendRows, ChildRows
    <3>2. db.exists /\ db.total = s.total
      BY <1>2, <2>3, <3>1 DEF Coherent, ChildCoherent
    <3>3. Posted(db, s, c, req[c]) = Posted(db, db, c, req[c])
      BY <3>2 DEF Posted
    <3>4. Pending(c, "spend") /\ db' = Posted(db, s, c, req[c]) /\ Answer(c, "ok")
      BY <1>1, <2>1, <2>3, CommitStep
    <3>5. Spend(c)
      BY <2>3, <3>2, <3>3, <3>4 DEF Spend
    <3> QED BY <1>2, <3>5 DEF LedgerNext
  <2> QED BY <1>3, <1>6, <2>2, <2>3 DEF RunSpend, Finish
<1>7. CASE RunEntry(c)
  <2>1. Running(c, "entry")
    BY <1>7 DEF RunEntry
  <2>2. CASE Rollback(c, "CHILD_NOT_FOUND")
    BY <1>1, <2>2, RollbackLedgerStep
  <2>3. CASE s.exists /\ Commit(c, PostRows(s, c), Posted(db, s, c, req[c]), "ok")
    <3>1. ChildRow \notin stale[c]
      BY <2>3 DEF Commit, PostRows
    <3>2. db.exists /\ db.total = s.total
      BY <1>2, <2>3, <3>1 DEF Coherent, ChildCoherent
    <3>3. Posted(db, s, c, req[c]) = Posted(db, db, c, req[c])
      BY <3>2 DEF Posted
    <3>4. Pending(c, "entry") /\ db' = Posted(db, s, c, req[c]) /\ Answer(c, "ok")
      BY <1>1, <2>1, <2>3, CommitStep
    <3>5. Entry(c)
      BY <3>2, <3>3, <3>4 DEF Entry
    <3> QED BY <1>2, <3>5 DEF LedgerNext
  <2> QED BY <1>3, <1>7, <2>2, <2>3 DEF RunEntry, Finish
<1>8. CASE RunMission(c)
  <2>1. Running(c, "mission")
    BY <1>8 DEF RunMission
  <2>2. CASE Commit(c, MissionRows(s, c), MissionCompleted(db, s, c, req[c]), "ok")
    <3>1. MissionCompleted(db, s, c, req[c]) = MissionCompleted(db, db, c, req[c])
      BY <1>2, <2>1, <2>2, MissionAgrees DEF Commit
    <3>2. Pending(c, "mission") /\ db' = MissionCompleted(db, s, c, req[c]) /\ Answer(c, "ok")
      BY <1>1, <2>1, <2>2, CommitStep
    <3>3. CompleteMission(c)
      BY <3>1, <3>2 DEF CompleteMission
    <3> QED BY <1>2, <3>3 DEF LedgerNext
  <2> QED BY <1>3, <1>8, <2>2 DEF RunMission, Finish
<1>9. CASE RunDelete(c)
  <2>1. Running(c, "delete")
    BY <1>9 DEF RunDelete
  <2>2. CASE Commit(c, DeleteRows(s), ChildDeleted(db), "ok")
    <3>1. Pending(c, "delete") /\ db' = ChildDeleted(db) /\ Answer(c, "ok")
      BY <1>1, <2>1, <2>2, CommitStep
    <3>2. DeleteChild(c)
      BY <3>1 DEF DeleteChild
    <3> QED BY <1>2, <3>2 DEF LedgerNext
  <2> QED BY <1>3, <1>9, <2>2 DEF RunDelete, Finish
<1> QED BY <1>4, <1>5, <1>6, <1>7, <1>8, <1>9 DEF Run

LEMMA LedgerStep == TypeInv /\ Coherence /\ [Next]_vars => [LedgerNext]_ledgerVars
<1> SUFFICES ASSUME TypeInv, Coherence, [Next]_vars PROVE [LedgerNext]_ledgerVars
  OBVIOUS
<1>1. CASE Prune
  BY <1>1 DEF Prune, LedgerNext
<1>2. ASSUME NEW c \in Requests, ServiceReads(c) /\ UNCHANGED occVars PROVE [LedgerNext]_ledgerVars
  BY <1>2 DEF LedgerNext
<1>3. ASSUME NEW c \in Requests, Begin(c) PROVE [LedgerNext]_ledgerVars
  BY <1>3 DEF Begin
<1>4. ASSUME NEW c \in Requests, Run(c) PROVE [LedgerNext]_ledgerVars
  BY <1>4, RunLedgerStep
<1>5. CASE UNCHANGED vars
  BY <1>5 DEF vars
<1> QED BY <1>1, <1>2, <1>3, <1>4, <1>5 DEF Next

(* The transactions with snapshots and conflicts behave like requests      *)
(* served one after the other.                                             *)
THEOREM Serializable == Spec => LedgerSpec
<1>1. Init => LedgerInit
  BY DEF Init
<1> QED BY <1>1, LedgerStep, TypeInvariant, CoherenceInvariant, PTL DEF Spec, LedgerSpec

-----------------------------------------------------------------------------
(* Safety.  Each step is a step of PointLedger, so every invariant is     *)
(* shown for requests served one at a time and holds of every interleaving.*)

(* The steps of the ledger, with what they answer.                         *)
LEMMA AnswersOnce ==
  ASSUME TypeInv, NEW c \in Requests, NEW reply, Answer(c, reply), result[c] = "none"
  PROVE  /\ req' = req
         /\ result'[c] = reply
         /\ \A b \in Requests \ {c} : result'[b] = result[b]
BY DEF Answer, TypeInv, TypeOK

LEMMA LedgerCases ==
  ASSUME LedgerNext
  PROVE  \/ PruneOpening
         \/ \E c \in Requests : ServiceReads(c)
         \/ \E c \in Requests :
              \/ Record(c) \/ Cancel(c) \/ Spend(c) \/ Entry(c)
              \/ CompleteMission(c) \/ DeleteChild(c) \/ TurnAway(c)
BY DEF LedgerNext

LEMMA AskUnanswered ==
  ASSUME NEW c \in Requests, ServiceReads(c)
  PROVE  \E r : Ask(c, r)
BY DEF ServiceReads, AskRecord, AskCancel, AskSpend, AskConvert, AskGrant, AskMission, AskDelete

LEMMA AskKeepsOthers ==
  ASSUME TypeInv, NEW c \in Requests, NEW r, Ask(c, r)
  PROVE  /\ db' = db /\ result' = result /\ req[c] = NoRequest
         /\ \A b \in Requests \ {c} : req'[b] = req[b]
         /\ db.log[c] = "absent"
<1>1. req[c] = NoRequest /\ NoRequest \notin RecordRequest
  BY DEF Ask, NoRequest, RecordRequest
<1>2. db.log[c] = "absent"
  BY <1>1 DEF TypeInv, LogsRecorded
<1> QED BY <1>1, <1>2 DEF Ask, TypeInv, TypeOK

(* What each transaction leaves of the logs.                               *)
LEMMA LogsAfter ==
  ASSUME TypeInv, NEW c \in Requests
  PROVE  /\ Record(c) => db'.log = [db.log EXCEPT ![c] = "active"]
         /\ Cancel(c) => db'.log = [db.log EXCEPT ![req[c].log] = "cancelled"]
         /\ Spend(c) \/ Entry(c) \/ CompleteMission(c) => db'.log = db.log
         /\ DeleteChild(c) => db'.log = [b \in Requests |-> "absent"]
         /\ PruneOpening => db'.log = db.log
<1>1. db \in Database /\ req[c] \in Request \cup {NoRequest}
  BY DEF TypeInv, TypeOK
<1>2. Record(c) => db'.log = [db.log EXCEPT ![c] = "active"]
  BY <1>1 DEF Record, Recorded, Database
<1>3. Cancel(c) => db'.log = [db.log EXCEPT ![req[c].log] = "cancelled"]
  BY <1>1 DEF Cancel, Cancelled, Database
<1>4. Spend(c) \/ Entry(c) => db'.log = db.log
  BY <1>1 DEF Spend, Entry, Posted, Database
<1>5. CompleteMission(c) => db'.log = db.log
  BY <1>1, MissionCompletedRows DEF CompleteMission
<1>6. DeleteChild(c) => db'.log = [b \in Requests |-> "absent"]
  BY <1>1, ChildDeletedRows DEF DeleteChild
<1>7. PruneOpening => db'.log = db.log
  BY <1>1 DEF PruneOpening, Database
<1> QED BY <1>2, <1>3, <1>4, <1>5, <1>6, <1>7

-----------------------------------------------------------------------------
(* A spend that answers ok left the balance non-negative, whatever the     *)
(* other requests did between its reads and its commit.                    *)
THEOREM SpendSafe == Spec => SpendNeverOverdraws
<1>1. TypeInv /\ Coherence /\ [Next]_vars => [\A c \in Requests : SpendStep(c)]_vars
  <2> SUFFICES ASSUME TypeInv, [LedgerNext]_ledgerVars, NEW c \in Requests,
                      req[c].op = "spend", result[c] = "none", result'[c] = "ok"
               PROVE  db'.total = db.total - req[c].amount /\ db'.total >= 0
    BY LedgerStep DEF SpendStep
  <2>1. LedgerNext
    BY DEF ledgerVars
  <2>2. CASE Spend(c)
    <3>1. req[c] \in SpendRequest /\ db \in Database
      BY RequestByOp DEF TypeInv, TypeOK
    <3>2. req[c].amount \in Nat /\ Amount(req[c]) = - req[c].amount
      BY <3>1 DEF SpendRequest, Amount
    <3>3. db.total \in Int /\ db.total >= req[c].amount /\ db'.total = db.total + Amount(req[c])
      BY <2>2, <3>1 DEF Spend, Posted, Database
    <3> QED BY <3>2, <3>3
  <2>3. ASSUME NEW b \in Requests, NEW reply, Answer(b, reply), result[b] = "none" PROVE b = c /\ reply = "ok"
    BY <2>3, AnswersOnce
  <2>4. CASE PruneOpening
    BY <2>4 DEF PruneOpening
  <2>5. CASE \E b \in Requests : ServiceReads(b)
    BY <2>5, AskUnanswered, AskKeepsOthers
  <2>6. CASE \E b \in Requests : TurnAway(b)
    <3>1. PICK b \in Requests : TurnAway(b)
      BY <2>6
    <3>2. PICK reason \in Rejections : Answer(b, reason) /\ result[b] = "none"
      BY <3>1 DEF TurnAway
    <3>3. reason = "ok"
      BY <2>3, <3>2
    <3> QED BY <3>3 DEF Rejections
  <2>7. CASE \E b \in Requests : Record(b) \/ Cancel(b) \/ Spend(b) \/ Entry(b) \/ CompleteMission(b) \/ DeleteChild(b)
    <3>1. PICK b \in Requests : Record(b) \/ Cancel(b) \/ Spend(b) \/ Entry(b) \/ CompleteMission(b) \/ DeleteChild(b)
      BY <2>7
    <3>2. Answer(b, "ok") /\ result[b] = "none"
      BY <3>1 DEF Record, Cancel, Spend, Entry, CompleteMission, DeleteChild, Pending
    <3>3. b = c
      BY <2>3, <3>2
    <3> QED BY <2>2, <3>1, <3>3 DEF Record, Cancel, Entry, CompleteMission, DeleteChild, Pending
  <2> QED BY <2>1, <2>4, <2>5, <2>6, <2>7, LedgerCases
<1> QED BY <1>1, TypeInvariant, CoherenceInvariant, PTL DEF Spec, SpendNeverOverdraws

-----------------------------------------------------------------------------
(* The daily limit.  A step changes the active logs of an activity only by *)
(* a record, which counted them at the moment it took effect.              *)
LEMMA ActiveFinite ==
  ASSUME NEW a
  PROVE  IsFiniteSet(ActiveLogs(db, req, a)) /\ Cardinality(ActiveLogs(db, req, a)) \in Nat
<1>1. ActiveLogs(db, req, a) \in SUBSET Requests
  BY DEF ActiveLogs
<1>2. IsFiniteSet(ActiveLogs(db, req, a))
  BY <1>1, ConstantsAssumption, FS_Subset
<1> QED BY <1>2, FS_CardinalityType

(* Only a record adds an active log, and only its own.                     *)
LEMMA ActiveAfter ==
  ASSUME TypeInv, LedgerNext, NEW a \in Activities
  PROVE  \/ ActiveLogs(db, req, a)' \subseteq ActiveLogs(db, req, a)
         \/ \E c \in Requests :
              /\ Record(c) /\ req[c].activity = a
              /\ ActiveLogs(db, req, a)' = ActiveLogs(db, req, a) \cup {c}
<1>0. db.log \in [Requests -> {"absent", "active", "cancelled"}]
  BY DEF TypeInv, TypeOK, Database
<1>1. ASSUME NEW c \in Requests, Record(c)
      PROVE  \/ ActiveLogs(db, req, a)' \subseteq ActiveLogs(db, req, a)
             \/ req[c].activity = a /\ ActiveLogs(db, req, a)' = ActiveLogs(db, req, a) \cup {c}
  <2>1. req' = req /\ db'.log = [db.log EXCEPT ![c] = "active"]
    BY <1>1, LogsAfter DEF Record, Answer
  <2> QED BY <1>0, <2>1 DEF ActiveLogs
<1>2. ASSUME NEW c \in Requests, Cancel(c) PROVE ActiveLogs(db, req, a)' \subseteq ActiveLogs(db, req, a)
  <2>1. req' = req /\ db'.log = [db.log EXCEPT ![req[c].log] = "cancelled"]
    BY <1>2, LogsAfter DEF Cancel, Answer
  <2> QED BY <1>0, <2>1 DEF ActiveLogs
<1>3. ASSUME NEW c \in Requests, Spend(c) \/ Entry(c) \/ CompleteMission(c)
      PROVE  ActiveLogs(db, req, a)' \subseteq ActiveLogs(db, req, a)
  <2>1. req' = req /\ db'.log = db.log
    BY <1>3, LogsAfter DEF Spend, Entry, CompleteMission, Answer
  <2> QED BY <2>1 DEF ActiveLogs
<1>4. ASSUME NEW c \in Requests, DeleteChild(c) PROVE ActiveLogs(db, req, a)' \subseteq ActiveLogs(db, req, a)
  <2>1. db'.log = [b \in Requests |-> "absent"]
    BY <1>4, LogsAfter
  <2> QED BY <2>1 DEF ActiveLogs
<1>5. ASSUME NEW c \in Requests, TurnAway(c) PROVE ActiveLogs(db, req, a)' \subseteq ActiveLogs(db, req, a)
  BY <1>5 DEF TurnAway, Answer, ActiveLogs
<1>6. ASSUME NEW c \in Requests, ServiceReads(c) PROVE ActiveLogs(db, req, a)' \subseteq ActiveLogs(db, req, a)
  <2>1. /\ db' = db /\ db.log[c] = "absent"
        /\ \A b \in Requests \ {c} : req'[b] = req[b]
    BY <1>6, AskUnanswered, AskKeepsOthers
  <2> QED BY <2>1 DEF ActiveLogs
<1>7. CASE PruneOpening
  <2>1. req' = req /\ db'.log = [db EXCEPT !.ledger = @ \ {Opening}, !.pruned = @ + OpeningBalance].log
    BY <1>7 DEF PruneOpening
  <2>2. db'.log = db.log
    BY <2>1 DEF TypeInv, TypeOK, Database
  <2> QED BY <2>1, <2>2 DEF ActiveLogs
<1> QED BY <1>1, <1>2, <1>3, <1>4, <1>5, <1>6, <1>7, LedgerCases

(* No interleaving records an activity more often than its daily limit.    *)
THEOREM LimitSafe == Spec => []DailyLimitHeld
<1>1. Init => DailyLimitHeld
  <2> SUFFICES ASSUME Init, NEW a \in Activities, DailyLimit[a] # 0
               PROVE  Cardinality(ActiveLogs(db, req, a)) <= DailyLimit[a]
    BY DEF DailyLimitHeld
  <2>1. ActiveLogs(db, req, a) = {}
    BY DEF Init, LedgerInit, OpeningDb, ActiveLogs
  <2>2. DailyLimit[a] \in Nat
    BY ConstantsAssumption
  <2> QED BY <2>1, <2>2, FS_EmptySet
<1>2. TypeInv /\ Coherence /\ DailyLimitHeld /\ [Next]_vars => DailyLimitHeld'
  <2> SUFFICES ASSUME TypeInv, DailyLimitHeld, [LedgerNext]_ledgerVars,
                      NEW a \in Activities, DailyLimit[a] # 0
               PROVE  Cardinality(ActiveLogs(db, req, a)') <= DailyLimit[a]
    BY LedgerStep DEF DailyLimitHeld
  <2> DEFINE S == ActiveLogs(db, req, a)
             T == ActiveLogs(db, req, a)'
  <2>1. IsFiniteSet(S) /\ Cardinality(S) \in Nat /\ Cardinality(S) <= DailyLimit[a] /\ DailyLimit[a] \in Nat
    BY ActiveFinite, ConstantsAssumption DEF DailyLimitHeld
  <2>2. CASE T \subseteq S
    <3>1. IsFiniteSet(T) /\ Cardinality(T) <= Cardinality(S)
      BY <2>1, <2>2, FS_Subset
    <3>2. Cardinality(T) \in Nat
      BY <3>1, FS_CardinalityType
    <3> QED BY <2>1, <3>1, <3>2
  <2>3. ASSUME NEW c \in Requests, Record(c), req[c].activity = a, T = S \cup {c}
        PROVE  Cardinality(T) <= DailyLimit[a]
    <3>1. Cardinality(S) < DailyLimit[a]
      BY <2>1, <2>3 DEF Record, LimitReached
    <3> HIDE DEF S, T
    <3>2. Cardinality(T) = IF c \in S THEN Cardinality(S) ELSE Cardinality(S) + 1
      BY <2>1, <2>3, FS_AddElement
    <3> QED BY <2>1, <3>1, <3>2
  <2>4. CASE UNCHANGED ledgerVars
    BY <2>2, <2>4 DEF ledgerVars, ActiveLogs
  <2> QED BY <2>2, <2>3, <2>4, ActiveAfter
<1> QED BY <1>1, <1>2, TypeInvariant, CoherenceInvariant, PTL DEF Spec

-----------------------------------------------------------------------------
(* Refunds.  A log that is not absent was answered ok, so its record never *)
(* runs again; and a refunded log is never active again.                   *)
LogsAnswered == \A b \in Requests : db.log[b] # "absent" => result[b] = "ok"

AnsweredAsked == \A b \in Requests : result[b] # "none" => req[b] # NoRequest

RefundInv == LogsAnswered /\ AnsweredAsked /\ NoDoubleRefund

(* Whatever a step is, it leaves answers in place, answers at most one     *)
(* request, and turns a log active only for the record it answers.         *)
LEMMA StepOfLogs ==
  ASSUME TypeInv, LedgerNext
  PROVE  \/ /\ \A b \in Requests : result'[b] = result[b] /\ (req[b] # NoRequest => req'[b] = req[b])
            /\ db'.log = db.log
         \/ \E c \in Requests :
              /\ result[c] = "none" /\ req' = req /\ req[c] # NoRequest
              /\ \A b \in Requests \ {c} : result'[b] = result[b]
              /\ \/ Record(c) /\ result'[c] = "ok" /\ db'.log = [db.log EXCEPT ![c] = "active"]
                 \/ Cancel(c) /\ result'[c] = "ok" /\ db'.log = [db.log EXCEPT ![req[c].log] = "cancelled"]
                 \/ /\ ~ (req[c].op = "cancel" /\ result'[c] = "ok")
                    /\ result'[c] # "none"
                    /\ db'.log = db.log \/ db'.log = [b \in Requests |-> "absent"]
<1>1. ASSUME NEW c \in Requests, Record(c)
      PROVE  /\ result[c] = "none" /\ req' = req /\ result'[c] = "ok"
             /\ \A b \in Requests \ {c} : result'[b] = result[b]
             /\ db'.log = [db.log EXCEPT ![c] = "active"]
  BY <1>1, LogsAfter, AnswersOnce DEF Record, Pending
<1>2. ASSUME NEW c \in Requests, Cancel(c)
      PROVE  /\ result[c] = "none" /\ req' = req /\ result'[c] = "ok"
             /\ \A b \in Requests \ {c} : result'[b] = result[b]
             /\ db'.log = [db.log EXCEPT ![req[c].log] = "cancelled"]
  BY <1>2, LogsAfter, AnswersOnce DEF Cancel, Pending
<1>3. ASSUME NEW c \in Requests, Spend(c) \/ Entry(c) \/ CompleteMission(c) \/ DeleteChild(c)
      PROVE  /\ result[c] = "none" /\ req' = req /\ result'[c] # "none" /\ req[c].op # "cancel"
             /\ \A b \in Requests \ {c} : result'[b] = result[b]
             /\ db'.log = db.log \/ db'.log = [b \in Requests |-> "absent"]
  <2>1. Answer(c, "ok") /\ result[c] = "none" /\ req[c].op # "cancel" /\ req[c].op # "none"
    BY <1>3 DEF Spend, Entry, CompleteMission, DeleteChild, Pending
  <2>2. req' = req /\ result'[c] = "ok" /\ \A b \in Requests \ {c} : result'[b] = result[b]
    BY <2>1, AnswersOnce
  <2>3. db'.log = db.log \/ db'.log = [b \in Requests |-> "absent"]
    BY <1>3, LogsAfter
  <2> QED BY <2>1, <2>2, <2>3
<1>4. ASSUME NEW c \in Requests, TurnAway(c)
      PROVE  /\ result[c] = "none" /\ req' = req /\ result'[c] \notin {"none", "ok"}
             /\ \A b \in Requests \ {c} : result'[b] = result[b]
             /\ db'.log = db.log /\ req[c] # NoRequest
  <2>1. PICK reason \in Rejections :
           Answer(c, reason) /\ result[c] = "none" /\ UNCHANGED db /\ req[c] # NoRequest
    BY <1>4 DEF TurnAway
  <2> QED BY <2>1, AnswersOnce DEF Rejections
<1>5. ASSUME NEW c \in Requests, ServiceReads(c)
      PROVE  /\ \A b \in Requests : result'[b] = result[b] /\ (req[b] # NoRequest => req'[b] = req[b])
             /\ db'.log = db.log
  BY <1>5, AskUnanswered, AskKeepsOthers
<1>6. CASE PruneOpening
  BY <1>6, LogsAfter DEF PruneOpening
<1>7. \A c \in Requests : req[c].op # "none" => req[c] # NoRequest
  BY DEF NoRequest
<1>8. \A c \in Requests : Record(c) \/ Cancel(c) \/ Spend(c) \/ Entry(c) \/ CompleteMission(c) \/ DeleteChild(c)
                         => req[c].op # "none"
  BY DEF Record, Cancel, Spend, Entry, CompleteMission, DeleteChild, Pending
<1> QED BY <1>1, <1>2, <1>3, <1>4, <1>5, <1>6, <1>7, <1>8, LedgerCases

LEMMA RefundInvariant == Spec => []RefundInv
<1>1. Init => RefundInv
  BY DEF Init, LedgerInit, OpeningDb, NoRequest, RefundInv, LogsAnswered, AnsweredAsked, NoDoubleRefund
<1>2. TypeInv /\ Coherence /\ RefundInv /\ [Next]_vars => RefundInv'
  <2> SUFFICES ASSUME TypeInv, RefundInv, [LedgerNext]_ledgerVars PROVE RefundInv'
    BY LedgerStep
  <2>0. db.log \in [Requests -> {"absent", "active", "cancelled"}]
    BY DEF TypeInv, TypeOK, Database
  <2>1. ASSUME NEW b \in Requests, req[b].op = "cancel" PROVE req[b].log \in Requests
    BY <2>1, RequestByOp DEF TypeInv, TypeOK, CancelRequest
  <2>2. CASE UNCHANGED ledgerVars
    <3>1. db' = db /\ req' = req /\ result' = result
      BY <2>2 DEF ledgerVars
    <3>2. LogsAnswered' /\ AnsweredAsked'
      BY <3>1 DEF RefundInv, LogsAnswered, AnsweredAsked
    <3>3. NoDoubleRefund'
      BY <3>1 DEF RefundInv, NoDoubleRefund
    <3> QED BY <3>2, <3>3 DEF RefundInv
  <2>3. CASE LedgerNext
    <3>1. CASE /\ \A b \in Requests : result'[b] = result[b] /\ (req[b] # NoRequest => req'[b] = req[b])
               /\ db'.log = db.log
      <4>1. \A b \in Requests : result[b] = "ok" => req'[b] = req[b]
        BY <3>1 DEF RefundInv, AnsweredAsked
      <4> QED BY <2>1, <3>1, <4>1 DEF RefundInv, LogsAnswered, AnsweredAsked, NoDoubleRefund
    <3>2. ASSUME NEW c \in Requests, result[c] = "none", req' = req, req[c] # NoRequest,
                 \A b \in Requests \ {c} : result'[b] = result[b],
                 Record(c), result'[c] = "ok", db'.log = [db.log EXCEPT ![c] = "active"]
          PROVE  RefundInv'
      <4>1. req[c].op # "cancel"
        BY <3>2 DEF Record, Pending
      <4> QED BY <2>0, <2>1, <3>2, <4>1 DEF RefundInv, LogsAnswered, AnsweredAsked, NoDoubleRefund
    <3>3. ASSUME NEW c \in Requests, result[c] = "none", req' = req, req[c] # NoRequest,
                 \A b \in Requests \ {c} : result'[b] = result[b],
                 Cancel(c), result'[c] = "ok", db'.log = [db.log EXCEPT ![req[c].log] = "cancelled"]
          PROVE  RefundInv'
      <4>1. req[c].op = "cancel" /\ req[c].log \in Requests /\ db.log[req[c].log] = "active"
        BY <2>1, <3>3 DEF Cancel, Pending
      <4>2. result[req[c].log] = "ok"
        BY <4>1 DEF RefundInv, LogsAnswered
      <4> QED BY <2>0, <2>1, <3>3, <4>1, <4>2 DEF RefundInv, LogsAnswered, AnsweredAsked, NoDoubleRefund
    <3>4. ASSUME NEW c \in Requests, result[c] = "none", req' = req, req[c] # NoRequest,
                 \A b \in Requests \ {c} : result'[b] = result[b],
                 ~ (req[c].op = "cancel" /\ result'[c] = "ok"), result'[c] # "none",
                 db'.log = db.log \/ db'.log = [b \in Requests |-> "absent"]
          PROVE  RefundInv'
      BY <2>0, <2>1, <3>4 DEF RefundInv, LogsAnswered, AnsweredAsked, NoDoubleRefund
    <3> QED BY <2>3, <3>1, <3>2, <3>3, <3>4, StepOfLogs
  <2> QED BY <2>2, <2>3
<1> QED BY <1>1, <1>2, TypeInvariant, CoherenceInvariant, PTL DEF Spec

(* No two cancellations refund the same log.                               *)
THEOREM RefundSafe == Spec => []NoDoubleRefund
<1>1. RefundInv => NoDoubleRefund
  BY DEF RefundInv
<1> QED BY <1>1, RefundInvariant, PTL

-----------------------------------------------------------------------------
(* The stored balance as a sum over the ledger.                            *)

(* The amounts of the entries as a function, and their sum.                *)
Amounts(r) == [e \in Entries |-> IF e = Opening THEN OpeningBalance ELSE Amount(r[e])]

SumRecursion(r, T, g) ==
    g = [s \in SUBSET T |->
            IF s = {} THEN 0
            ELSE (IF First(s) = Opening THEN OpeningBalance ELSE Amount(r[First(s)]))
                     + g[s \ {First(s)}]]

LEMMA SumUnfolded ==
  /\ MapThenSumSet(EntryAmount, db.ledger)
       = (CHOOSE g : SumRecursion(req, db.ledger, g))[db.ledger]
  /\ MapThenSumSet(EntryAmount, db.ledger)'
       = (CHOOSE g : SumRecursion(req', db'.ledger, g))[db'.ledger]
BY Zenon DEF MapThenSumSet, MapThenFoldSet, EntryAmount, SumRecursion, First

LEMMA SumIsOfAmounts ==
  ASSUME NEW r, NEW T \in SUBSET Entries
  PROVE  (CHOOSE g : SumRecursion(r, T, g))[T] = SumOf(Amounts(r), T)
<1> DEFINE A == Amounts(r)
           g == CHOOSE gg : SumRecursion(r, T, gg)
           h == CHOOSE gg : Sums(A, T, gg)
<1>1. IsFiniteSet(Entries)
  BY ConstantsAssumption, FS_AddElement DEF Entries
<1>2. IsFiniteSet(T)
  BY <1>1, FS_Subset
<1>3. ASSUME NEW gg PROVE SumRecursion(r, T, gg) <=> Sums(A, T, gg)
  <2>1. \A s \in SUBSET T : s # {} =>
           A[First(s)] = IF First(s) = Opening THEN OpeningBalance ELSE Amount(r[First(s)])
    BY FirstIn DEF Amounts
  <2> DEFINE F == [s \in SUBSET T |-> IF s = {} THEN 0 ELSE A[First(s)] + gg[s \ {First(s)}]]
             G == [s \in SUBSET T |->
                     IF s = {} THEN 0
                     ELSE (IF First(s) = Opening THEN OpeningBalance ELSE Amount(r[First(s)]))
                              + gg[s \ {First(s)}]]
  <2>2. F = G
    BY <2>1
  <2> QED BY <2>2 DEF SumRecursion, Sums
<1>4. Sums(A, T, h)
  BY <1>2, SumsExist
<1>5. Sums(A, T, g)
  BY <1>3, <1>4
<1>6. SumOf(A, T) = h[T] /\ T \in SUBSET T
  BY DEF SumOf
<1> HIDE DEF A, g, h
<1>7. g[T] = h[T]
  <2>1. \A V \in SUBSET T : g[V] = h[V]
    BY <1>2, <1>4, <1>5, SumsUnique
  <2> QED BY <1>6, <2>1
<1> QED BY <1>6, <1>7 DEF A, g

LEMMA BalanceAsSum ==
  ASSUME TypeInv, TypeInv'
  PROVE  /\ BalanceMatchesLedger <=> (db.exists => db.total = db.pruned + SumOf(Amounts(req), db.ledger))
         /\ BalanceMatchesLedger' <=> (db'.exists => db'.total = db'.pruned + SumOf(Amounts(req'), db'.ledger))
<1>1. db.ledger \in SUBSET Entries /\ db'.ledger \in SUBSET Entries
  BY DEF TypeInv, TypeOK, Database
<1>2. /\ MapThenSumSet(EntryAmount, db.ledger) = SumOf(Amounts(req), db.ledger)
      /\ MapThenSumSet(EntryAmount, db.ledger)' = SumOf(Amounts(req'), db'.ledger)
  BY <1>1, SumUnfolded, SumIsOfAmounts, Zenon
<1>3. /\ BalanceMatchesLedger <=> (db.exists => db.total = db.pruned + MapThenSumSet(EntryAmount, db.ledger))
      /\ BalanceMatchesLedger' <=> (db'.exists => db'.total = db'.pruned + MapThenSumSet(EntryAmount, db.ledger)')
  BY Zenon DEF BalanceMatchesLedger
<1> QED BY <1>2, <1>3, Zenon

-----------------------------------------------------------------------------
(* The derived columns after each step of the ledger.                      *)

LEMMA RecordColumns ==
  ASSUME TypeInv, NEW c \in Requests, Record(c)
  PROVE  /\ req[c] \in RecordRequest /\ result[c] = "none" /\ req' = req
         /\ db'.exists = db.exists /\ db'.pruned = db.pruned
         /\ db'.ledger = db.ledger \cup {c}
         /\ db'.total = (IF db.exists THEN db.total + Amount(req[c]) ELSE db.total)
         /\ db'.mastery = [db.mastery EXCEPT ![req[c].activity] = @ + 1]
         /\ db'.xp = db.xp + Amount(req[c])
         /\ db'.peak = (IF db.xp + Amount(req[c]) >= db.peak THEN db.xp + Amount(req[c]) ELSE db.peak)
         /\ db'.missions = db.missions
<1>1. db \in Database /\ req[c] \in RecordRequest
  BY RequestByOp DEF Record, Pending, TypeInv, TypeOK
<1> QED BY <1>1 DEF Record, Pending, Answer, Recorded, AddPoints, Database, RecordRequest

LEMMA CancelColumns ==
  ASSUME TypeInv, NEW c \in Requests, Cancel(c)
  PROVE  LET r == req[c]
             a == req[r.log].activity
         IN  /\ r \in CancelRequest /\ result[c] = "none" /\ req' = req
             /\ req[r.log] \in RecordRequest /\ db.log[r.log] = "active"
             /\ db'.exists = db.exists /\ db'.pruned = db.pruned
             /\ db'.ledger = db.ledger \cup {c}
             /\ db'.total = db.total + Amount(r)
             /\ db'.mastery = [db.mastery EXCEPT ![a] = IF @ > 0 THEN @ - 1 ELSE @]
             /\ db'.xp = (IF r.hasCategory THEN RevertXp(db.xp, r.refund, db.peak) ELSE db.xp)
             /\ db'.peak = db.peak
             /\ db'.missions = db.missions
<1>1. db \in Database /\ req[c] \in CancelRequest
  BY RequestByOp DEF Cancel, Pending, TypeInv, TypeOK
<1>2. req[req[c].log] \in RecordRequest
  BY DEF Cancel, Pending, TypeInv, CancelsNameRecords
<1> QED BY <1>1, <1>2 DEF Cancel, Pending, Answer, Cancelled, Database, RecordRequest

LEMMA PostColumns ==
  ASSUME TypeInv, NEW c \in Requests, Spend(c) \/ Entry(c)
  PROVE  /\ req[c] \in Request /\ req[c].op # "mission" /\ result[c] = "none" /\ req' = req
         /\ db'.exists = db.exists /\ db'.pruned = db.pruned
         /\ db'.ledger = db.ledger \cup {c}
         /\ db'.total = db.total + Amount(req[c])
         /\ db'.mastery = db.mastery /\ db'.xp = db.xp /\ db'.peak = db.peak
         /\ db'.missions = db.missions
<1>1. db \in Database /\ (req[c] \in SpendRequest \/ req[c] \in EntryRequest)
  BY RequestByOp DEF Spend, Entry, Pending, TypeInv, TypeOK
<1> QED BY <1>1 DEF Spend, Entry, Pending, Answer, Posted, Database, Request, SpendRequest, EntryRequest

LEMMA MissionColumns ==
  ASSUME TypeInv, NEW c \in Requests, CompleteMission(c)
  PROVE  /\ req[c] \in MissionRequest /\ result[c] = "none" /\ req' = req
         /\ db'.exists = db.exists /\ db'.pruned = db.pruned
         /\ db'.mastery = db.mastery /\ db'.xp = db.xp /\ db'.peak = db.peak
         /\ \/ /\ db.missions[req[c].mission] # "open"
               /\ db' = db
            \/ /\ db.missions[req[c].mission] = "open"
               /\ db'.missions = [db.missions EXCEPT ![req[c].mission] = "completed"]
               /\ \/ /\ ~CompletesAll(db, req[c].mission)
                     /\ db'.ledger = db.ledger /\ db'.total = db.total
                  \/ /\ CompletesAll(db, req[c].mission)
                     /\ db'.ledger = db.ledger \cup {c}
                     /\ db'.total = (IF db.exists THEN db.total + Amount(req[c]) ELSE db.total)
<1>1. db \in Database /\ req[c] \in MissionRequest
  BY RequestByOp DEF CompleteMission, Pending, TypeInv, TypeOK
<1>2. Amount(req[c]) = MissionBonus
  BY <1>1 DEF MissionRequest, Amount
<1> QED BY <1>1, <1>2 DEF CompleteMission, Pending, Answer, MissionCompleted, AddPoints, Database

LEMMA DeleteColumns ==
  ASSUME TypeInv, NEW c \in Requests, DeleteChild(c)
  PROVE  /\ result[c] = "none" /\ req' = req
         /\ db'.exists = FALSE /\ db'.ledger = {} /\ db'.xp = 0 /\ db'.peak = 0
<1>1. db \in Database
  BY DEF TypeInv, TypeOK
<1> QED BY <1>1 DEF DeleteChild, Pending, Answer, ChildDeleted, Database

LEMMA PruneColumns ==
  ASSUME TypeInv, PruneOpening
  PROVE  /\ Opening \in db.ledger /\ req' = req /\ result' = result
         /\ db'.exists = db.exists /\ db'.total = db.total
         /\ db'.pruned = db.pruned + OpeningBalance
         /\ db'.ledger = db.ledger \ {Opening}
         /\ db'.mastery = db.mastery /\ db'.xp = db.xp /\ db'.peak = db.peak
         /\ db'.missions = db.missions
<1>1. db \in Database
  BY DEF TypeInv, TypeOK
<1> QED BY <1>1 DEF PruneOpening, Database

-----------------------------------------------------------------------------
(* Entries are of requests that were answered, so what they post is fixed. *)
EntriesAnswered == \A c \in Requests : c \in db.ledger => result[c] = "ok"

RowsInv == RefundInv /\ EntriesAnswered

(* A step that answers c and may add its entry.                            *)
LEMMA EntriesStep ==
  ASSUME TypeInv, EntriesAnswered, [LedgerNext]_ledgerVars PROVE EntriesAnswered'
<1>1. ASSUME NEW c \in Requests, Answer(c, "ok"), result[c] = "none", db'.ledger \subseteq db.ledger \cup {c}
      PROVE  EntriesAnswered'
  BY <1>1, AnswersOnce DEF EntriesAnswered
<1>2. ASSUME NEW c \in Requests, Record(c) PROVE EntriesAnswered'
  BY <1>1, <1>2, RecordColumns DEF Record, Pending
<1>3. ASSUME NEW c \in Requests, Cancel(c) PROVE EntriesAnswered'
  BY <1>1, <1>3, CancelColumns DEF Cancel, Pending
<1>4. ASSUME NEW c \in Requests, Spend(c) \/ Entry(c) PROVE EntriesAnswered'
  BY <1>1, <1>4, PostColumns DEF Spend, Entry, Pending
<1>5. ASSUME NEW c \in Requests, CompleteMission(c) PROVE EntriesAnswered'
  <2>1. db'.ledger = db.ledger \/ db'.ledger = db.ledger \cup {c}
    BY <1>5, MissionColumns
  <2> QED BY <1>1, <1>5, <2>1 DEF CompleteMission, Pending
<1>6. ASSUME NEW c \in Requests, DeleteChild(c) PROVE EntriesAnswered'
  BY <1>6, DeleteColumns DEF EntriesAnswered
<1>7. ASSUME NEW c \in Requests, TurnAway(c) PROVE EntriesAnswered'
  <2>1. PICK reason \in Rejections : Answer(c, reason) /\ result[c] = "none" /\ UNCHANGED db
    BY <1>7 DEF TurnAway
  <2> QED BY <2>1, AnswersOnce DEF EntriesAnswered
<1>8. ASSUME NEW c \in Requests, ServiceReads(c) PROVE EntriesAnswered'
  BY <1>8, AskUnanswered, AskKeepsOthers DEF EntriesAnswered
<1>9. CASE PruneOpening
  BY <1>9, PruneColumns DEF EntriesAnswered
<1>10. CASE UNCHANGED ledgerVars
  BY <1>10 DEF ledgerVars, EntriesAnswered
<1> QED BY <1>2, <1>3, <1>4, <1>5, <1>6, <1>7, <1>8, <1>9, <1>10, LedgerCases

LEMMA RowsInvariant == Spec => []RowsInv
<1>1. Init => EntriesAnswered
  BY ConstantsAssumption DEF Init, LedgerInit, OpeningDb, EntriesAnswered
<1>2. TypeInv /\ Coherence /\ EntriesAnswered /\ [Next]_vars => EntriesAnswered'
  BY EntriesStep, LedgerStep
<1> QED BY <1>1, <1>2, RefundInvariant, TypeInvariant, CoherenceInvariant, PTL DEF Spec, RowsInv

(* What a step does to the ledger: it posts one entry that was not there,  *)
(* prunes the opening balance, or leaves both the entries and the amounts. *)
LEMMA LedgerAfter ==
  ASSUME TypeInv, TypeInv', RowsInv, [LedgerNext]_ledgerVars
  PROVE  \/ ~db'.exists
         \/ /\ db'.exists = db.exists /\ db'.pruned = db.pruned /\ db'.total = db.total
            /\ db'.ledger = db.ledger
            /\ \A e \in db.ledger : Amounts(req')[e] = Amounts(req)[e]
         \/ \E c \in Requests :
              /\ c \notin db.ledger /\ req' = req /\ req[c] \in Request
              /\ db'.exists = db.exists /\ db'.pruned = db.pruned
              /\ db'.ledger = db.ledger \cup {c} /\ db'.total = db.total + Amount(req[c])
         \/ /\ Opening \in db.ledger /\ req' = req
            /\ db'.exists = db.exists /\ db'.total = db.total
            /\ db'.pruned = db.pruned + OpeningBalance
            /\ db'.ledger = db.ledger \ {Opening}
<1>0. \A c \in Requests : result[c] = "none" => c \notin db.ledger
  BY DEF RowsInv, EntriesAnswered
<1>1. ASSUME NEW c \in Requests, Record(c) \/ Cancel(c) \/ Spend(c) \/ Entry(c), db'.exists
      PROVE  /\ c \notin db.ledger /\ req' = req /\ req[c] \in Request
             /\ db'.exists = db.exists /\ db'.pruned = db.pruned
             /\ db'.ledger = db.ledger \cup {c} /\ db'.total = db.total + Amount(req[c])
  BY <1>0, <1>1, RecordColumns, CancelColumns, PostColumns DEF Request
<1>2. ASSUME NEW c \in Requests, CompleteMission(c), db'.exists
      PROVE  \/ UNCHANGED <<db, req>>
             \/ /\ db'.exists = db.exists /\ db'.pruned = db.pruned /\ db'.total = db.total
                /\ db'.ledger = db.ledger /\ req' = req
             \/ /\ c \notin db.ledger /\ req' = req /\ req[c] \in Request
                /\ db'.exists = db.exists /\ db'.pruned = db.pruned
                /\ db'.ledger = db.ledger \cup {c} /\ db'.total = db.total + Amount(req[c])
  BY <1>0, <1>2, MissionColumns DEF Request
<1>3. ASSUME NEW c \in Requests, DeleteChild(c) PROVE ~db'.exists
  BY <1>3, DeleteColumns
<1>4. ASSUME NEW c \in Requests, TurnAway(c) PROVE UNCHANGED <<db, req>>
  BY <1>4 DEF TurnAway, Answer
<1>5. ASSUME NEW c \in Requests, ServiceReads(c)
      PROVE  /\ db'.exists = db.exists /\ db'.pruned = db.pruned /\ db'.total = db.total
             /\ db'.ledger = db.ledger
             /\ \A e \in db.ledger : Amounts(req')[e] = Amounts(req)[e]
  <2>1. /\ db' = db /\ req[c] = NoRequest
        /\ \A b \in Requests \ {c} : req'[b] = req[b]
    BY <1>5, AskUnanswered, AskKeepsOthers
  <2>2. c \notin db.ledger
    BY <2>1 DEF RowsInv, RefundInv, AnsweredAsked, EntriesAnswered
  <2>3. db.ledger \subseteq Entries
    BY DEF TypeInv, TypeOK, Database
  <2>4. ASSUME NEW e \in db.ledger PROVE Amounts(req')[e] = Amounts(req)[e]
    BY <2>1, <2>2, <2>3 DEF Amounts, Entries
  <2> QED BY <2>1, <2>4
<1>6. CASE UNCHANGED <<db, req>>
  BY <1>6
<1>7. CASE UNCHANGED ledgerVars
  BY <1>6, <1>7 DEF ledgerVars
<1>8. CASE PruneOpening
  BY <1>8, PruneColumns
<1>9. ASSUME NEW c \in Requests,
             Record(c) \/ Cancel(c) \/ Spend(c) \/ Entry(c) \/ CompleteMission(c) \/ DeleteChild(c)
               \/ TurnAway(c) \/ ServiceReads(c)
      PROVE  \/ ~db'.exists
             \/ UNCHANGED <<db, req>>
             \/ /\ db'.exists = db.exists /\ db'.pruned = db.pruned /\ db'.total = db.total
                /\ db'.ledger = db.ledger
                /\ \A e \in db.ledger : Amounts(req')[e] = Amounts(req)[e]
             \/ /\ c \notin db.ledger /\ req' = req /\ req[c] \in Request
                /\ db'.exists = db.exists /\ db'.pruned = db.pruned
                /\ db'.ledger = db.ledger \cup {c} /\ db'.total = db.total + Amount(req[c])
  BY <1>1, <1>2, <1>3, <1>4, <1>5, <1>9
<1> QED BY <1>6, <1>7, <1>8, <1>9, LedgerCases

(* The balance follows the ledger.                                         *)
LEMMA BalanceStep ==
  ASSUME TypeInv, TypeInv', RowsInv, BalanceMatchesLedger, [LedgerNext]_ledgerVars
  PROVE  BalanceMatchesLedger'
<1> DEFINE T == db.ledger
           A == Amounts(req)
<1> SUFFICES ASSUME db'.exists PROVE db'.total = db'.pruned + SumOf(Amounts(req'), db'.ledger)
  BY BalanceAsSum
<1>1. T \subseteq Entries /\ IsFiniteSet(T)
  <2>1. IsFiniteSet(Entries)
    BY ConstantsAssumption, FS_AddElement DEF Entries
  <2>2. db.ledger \in SUBSET Entries
    BY DEF TypeInv, TypeOK, Database
  <2> QED BY <2>1, <2>2, FS_Subset
<1>2. db.exists => db.total = db.pruned + SumOf(A, T)
  BY BalanceAsSum
<1>3. \A e \in T : A[e] \in Int
  <2> SUFFICES ASSUME NEW e \in T PROVE A[e] \in Int
    OBVIOUS
  <2>1. CASE e = Opening
    BY <1>1, <2>1, ConstantsAssumption DEF Amounts
  <2>2. CASE e # Opening
    <3>1. e \in Requests /\ req[e] \in Request
      BY <1>1, <2>2 DEF Entries, RowsInv, RefundInv, AnsweredAsked, EntriesAnswered, TypeInv, TypeOK
    <3> QED BY <1>1, <2>2, <3>1, AmountIsInt DEF Amounts
  <2> QED BY <2>1, <2>2
<1>4. db.total \in Int /\ db.pruned \in Int /\ SumOf(A, T) \in Int
  BY <1>1, <1>3, SumOfIsInt DEF TypeInv, TypeOK, Database
<1>5. CASE /\ db'.exists = db.exists /\ db'.pruned = db.pruned /\ db'.total = db.total
           /\ db'.ledger = db.ledger
           /\ \A e \in db.ledger : Amounts(req')[e] = Amounts(req)[e]
  <2>1. SumOf(Amounts(req'), T) = SumOf(A, T)
    BY <1>1, <1>5, SumOfAgrees
  <2> QED BY <1>2, <1>5, <2>1
<1>6. ASSUME NEW c \in Requests,
             c \notin db.ledger, req' = req, req[c] \in Request,
             db'.exists = db.exists, db'.pruned = db.pruned,
             db'.ledger = db.ledger \cup {c}, db'.total = db.total + Amount(req[c])
      PROVE  db'.total = db'.pruned + SumOf(Amounts(req'), db'.ledger)
  <2>1. A[c] = Amount(req[c]) /\ A[c] \in Int
    BY <1>6, ConstantsAssumption, AmountIsInt DEF Amounts, Entries
  <2>2. \A e \in T \cup {c} : A[e] \in Int
    BY <1>3, <2>1
  <2>3. SumOf(A, T \cup {c}) = SumOf(A, T) + A[c]
    <3> HIDE DEF A, T
    <3> QED BY <1>1, <1>6, <2>2, SumOfAdds DEF T
  <2> QED BY <1>2, <1>4, <1>6, <2>1, <2>3
<1>7. ASSUME Opening \in db.ledger, req' = req, db'.exists = db.exists, db'.total = db.total,
             db'.pruned = db.pruned + OpeningBalance, db'.ledger = db.ledger \ {Opening}
      PROVE  db'.total = db'.pruned + SumOf(Amounts(req'), db'.ledger)
  <2> DEFINE U == T \ {Opening}
  <2>1. IsFiniteSet(U) /\ Opening \notin U /\ U \cup {Opening} = T
    BY <1>1, <1>7, FS_RemoveElement
  <2>2. A[Opening] = OpeningBalance /\ OpeningBalance \in Int
    BY ConstantsAssumption DEF Amounts, Entries
  <2>3. \A e \in U \cup {Opening} : A[e] \in Int
    BY <1>3, <2>1
  <2>4. SumOf(A, T) = SumOf(A, U) + A[Opening] /\ SumOf(A, U) \in Int
    <3> HIDE DEF A, T, U
    <3>1. SumOf(A, U \cup {Opening}) = SumOf(A, U) + A[Opening]
      BY <2>1, <2>3, SumOfAdds
    <3>2. SumOf(A, U) \in Int
      BY <2>1, <2>3, SumOfIsInt
    <3> QED BY <2>1, <3>1, <3>2
  <2> QED BY <1>2, <1>4, <1>7, <2>2, <2>4
<1> QED BY <1>5, <1>6, <1>7, LedgerAfter

(* No cancellation takes points that were never given.                     *)
RefundsNat == \A c \in Requests : req[c].op = "cancel" => req[c].refund \in Nat

LEMMA RefundsStep ==
  ASSUME TypeInv, RefundsNat, [LedgerNext]_ledgerVars PROVE RefundsNat'
<1>1. CASE req' = req
  BY <1>1 DEF RefundsNat
<1>2. ASSUME NEW c \in Requests, ServiceReads(c) PROVE RefundsNat'
  <2>1. \A b \in Requests \ {c} : req'[b] = req[b]
    BY <1>2, AskUnanswered, AskKeepsOthers
  <2>2. req'[c].op = "cancel" => req'[c].refund \in Nat
    <3>1. ASSUME NEW l \in Requests, AskCancel(c, l) PROVE req'[c].refund \in Nat
      <4>1. req[l] \in RecordRequest
        BY <3>1 DEF AskCancel, TypeInv, LogsRecorded
      <4>2. /\ req[l].points \in Nat /\ req[l].streak \in Nat
            /\ db.mastery[req[l].activity] \in Nat
        BY <4>1 DEF RecordRequest, TypeInv, TypeOK, Database
      <4>3. MasteryRefund(db.mastery[req[l].activity]) \in Nat
        BY <4>2, RefundIsNat
      <4>4. req'[c].refund = req[l].points + req[l].streak + MasteryRefund(db.mastery[req[l].activity])
        BY <3>1 DEF AskCancel, Ask, TypeInv, TypeOK
      <4> QED BY <4>2, <4>3, <4>4
    <3>2. ASSUME NEW r, Ask(c, r) PROVE req'[c] = r
      BY <3>2 DEF Ask, TypeInv, TypeOK
    <3>3. (\E l \in Requests : AskCancel(c, l)) \/ req'[c].op # "cancel"
      <4>1. ASSUME NEW a \in Activities, AskRecord(c, a) PROVE req'[c].op = "record"
        BY <3>2, <4>1 DEF AskRecord
      <4>2. ASSUME NEW n, AskSpend(c, n) PROVE req'[c].op = "spend"
        BY <3>2, <4>2 DEF AskSpend
      <4>3. ASSUME NEW n, AskConvert(c, n) \/ AskGrant(c, n) PROVE req'[c].op = "entry"
        BY <3>2, <4>3 DEF AskConvert, AskGrant
      <4>4. ASSUME NEW m, AskMission(c, m) PROVE req'[c].op = "mission"
        BY <3>2, <4>4 DEF AskMission
      <4>5. ASSUME AskDelete(c) PROVE req'[c].op = "delete"
        BY <3>2, <4>5 DEF AskDelete
      <4> QED BY <1>2, <4>1, <4>2, <4>3, <4>4, <4>5 DEF ServiceReads
    <3> QED BY <3>1, <3>3
  <2> QED BY <2>1, <2>2 DEF RefundsNat
<1>3. ASSUME NEW c \in Requests,
             Record(c) \/ Cancel(c) \/ Spend(c) \/ Entry(c) \/ CompleteMission(c) \/ DeleteChild(c) \/ TurnAway(c)
      PROVE  req' = req
  BY <1>3 DEF Record, Cancel, Spend, Entry, CompleteMission, DeleteChild, TurnAway, Answer
<1>4. CASE PruneOpening
  BY <1>1, <1>4 DEF PruneOpening
<1>5. CASE UNCHANGED ledgerVars
  BY <1>1, <1>5 DEF ledgerVars
<1> QED BY <1>1, <1>2, <1>3, <1>4, <1>5, LedgerCases

(* XP.                                                                     *)
LEMMA RevertXpInBand ==
  ASSUME NEW x \in Nat, NEW k \in Nat, NEW p \in Nat, x <= p
  PROVE  DecayFloor(p) <= RevertXp(x, k, p) /\ RevertXp(x, k, p) <= p
BY FloorBelowPeak DEF RevertXp

LEMMA XpStep ==
  ASSUME TypeInv, RefundsNat, XpBand, [LedgerNext]_ledgerVars PROVE XpBand'
<1>0. db.xp \in Nat /\ db.peak \in Nat
  BY DEF TypeInv, TypeOK, Database
<1>1. CASE db'.xp = db.xp /\ db'.peak = db.peak
  BY <1>1 DEF XpBand
<1>2. ASSUME NEW c \in Requests, Record(c) PROVE XpBand'
  <2>1. Amount(req[c]) \in Nat
    BY <1>2, RecordColumns, RecordAmount
  <2>2. /\ db'.xp = db.xp + Amount(req[c])
        /\ db'.peak = IF db.xp + Amount(req[c]) >= db.peak THEN db.xp + Amount(req[c]) ELSE db.peak
    BY <1>2, RecordColumns
  <2>3. db'.peak \in Nat /\ DecayFloor(db'.peak) <= db'.peak /\ DecayFloor(db'.peak) \in Nat
    BY <1>0, <2>1, <2>2, FloorBelowPeak
  <2>4. CASE db.xp + Amount(req[c]) >= db.peak
    BY <2>2, <2>3, <2>4 DEF XpBand
  <2>5. CASE ~(db.xp + Amount(req[c]) >= db.peak)
    BY <1>0, <2>1, <2>2, <2>3, <2>5 DEF XpBand
  <2> QED BY <2>4, <2>5
<1>3. ASSUME NEW c \in Requests, Cancel(c) PROVE XpBand'
  <2>1. req[c].refund \in Nat
    BY <1>3 DEF RefundsNat, Cancel, Pending
  <2>2. /\ db'.xp = IF req[c].hasCategory THEN RevertXp(db.xp, req[c].refund, db.peak) ELSE db.xp
        /\ db'.peak = db.peak
    BY <1>3, CancelColumns
  <2> QED BY <1>0, <2>1, <2>2, RevertXpInBand DEF XpBand
<1>4. ASSUME NEW c \in Requests, Spend(c) \/ Entry(c) \/ CompleteMission(c) PROVE XpBand'
  BY <1>1, <1>4, PostColumns, MissionColumns
<1>5. ASSUME NEW c \in Requests, DeleteChild(c) PROVE XpBand'
  <2>1. db'.xp = 0 /\ db'.peak = 0
    BY <1>5, DeleteColumns
  <2>2. DecayFloor(0) \in Nat /\ DecayFloor(0) <= 0
    BY FloorBelowPeak
  <2> QED BY <2>1, <2>2 DEF XpBand
<1>6. ASSUME NEW c \in Requests, TurnAway(c) \/ ServiceReads(c) PROVE XpBand'
  <2>1. db' = db
    BY <1>6, AskUnanswered, AskKeepsOthers DEF TurnAway
  <2> QED BY <1>1, <2>1
<1>7. CASE PruneOpening
  BY <1>1, <1>7, PruneColumns
<1>8. CASE UNCHANGED ledgerVars
  BY <1>1, <1>8 DEF ledgerVars
<1> QED BY <1>2, <1>3, <1>4, <1>5, <1>6, <1>7, <1>8, LedgerCases

(* The mastery counts.                                                     *)
LEMMA MasteryStep ==
  ASSUME TypeInv, RowsInv, MasteryCountsActiveLogs, [LedgerNext]_ledgerVars
  PROVE  MasteryCountsActiveLogs'
<1> SUFFICES ASSUME db'.exists, NEW a \in Activities
             PROVE  db'.mastery[a] = OpeningMastery[a] + Cardinality(ActiveLogs(db, req, a)')
  BY DEF MasteryCountsActiveLogs
<1> DEFINE S == ActiveLogs(db, req, a)
           S1 == ActiveLogs(db, req, a)'
<1>0. /\ db.log \in [Requests -> {"absent", "active", "cancelled"}] /\ db.mastery \in [Activities -> Nat]
      /\ OpeningMastery[a] \in Nat
  BY ConstantsAssumption DEF TypeInv, TypeOK, Database
<1>1. IsFiniteSet(S) /\ Cardinality(S) \in Nat
  BY ActiveFinite
<1>2. CASE db'.exists = db.exists /\ db'.mastery = db.mastery /\ S1 = S
  BY <1>2 DEF MasteryCountsActiveLogs
<1>3. ASSUME NEW c \in Requests, Record(c) PROVE db'.mastery[a] = OpeningMastery[a] + Cardinality(S1)
  <2>1. /\ req[c] \in RecordRequest /\ req' = req /\ db'.exists = db.exists
        /\ db'.mastery = [db.mastery EXCEPT ![req[c].activity] = @ + 1]
        /\ db'.log = [db.log EXCEPT ![c] = "active"]
    BY <1>3, RecordColumns, LogsAfter
  <2>2. db.log[c] = "absent"
    BY <1>3 DEF RowsInv, RefundInv, LogsAnswered, Record, Pending
  <2>3. db.mastery[a] = OpeningMastery[a] + Cardinality(S)
    BY <2>1 DEF MasteryCountsActiveLogs
  <2>4. CASE req[c].activity = a
    <3>1. S1 = S \cup {c} /\ c \notin S
      BY <1>0, <2>1, <2>2, <2>4 DEF ActiveLogs
    <3>2. db'.mastery[a] = db.mastery[a] + 1
      BY <1>0, <2>1, <2>4
    <3> HIDE DEF S, S1
    <3>3. Cardinality(S1) = Cardinality(S) + 1
      BY <1>1, <3>1, FS_AddElement
    <3> QED BY <1>0, <1>1, <2>3, <3>2, <3>3
  <2>5. CASE req[c].activity # a
    <3>1. S1 = S
      BY <1>0, <2>1, <2>2, <2>5 DEF ActiveLogs
    <3>2. db'.mastery[a] = db.mastery[a]
      BY <1>0, <2>1, <2>5
    <3> QED BY <2>3, <3>1, <3>2
  <2> QED BY <2>4, <2>5
<1>4. ASSUME NEW c \in Requests, Cancel(c) PROVE db'.mastery[a] = OpeningMastery[a] + Cardinality(S1)
  <2> DEFINE l == req[c].log
             b == req[l].activity
  <2>1. /\ l \in Requests /\ req[l] \in RecordRequest /\ db.log[l] = "active" /\ req' = req
        /\ db'.exists = db.exists
        /\ db'.mastery = [db.mastery EXCEPT ![b] = IF @ > 0 THEN @ - 1 ELSE @]
        /\ db'.log = [db.log EXCEPT ![l] = "cancelled"]
    BY <1>4, CancelColumns, LogsAfter DEF CancelRequest
  <2>2. b \in Activities
    BY <2>1 DEF RecordRequest
  <2>3. db.mastery[a] = OpeningMastery[a] + Cardinality(S)
    BY <2>1 DEF MasteryCountsActiveLogs
  <2>4. CASE b = a
    <3>1. S1 = S \ {l} /\ l \in S
      BY <1>0, <2>1, <2>4 DEF ActiveLogs
    <3>2. db'.mastery[a] = IF db.mastery[a] > 0 THEN db.mastery[a] - 1 ELSE db.mastery[a]
      BY <1>0, <2>1, <2>4
    <3> HIDE DEF S, S1, l
    <3>3. Cardinality(S1) = Cardinality(S) - 1
      BY <1>1, <3>1, FS_RemoveElement
    <3>4. Cardinality(S) # 0
      BY <1>1, <3>1, FS_EmptySet
    <3> QED BY <1>0, <1>1, <2>3, <3>2, <3>3, <3>4
  <2>5. CASE b # a
    <3>1. S1 = S
      BY <1>0, <2>1, <2>5 DEF ActiveLogs
    <3>2. db'.mastery[a] = db.mastery[a]
      BY <1>0, <2>1, <2>2, <2>5
    <3> QED BY <2>3, <3>1, <3>2
  <2> QED BY <2>4, <2>5
<1>5. ASSUME NEW c \in Requests, Spend(c) \/ Entry(c) \/ CompleteMission(c)
      PROVE  db'.exists = db.exists /\ db'.mastery = db.mastery /\ S1 = S
  <2>1. req' = req /\ db'.log = db.log /\ db'.exists = db.exists /\ db'.mastery = db.mastery
    BY <1>5, LogsAfter, PostColumns, MissionColumns
  <2> QED BY <2>1 DEF ActiveLogs
<1>6. ASSUME NEW c \in Requests, TurnAway(c)
      PROVE  db'.exists = db.exists /\ db'.mastery = db.mastery /\ S1 = S
  BY <1>6 DEF TurnAway, Answer, ActiveLogs
<1>7. ASSUME NEW c \in Requests, ServiceReads(c)
      PROVE  db'.exists = db.exists /\ db'.mastery = db.mastery /\ S1 = S
  <2>1. /\ db' = db /\ db.log[c] = "absent"
        /\ \A b \in Requests \ {c} : req'[b] = req[b]
    BY <1>7, AskUnanswered, AskKeepsOthers
  <2> QED BY <2>1 DEF ActiveLogs
<1>8. ASSUME NEW c \in Requests, DeleteChild(c) PROVE FALSE
  BY <1>8, DeleteColumns
<1>9. CASE PruneOpening
  <2>1. req' = req /\ db'.log = db.log /\ db'.exists = db.exists /\ db'.mastery = db.mastery
    BY <1>9, LogsAfter, PruneColumns DEF PruneOpening, TypeInv, TypeOK, Database
  <2> QED BY <1>2, <2>1 DEF ActiveLogs
<1>10. CASE UNCHANGED ledgerVars
  BY <1>2, <1>10 DEF ledgerVars, ActiveLogs
<1> QED BY <1>2, <1>3, <1>4, <1>5, <1>6, <1>7, <1>8, <1>9, <1>10, LedgerCases

-----------------------------------------------------------------------------
(* The bonus of the day's missions.                                        *)
Paid(d, r) == {c \in Requests : r[c].op = "mission" /\ c \in d.ledger}

Done(d) == Missions # {} /\ \A m \in Missions : d.missions[m] = "completed"

NoneAbsent == db.exists => \A m \in Missions : db.missions[m] # "absent"

MissionInv == NoneAbsent /\ MissionBonusExactlyOnce

(* A step that completes no mission and posts no bonus.                    *)
LEMMA MissionsUntouched ==
  ASSUME MissionInv, db'.exists = db.exists, db'.missions = db.missions, Paid(db', req') = Paid(db, req)
  PROVE  MissionInv'
BY DEF MissionInv, NoneAbsent, MissionBonusExactlyOnce, Paid

LEMMA MissionStep ==
  ASSUME TypeInv, RowsInv, MissionInv, [LedgerNext]_ledgerVars PROVE MissionInv'
<1>0. \A c \in Requests : result[c] = "none" => c \notin db.ledger
  BY DEF RowsInv, EntriesAnswered
<1>1. ASSUME NEW c \in Requests, Record(c) \/ Cancel(c) \/ Spend(c) \/ Entry(c) PROVE MissionInv'
  <2>1. /\ db'.exists = db.exists /\ db'.missions = db.missions /\ req' = req
        /\ db'.ledger = db.ledger \cup {c}
    BY <1>1, RecordColumns, CancelColumns, PostColumns
  <2>2. req[c].op # "mission"
    BY <1>1 DEF Record, Cancel, Spend, Entry, Pending
  <2>3. Paid(db', req') = Paid(db, req)
    BY <2>1, <2>2 DEF Paid
  <2> QED BY <2>1, <2>3, MissionsUntouched
<1>2. ASSUME NEW c \in Requests, CompleteMission(c) PROVE MissionInv'
  <2> DEFINE m == req[c].mission
  <2>0. /\ req' = req /\ m \in Missions /\ db'.exists = db.exists
        /\ db.missions \in [Missions -> {"absent", "open", "completed"}]
    BY <1>2, MissionColumns DEF MissionRequest, TypeInv, TypeOK, Database
  <2>1. CASE db' = db
    BY <2>0, <2>1, MissionsUntouched
  <2>2. CASE /\ db.missions[m] = "open"
             /\ db'.missions = [db.missions EXCEPT ![m] = "completed"]
             /\ ~CompletesAll(db, m) /\ db'.ledger = db.ledger
    <3>1. PICK n \in Missions : n # m /\ db.missions[n] = "open"
      BY <2>0, <2>2 DEF CompletesAll, OpenMissions
    <3>2. ~Done(db) /\ ~Done(db')
      BY <2>0, <2>2, <3>1 DEF Done
    <3>3. Paid(db', req') = Paid(db, req)
      BY <2>0, <2>2 DEF Paid
    <3>4. NoneAbsent'
      BY <2>0, <2>2 DEF MissionInv, NoneAbsent
    <3> QED BY <2>0, <3>2, <3>3, <3>4 DEF MissionInv, MissionBonusExactlyOnce, Paid, Done
  <2>3. CASE /\ db.missions[m] = "open"
             /\ db'.missions = [db.missions EXCEPT ![m] = "completed"]
             /\ CompletesAll(db, m) /\ db'.ledger = db.ledger \cup {c}
    <3>1. NoneAbsent'
      BY <2>0, <2>3 DEF MissionInv, NoneAbsent
    <3>2. db.exists => Done(db')
      BY <2>0, <2>3 DEF CompletesAll, OpenMissions, Done, MissionInv, NoneAbsent
    <3>3. ~Done(db)
      BY <2>0, <2>3 DEF Done
    <3>4. Paid(db', req') = Paid(db, req) \cup {c} /\ c \notin Paid(db, req)
      <4>1. req[c].op = "mission" /\ result[c] = "none"
        BY <1>2 DEF CompleteMission, Pending
      <4> QED BY <1>0, <2>0, <2>3, <4>1 DEF Paid
    <3>5. IsFiniteSet(Paid(db, req))
      <4>1. Paid(db, req) \in SUBSET Requests
        BY DEF Paid
      <4> QED BY <4>1, ConstantsAssumption, FS_Subset
    <3>6. Cardinality(Paid(db', req')) = Cardinality(Paid(db, req)) + 1
      BY <3>4, <3>5, FS_AddElement
    <3>7. db.exists => Cardinality(Paid(db, req)) = 0
      BY <3>3 DEF MissionInv, MissionBonusExactlyOnce, Paid, Done
    <3>8. db'.exists => Cardinality(Paid(db', req')) = IF Done(db') THEN 1 ELSE 0
      BY <2>0, <3>2, <3>6, <3>7
    <3> QED BY <3>1, <3>8 DEF MissionInv, MissionBonusExactlyOnce, Paid, Done
  <2> QED BY <1>2, <2>1, <2>2, <2>3, MissionColumns
<1>3. ASSUME NEW c \in Requests, DeleteChild(c) PROVE MissionInv'
  BY <1>3, DeleteColumns DEF MissionInv, NoneAbsent, MissionBonusExactlyOnce
<1>4. ASSUME NEW c \in Requests, TurnAway(c) PROVE MissionInv'
  BY <1>4, MissionsUntouched DEF TurnAway, Answer
<1>5. ASSUME NEW c \in Requests, ServiceReads(c) PROVE MissionInv'
  <2>1. /\ db' = db /\ req[c] = NoRequest
        /\ \A b \in Requests \ {c} : req'[b] = req[b]
    BY <1>5, AskUnanswered, AskKeepsOthers
  <2>2. c \notin db.ledger
    BY <2>1 DEF RowsInv, RefundInv, AnsweredAsked, EntriesAnswered
  <2>3. Paid(db', req') = Paid(db, req)
    BY <2>1, <2>2 DEF Paid
  <2> QED BY <2>1, <2>3, MissionsUntouched
<1>6. CASE PruneOpening
  <2>1. Paid(db', req') = Paid(db, req)
    BY <1>6, PruneColumns, ConstantsAssumption DEF Paid
  <2> QED BY <1>6, <2>1, PruneColumns, MissionsUntouched
<1>7. CASE UNCHANGED ledgerVars
  BY <1>7, MissionsUntouched DEF ledgerVars
<1> QED BY <1>1, <1>2, <1>3, <1>4, <1>5, <1>6, <1>7, LedgerCases

(* completeMissionAndMaybeGrantBonus neither pays the mission bonus twice  *)
(* nor leaves it unpaid, whatever completions overlap.                     *)
THEOREM MissionBonusSafe == Spec => []MissionBonusExactlyOnce
<1>1. Init => MissionInv
  <2> SUFFICES ASSUME Init PROVE MissionInv
    OBVIOUS
  <2>1. \A m \in Missions : db.missions[m] = "open"
    BY DEF Init, LedgerInit, OpeningDb
  <2>2. Paid(db, req) = {}
    BY ConstantsAssumption DEF Init, LedgerInit, OpeningDb, Paid
  <2>3. ~Done(db)
    BY <2>1 DEF Done
  <2> QED BY <2>1, <2>2, <2>3, FS_EmptySet DEF MissionInv, NoneAbsent, MissionBonusExactlyOnce, Paid, Done
<1>2. TypeInv /\ Coherence /\ RowsInv /\ MissionInv /\ [Next]_vars => MissionInv'
  BY MissionStep, LedgerStep
<1>3. MissionInv => MissionBonusExactlyOnce
  BY DEF MissionInv
<1> QED BY <1>1, <1>2, <1>3, RowsInvariant, TypeInvariant, CoherenceInvariant, PTL DEF Spec

(* Balance, experience and mastery agree with the entries and logs they    *)
(* are derived from, whatever transactions overlap, fail and are retried.  *)
THEOREM DerivedColumnsSafe == Spec => []DerivedColumnsAgree
<1> DEFINE Inv == RefundsNat /\ DerivedColumnsAgree
<1>1. Init => Inv
  <2> SUFFICES ASSUME Init PROVE Inv
    OBVIOUS
  <2>1. RefundsNat
    BY DEF Init, LedgerInit, NoRequest, RefundsNat
  <2>2. BalanceMatchesLedger
    <3>1. /\ db.total = OpeningBalance /\ db.pruned = 0 /\ db.ledger = {Opening}
      BY DEF Init, LedgerInit, OpeningDb
    <3>2. db.ledger \in SUBSET Entries
      BY <3>1 DEF Entries
    <3>3. MapThenSumSet(EntryAmount, db.ledger) = SumOf(Amounts(req), db.ledger)
      BY <3>2, SumUnfolded, SumIsOfAmounts, Zenon
    <3>4. Amounts(req)[Opening] = OpeningBalance /\ OpeningBalance \in Int
      BY ConstantsAssumption DEF Amounts, Entries
    <3>5. IsFiniteSet({}) /\ {} \cup {Opening} = db.ledger /\ Opening \notin {}
      BY <3>1, FS_EmptySet
    <3>6. SumOf(Amounts(req), db.ledger) = SumOf(Amounts(req), {}) + Amounts(req)[Opening]
      <4>1. \A e \in {} \cup {Opening} : Amounts(req)[e] \in Int
        BY <3>4
      <4> QED BY <3>5, <4>1, SumOfAdds
    <3> QED BY <3>1, <3>3, <3>4, <3>6, SumOfEmpty DEF BalanceMatchesLedger
  <2>3. MasteryCountsActiveLogs
    <3>1. \A a \in Activities : ActiveLogs(db, req, a) = {} /\ db.mastery[a] = OpeningMastery[a]
      BY DEF Init, LedgerInit, OpeningDb, ActiveLogs
    <3>2. \A a \in Activities : OpeningMastery[a] \in Nat
      BY ConstantsAssumption
    <3> QED BY <3>1, <3>2, FS_EmptySet DEF MasteryCountsActiveLogs
  <2>4. XpBand
    <3>1. db.xp = 0 /\ db.peak = 0
      BY DEF Init, LedgerInit, OpeningDb
    <3>2. DecayFloor(0) \in Nat /\ DecayFloor(0) <= 0
      BY FloorBelowPeak
    <3> QED BY <3>1, <3>2 DEF XpBand
  <2> QED BY <2>1, <2>2, <2>3, <2>4 DEF DerivedColumnsAgree
<1>2. TypeInv /\ TypeInv' /\ Coherence /\ RowsInv /\ Inv /\ [Next]_vars => Inv'
  <2> SUFFICES ASSUME TypeInv, TypeInv', RowsInv, Inv, [LedgerNext]_ledgerVars PROVE Inv'
    BY LedgerStep
  <2>1. BalanceMatchesLedger'
    BY BalanceStep DEF DerivedColumnsAgree
  <2>2. MasteryCountsActiveLogs'
    BY MasteryStep DEF DerivedColumnsAgree
  <2>3. XpBand' /\ RefundsNat'
    BY XpStep, RefundsStep DEF DerivedColumnsAgree
  <2> QED BY <2>1, <2>2, <2>3 DEF DerivedColumnsAgree
<1>3. Inv => DerivedColumnsAgree
  OBVIOUS
<1> HIDE DEF Inv
<1> QED BY <1>1, <1>2, <1>3, RowsInvariant, TypeInvariant, CoherenceInvariant, PTL DEF Spec

=============================================================================
