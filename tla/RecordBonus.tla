----------------------------- MODULE RecordBonus -----------------------------
(***************************************************************************)
(* What follows a record once its transaction has committed                *)
(* (runOptionalPhase of activity-record-dsql.ts): the combo, mission and   *)
(* focus bonuses, each looked up and then posted in a step of its own, and *)
(* the missions themselves, drawn by the first load of the home page.      *)
(*                                                                         *)
(* One child on one day.  A repository call is a step, consecutive reads   *)
(* are one.  A failing part is skipped (runOptionalWrite), a request may   *)
(* be cut off at any step.  A definition not used below is a variant of    *)
(* the one that follows it, for the mutants of PROJECT.json.               *)
(***************************************************************************)
EXTENDS Integers, FiniteSets, FiniteSetsExt

CONSTANTS
    Activities,     \* activities of the child
    Category,       \* the category of each
    MissionCount,   \* MISSION_COUNT
    Recommended,    \* selectRecommendations of the day
    Played,         \* activities that are recorded (bound)
    Cancelled,      \* activities whose record may be taken back, once each (bound)
    MaxShort,       \* bonuses that fail at a time (bound)
    LateLoads,      \* whether missions are also drawn after the first record (bound)
    Sessions        \* requests in flight at a time (bound)

ASSUME RecordBonusAssumption ==
    /\ IsFiniteSet(Activities) /\ Recommended \subseteq Activities
    /\ MissionCount \in Nat /\ MaxShort \in Nat /\ LateLoads \in BOOLEAN
    /\ Played \subseteq Activities /\ Cancelled \subseteq Played
    /\ DOMAIN Category = Activities

VARIABLES
    logs,      \* activities with a record of today that is not cancelled
    mission,   \* the row of daily_missions of each activity: "none", "open", "done"
    base,      \* entries "[today] mission bonus", by amount
    extra,     \* sum of the entries that complete it
    combo,     \* sum of today's combo entries
    focus,     \* number of today's focus entries
    request,   \* the request each session is at
    back,      \* activities whose record has been taken back
    ever,      \* history: activities recorded today, cancelled or not
    raced,     \* history: bonuses that two requests were in the middle of together
    short      \* history: bonuses a request owed and did not post, and none has made up for

ledger  == <<base, extra, combo, focus>>
history == <<back, ever, raced, short>>
vars    == <<logs, mission, base, extra, combo, focus, request, back, ever, raced, short>>

Idle == [at |-> "idle", act |-> "none", amount |-> 0, kind |-> "none", count |-> 0, todo |-> {}]

Init == /\ logs = {} /\ mission = [a \in Activities |-> "none"]
        /\ base = [n \in {5, 20} |-> 0] /\ extra = 0 /\ combo = 0 /\ focus = 0
        /\ request = [s \in Sessions |-> Idle]
        /\ back = {} /\ ever = {} /\ raced = {} /\ short = {}

----------------------------------------------------------------------------
\* Tables of bonuses.

MissionBonus(n) == CASE n = 2 -> 5 [] n = 3 -> 20 [] OTHER -> 0

CategoryBonus(n) == CASE n >= 4 -> 10 [] n = 3 -> 5 [] n = 2 -> 2 [] OTHER -> 0
CrossBonus(n)    == CASE n >= 5 -> 30 [] n = 4 -> 15 [] n = 3 -> 8 [] n = 2 -> 3 [] OTHER -> 0

Kinds(acts)       == {Category[a] : a \in acts}
OfKind(acts, k)   == {a \in acts : Category[a] = k}
PerCategory(acts) == MapThenSumSet(LAMBDA k : CategoryBonus(Cardinality(OfKind(acts, k))), Kinds(acts))
Cross(acts)       == CrossBonus(Cardinality(Kinds(acts)))

\* Two activities of any category, when there is no other combo.
Mini(acts) == IF Cardinality(acts) >= 2 /\ PerCategory(acts) = 0 /\ Cross(acts) = 0 THEN 1 ELSE 0

\* What checkAndGrantCombo wants a day with these activities to have.
Desired == [acts \in SUBSET Activities |-> PerCategory(acts) + Cross(acts) + Mini(acts)]

----------------------------------------------------------------------------
Missions == {a \in Activities : mission[a] # "none"}
Done     == {a \in Activities : mission[a] = "done"}

Become(s, q) == request' = [request EXCEPT ![s] = q]
Go(s, at)    == Become(s, [Idle EXCEPT !.at = at, !.act = request[s].act])
End(s)       == Become(s, Idle)

Others(s, ats) == {t \in Sessions \ {s} : request[t].at \in ats}

\* Another request may be in the middle of the same bonus.
Racing(s, bonus, ats) == raced' = IF Others(s, ats) = {} THEN raced ELSE raced \cup {bonus}

\* A record commits, at most one a day for an activity.
Record(s, a) == /\ request[s].at = "idle" /\ a \notin logs
                /\ logs' = logs \cup {a} /\ ever' = ever \cup {a}
                /\ Become(s, [Idle EXCEPT !.at = "combo", !.act = a])
                /\ UNCHANGED <<mission, ledger, back, raced, short>>

\* A record is taken back; its bonuses are not.
Cancel(a) == /\ a \in logs \ back
             /\ logs' = logs \ {a} /\ back' = back \cup {a}
             /\ UNCHANGED <<mission, ledger, request, ever, raced, short>>

----------------------------------------------------------------------------
\* checkAndGrantCombo.

MissingAll(wanted)   == wanted

\* Today's entries are summed up and taken off.
Missing(wanted) == IF wanted > combo THEN wanted - combo ELSE 0

ComboLook(s) == LET owed == Missing(Desired[logs])
                IN  /\ request[s].at = "combo"
                    /\ Racing(s, "combo", {"payCombo"})
                    /\ \/ /\ owed > 0
                          /\ Become(s, [request[s] EXCEPT !.at = "payCombo", !.amount = owed,
                                                          !.count = Desired[logs]])
                          /\ UNCHANGED short
                       \/ /\ owed = 0
                          /\ Go(s, "mission")
                          /\ short' = short \ {"combo"}
                    /\ UNCHANGED <<logs, mission, ledger, back, ever>>

PayCombo(s) == /\ request[s].at = "payCombo"
               /\ combo' = combo + request[s].amount
               /\ short' = IF Desired[logs] <= request[s].count THEN short \ {"combo"} ELSE short
               /\ Go(s, "mission")
               /\ UNCHANGED <<logs, mission, base, extra, focus, back, ever, raced>>

----------------------------------------------------------------------------
\* checkMissionCompletion.

MissionLook(s) == LET open == mission[request[s].act] = "open"
                  IN  /\ request[s].at = "mission"
                      /\ Go(s, IF open THEN "mark" ELSE "focus")
                      /\ IF open THEN Racing(s, "mission", {"mark", "count", "payMission"})
                                 ELSE UNCHANGED raced
                      /\ UNCHANGED <<logs, mission, ledger, back, ever, short>>

\* markMissionCompleted, without a word when the mission is done by now.
Mark(s) == /\ request[s].at = "mark"
           /\ mission' = [mission EXCEPT ![request[s].act] = IF @ = "open" THEN "done" ELSE @]
           /\ Go(s, "count")
           /\ UNCHANGED <<logs, ledger, history>>

NoMore(bonus, e)   == 0

\* The bonus of two missions counts towards that of three.
Rest(bonus, e) == bonus - e

Owes(s, amount, kind, n) == Become(s, [request[s] EXCEPT !.at = "payMission", !.amount = amount,
                                                         !.kind = kind, !.count = n])

\* The missions are counted and one entry of today's bonus is looked up (LIMIT 1).
MissionCountUp(s) ==
    LET n     == Cardinality(Done)
        bonus == MissionBonus(n)
        Found == {e \in {5, 20} : base[e] > 0}
    IN  /\ request[s].at = "count"
        /\ \/ bonus = 0 /\ Go(s, "focus")
           \/ bonus > 0 /\ Found = {} /\ Owes(s, bonus, "base", n)
           \/ \E e \in Found : IF e < bonus THEN Owes(s, Rest(bonus, e), "extra", n)
                                            ELSE bonus > 0 /\ Go(s, "focus")
        /\ UNCHANGED <<logs, mission, ledger, history>>

PayMission(s) == LET q == request[s]
                 IN  /\ q.at = "payMission"
                     /\ IF q.kind = "base"
                        THEN base' = [base EXCEPT ![q.amount] = @ + 1] /\ UNCHANGED extra
                        ELSE extra' = extra + q.amount /\ UNCHANGED base
                     /\ short' = IF q.count = Cardinality(Done) THEN short \ {"mission"} ELSE short
                     /\ Go(s, "focus")
                     /\ UNCHANGED <<logs, mission, combo, focus, back, ever, raced>>

----------------------------------------------------------------------------
\* checkAndGrantFocusBonus.

FocusOpenAlways == Recommended # {} /\ Recommended \subseteq logs

\* No entry yet, and every recommended activity recorded.
FocusOpen == Recommended # {} /\ focus = 0 /\ Recommended \subseteq logs

FocusLook(s) == /\ request[s].at = "focus"
                /\ Racing(s, "focus", {"payFocus"})
                /\ IF FocusOpen THEN Go(s, "payFocus") ELSE End(s)
                /\ UNCHANGED <<logs, mission, ledger, back, ever, short>>

PayFocus(s) == /\ request[s].at = "payFocus"
               /\ focus' = focus + 1 /\ short' = short \ {"focus"}
               /\ End(s)
               /\ UNCHANGED <<logs, mission, base, extra, combo, back, ever, raced>>

----------------------------------------------------------------------------
MissionPosted == 5 * base[5] + 20 * base[20] + extra

\* What the day is worth by now and nobody has posted.
Unpaid(bonus) == \/ bonus = "combo"   /\ Missing(Desired[logs]) > 0
                 \/ bonus = "mission" /\ MissionPosted < MissionBonus(Cardinality(Done))
                 \/ bonus = "focus"   /\ FocusOpen

Owing(bonuses) == LET owed == {b \in bonuses : Unpaid(b)}
                  IN  /\ Cardinality(short \cup owed) <= MaxShort
                      /\ short' = short \cup owed

\* A part that fails is skipped, what it owes is not posted.
Skip(s) == /\ \/ request[s].at \in {"combo", "payCombo"} /\ Owing({"combo"}) /\ Go(s, "mission")
              \/ request[s].at \in {"mission", "mark"} /\ Go(s, "focus") /\ UNCHANGED short
              \/ request[s].at \in {"count", "payMission"} /\ Owing({"mission"}) /\ Go(s, "focus")
              \/ request[s].at \in {"focus", "payFocus"} /\ Owing({"focus"}) /\ End(s)
           /\ UNCHANGED <<logs, mission, ledger, back, ever, raced>>

\* The process stops in the middle: every part to come is missed.
CutOff(s) == /\ \/ request[s].at \in {"combo", "payCombo"} /\ Owing({"combo", "focus"})
                \/ request[s].at \in {"mission", "mark"} /\ Owing({"focus"})
                \/ request[s].at \in {"count", "payMission"} /\ Owing({"mission", "focus"})
                \/ request[s].at = "draw" /\ UNCHANGED short
             /\ End(s)
             /\ UNCHANGED <<logs, mission, ledger, back, ever, raced>>

----------------------------------------------------------------------------
\* getTodayMissions.

\* generateMissions looks again and draws only when there is none.
Drawable == Missions = {}

Draws == {acts \in SUBSET Activities :
             Cardinality(acts) = (IF Cardinality(Activities) < MissionCount
                                  THEN Cardinality(Activities) ELSE MissionCount)}

Load(s) == /\ request[s].at = "idle" /\ Drawable /\ (LateLoads \/ ever = {})
           /\ \E acts \in Draws : Become(s, [Idle EXCEPT !.at = "draw", !.todo = acts])
           /\ Racing(s, "draw", {"draw"})
           /\ UNCHANGED <<logs, mission, ledger, back, ever, short>>

\* insertDailyMission: one at a time, not where there is one.
Insert(s) == /\ request[s].at = "draw"
             /\ \E a \in request[s].todo :
                    /\ mission' = [mission EXCEPT ![a] = IF @ = "none" THEN "open" ELSE @]
                    /\ IF request[s].todo = {a} THEN End(s)
                       ELSE Become(s, [request[s] EXCEPT !.todo = @ \ {a}])
             /\ UNCHANGED <<logs, ledger, history>>

Step(s) == \/ ComboLook(s) \/ PayCombo(s)
           \/ MissionLook(s) \/ Mark(s) \/ MissionCountUp(s) \/ PayMission(s)
           \/ FocusLook(s) \/ PayFocus(s)
           \/ Skip(s) \/ CutOff(s)
           \/ Load(s) \/ Insert(s)
           \/ \E a \in Played : Record(s, a)

Next == \/ \E s \in Sessions : Step(s)
        \/ \E a \in Cancelled : Cancel(a)

Spec == Init /\ [][Next]_vars

----------------------------------------------------------------------------
Parts == {"combo", "mission", "focus"}

\* The state has the shape of the rows and of a request's local variables.
TypeOK == /\ logs \subseteq ever /\ ever \subseteq Activities /\ back \subseteq ever
          /\ mission \in [Activities -> {"none", "open", "done"}]
          /\ base \in [{5, 20} -> Nat] /\ extra \in Nat /\ combo \in Nat /\ focus \in Nat
          /\ request \in [Sessions ->
                 [at : {"idle", "combo", "payCombo", "mission", "mark", "count", "payMission",
                        "focus", "payFocus", "draw"},
                  act : Activities \cup {"none"}, amount : Nat, count : Nat,
                  kind : {"none", "base", "extra"}, todo : SUBSET Activities]]
          /\ raced \subseteq Parts \cup {"draw"} /\ short \subseteq Parts

Nobody(ats) == \A s \in Sessions : request[s].at \notin ats
ToCome(at)  == MapThenSumSet(LAMBDA s : request[s].amount, {s \in Sessions : request[s].at = at})

\* The bonus of the completed missions is there, whatever completions interleaved, once nobody
\* is between marking a mission and posting: the last one to mark sees them all.  A completion
\* that was cut off is made up for by the next that posts.
MissionPaidUp == Nobody({"count", "payMission"}) /\ "mission" \notin short
                     => MissionPosted >= MissionBonus(Cardinality(Done))

\* The missions of a day bring no more than their bonus if no mission was marked while another
\* completion was between its mark and its posting.  (It is not enough that nobody looks the
\* bonus up then: the entry that completes it is never looked up.)
MissionPaidOnce == "mission" \notin raced =>
    MissionPosted + ToCome("payMission")
        <= (IF Cardinality(Done) >= 3 THEN 20 ELSE MissionBonus(Cardinality(Done)))

\* What MissionPaidOnce comes to without its premise: the mission bonus of a day is paid once
\* (daily-mission-repo.ts, header).  Two completions that overlap pay it twice.
MissionBonusOnce == MissionPosted <= (IF Cardinality(Done) >= 3 THEN 20
                                    ELSE MissionBonus(Cardinality(Done)))

\* The missions of a day bring their bonus, all of it and no more.
MissionPaid == MissionPaidUp /\ MissionPaidOnce

\* The combos of the day's records are paid, whatever records interleaved, once nobody is
\* between the record and the posting; what a failed posting left, the next record brings.
ComboPaidUp == Nobody({"combo", "payCombo"}) /\ "combo" \notin short => combo >= Desired[logs]

\* Combos bring no more than the day's records are worth, if nobody looked up what is posted
\* while another was about to post; taking a record back and making it again brings nothing.
ComboPaidOnce == "combo" \notin raced => combo + ToCome("payCombo") <= Desired[ever]

\* The combos of a day bring what its records are worth, all of it and no more.
ComboPaid == ComboPaidUp /\ ComboPaidOnce

\* The focus bonus comes with the last recommended activity, and only once if nobody looked
\* it up while another was about to post it.
FocusPaid ==
    /\ "focus" \notin raced => focus + Cardinality({s \in Sessions : request[s].at = "payFocus"}) <= 1
    /\ Recommended # {} /\ Recommended \subseteq logs /\ "focus" \notin short
           /\ Nobody({"combo", "payCombo", "mission", "mark", "count", "payMission", "focus", "payFocus"})
           => focus >= 1

\* A day has its number of missions (the guard of generateMissions): two loads that both find
\* no mission draw two sets.
MissionCountKept == Cardinality(Missions) <= MissionCount

=============================================================================
