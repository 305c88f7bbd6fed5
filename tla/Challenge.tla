------------------------------ MODULE Challenge ------------------------------
(***************************************************************************)
(* The challenge of the week of one child (child-challenge-service.ts): a  *)
(* page load makes it, every record of its category counts towards it, the *)
(* child takes the reward, and a parent may delete it, after which the     *)
(* next load makes another.                                                *)
(*                                                                         *)
(* A repository call is a step.  Counting is an optional part of a record: *)
(* it may fail or be cut off at any step.  Challenges are numbered as they *)
(* are made; what was in a deleted row is kept for the properties.         *)
(***************************************************************************)
EXTENDS Integers, FiniteSets

CONSTANTS
    Target,     \* target_value
    MaxMade,    \* challenges ever made (bound)
    MaxRecords, \* records that count towards one (bound)
    Sessions    \* requests in flight at a time (bound)

ASSUME ChallengeAssumption ==
    /\ Target \in Nat \ {0} /\ MaxMade \in Nat /\ MaxRecords \in Nat /\ IsFiniteSet(Sessions)

Ids == 1 .. MaxMade

VARIABLES
    made,       \* challenges made so far
    live,       \* those that are not deleted: one at most, by weekly_auto_guard
    row,        \* child_challenges: current_value, completed, reward_claimed
    reward,     \* ledger entries of each challenge (reference_id)
    request,    \* the request each session is at
    counted,    \* history: records that read a challenge to count towards it
    missed,     \* history: those of them that did not write it
    unmarked,   \* history: challenges that reached the target and were not marked
    raced       \* history: challenges read while another record was about to write them

history == <<counted, missed, unmarked, raced>>
vars    == <<made, live, row, reward, request, counted, missed, unmarked, raced>>

Idle == [at |-> "idle", id |-> 0, value |-> 0]

Init == /\ made = 0 /\ live = {}
        /\ row = [c \in Ids |-> [value |-> 0, completed |-> FALSE, claimed |-> FALSE]]
        /\ reward = [c \in Ids |-> 0]
        /\ request = [s \in Sessions |-> Idle]
        /\ counted = [c \in Ids |-> 0] /\ missed = [c \in Ids |-> 0]
        /\ unmarked = {} /\ raced = {}

----------------------------------------------------------------------------
At(s, place) == request[s].at = place

Writing(c) == {s \in Sessions : At(s, "write") /\ request[s].id = c}

Become(s, at, c, value) == request' = [request EXCEPT ![s] = [at |-> at, id |-> c, value |-> value]]
End(s) == request' = [request EXCEPT ![s] = Idle]

\* getOrCreateWeeklyAuto: the guard lets one challenge in, whoever asks.
Load == /\ live = {} /\ made < MaxMade
        /\ made' = made + 1 /\ live' = {made + 1}
        /\ UNCHANGED <<row, reward, request, history>>

\* deleteChildChallenge.
Delete(c) == /\ c \in live
             /\ live' = live \ {c}
             /\ UNCHANGED <<made, row, reward, request, history>>

\* A record reads the challenges that are active; a completed one is not.
Look(s, c) == /\ At(s, "idle") /\ c \in live /\ ~row[c].completed
              /\ counted[c] < MaxRecords /\ counted' = [counted EXCEPT ![c] = @ + 1]
              /\ Become(s, "write", c, row[c].value + 1)
              /\ raced' = IF Writing(c) = {} THEN raced ELSE raced \cup {c}
              /\ UNCHANGED <<made, live, row, reward, missed, unmarked>>

ReachedNext(value) == value + 1 >= Target

Reached(value) == value >= Target

\* updateProgress sets the value that was computed; no row, no update.
Write(s) == LET c == request[s].id  value == request[s].value
            IN  /\ At(s, "write")
                /\ row' = IF c \in live THEN [row EXCEPT ![c].value = value] ELSE row
                /\ IF Reached(value) THEN Become(s, "mark", c, value) ELSE End(s)
                /\ UNCHANGED <<made, live, reward, history>>

\* markCompleted.
Mark(s) == LET c == request[s].id
           IN  /\ At(s, "mark")
               /\ row' = IF c \in live THEN [row EXCEPT ![c].completed = TRUE] ELSE row
               /\ End(s)
               /\ unmarked' = unmarked \ {c}
               /\ UNCHANGED <<made, live, reward, counted, missed, raced>>

\* The part of the record fails, or the process stops.
CutOff(s) == LET c == request[s].id
             IN  /\ \/ /\ At(s, "write")
                       /\ missed' = [missed EXCEPT ![c] = @ + 1] /\ UNCHANGED unmarked
                    \/ /\ At(s, "mark")
                       /\ unmarked' = unmarked \cup {c} /\ UNCHANGED missed
                 /\ End(s)
                 /\ UNCHANGED <<made, live, row, reward, counted, raced>>

\* claimChildChallengeReward looks whether the challenge is completed.
Ask(s, c) == /\ At(s, "idle") /\ c \in live /\ row[c].completed
             /\ Become(s, "claim", c, 0)
             /\ UNCHANGED <<made, live, row, reward, history>>

\* The condition of the flip in claimRewardAndGrantPoints.
Claimable(c) == c \in live /\ row[c].completed /\ ~row[c].claimed

\* Flip and entry are one transaction.
Claim(s) == LET c == request[s].id
            IN  /\ At(s, "claim")
                /\ IF Claimable(c) THEN /\ row' = [row EXCEPT ![c].claimed = TRUE]
                                        /\ reward' = [reward EXCEPT ![c] = @ + 1]
                                   ELSE UNCHANGED <<row, reward>>
                /\ End(s)
                /\ UNCHANGED <<made, live, history>>

Step(s) == Write(s) \/ Mark(s) \/ CutOff(s) \/ Claim(s)

Next == \/ Load
        \/ \E s \in Sessions : Step(s)
        \/ \E s \in Sessions, c \in Ids : Look(s, c) \/ Ask(s, c)
        \/ \E c \in Ids : Delete(c)

Spec == Init /\ [][Next]_vars

----------------------------------------------------------------------------
\* The reward is posted once at most, and never before so many records of the category as the
\* target asks for, however records overlap, fail or lose each other's count.
RewardEarned == \A c \in Ids : /\ reward[c] = IF row[c].claimed THEN 1 ELSE 0
                               /\ row[c].claimed => row[c].completed
                               /\ row[c].completed => counted[c] >= Target

\* While no two records are at a challenge together each counts, if it was not cut off, and
\* the challenge is completed with the last one.
RecordsCount == \A c \in live \ raced :
    /\ row[c].value + missed[c] + Cardinality(Writing(c)) = counted[c]
    /\ Reached(row[c].value) /\ ~row[c].completed
           => c \in unmarked \/ \E s \in Sessions : At(s, "mark") /\ request[s].id = c

\* What a challenge brings is earned, and what is earned is counted.
ChallengePaid == RewardEarned /\ RecordsCount

\* Two records that overlap count as one (updateChildChallengeProgress writes what it has read
\* plus one): without the premise of RecordsCount.
NoRecordLost == \A c \in live :
    row[c].value + missed[c] + Cardinality(Writing(c)) >= counted[c]

\* The reward of a week cannot be posted twice (getOrCreateWeeklyChildChallenge, comment on the
\* guard): it is, when the parent deletes a challenge whose reward was taken.
WeekPaidOnce == \A c, d \in Ids : reward[c] > 0 /\ reward[d] > 0 => c = d

=============================================================================
