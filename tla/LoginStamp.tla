----------------------------- MODULE LoginStamp -----------------------------
(***************************************************************************)
(* What a child earns by opening the app: the login bonus of the day       *)
(* (login-bonus-service.ts) and the stamp on the card of the week, which   *)
(* is exchanged for points when the week is over (stamp-card-service.ts).  *)
(* The home page calls both from one action, loginStamp; there are actions *)
(* for the parts as well.                                                  *)
(*                                                                         *)
(* One child.  A repository call is a step, consecutive reads are one.     *)
(* Each service reads the date when it is called and goes on with it, so a *)
(* request may be a day behind.  A request may be cut off at any step.     *)
(* Points are counted, not computed: a payment is recorded under the day   *)
(* or the week it is for, that of a card by its number of stamps.          *)
(***************************************************************************)
EXTENDS Integers, FiniteSets

CONSTANTS
    LastDay,    \* days that pass (bound)
    WeekDays,   \* days of a week
    Slots,      \* MAX_SLOTS
    Sessions,   \* requests in flight at a time (bound)
    Calls,      \* actions of the home page that are used
    MaxCalls,   \* requests ever made (bound)
    MaxLost     \* postings that fail (bound)

ASSUME LoginStampAssumption ==
    /\ LastDay \in Nat \ {0} /\ WeekDays \in Nat \ {0} /\ Slots \in Nat
    /\ Calls \subseteq {"loginStamp", "claimBonus", "stampCard", "redeemStampCard"}
    /\ IsFiniteSet(Sessions) /\ MaxCalls \in Nat /\ MaxLost \in Nat

Days     == 1 .. LastDay
Week(d)  == (d - 1) \div WeekDays
Weeks    == {Week(d) : d \in Days}

VARIABLES
    day,      \* todayDateJST()
    streak,   \* the row of login_streaks: last_login_date (0: no row), current_streak
    card,     \* the card of each week: its status, the day in each slot, redeemed_points
    ledger,   \* entries of the point ledger: of a login, of a stamp, of a card
    request,  \* the request each session is at
    calls,    \* requests made so far (for the bound)
    claimed,  \* history: days a login bonus was claimed for
    lost,     \* history: what is marked as given and was not posted
    seen,     \* history: weeks in which a loginStamp looked at last week's card to the end
    raced,    \* history: weeks whose card two requests were at together
    behind    \* history: a login came after one of a later day

vars == <<day, streak, card, ledger, request, calls, claimed, lost, seen, raced, behind>>

history == <<claimed, lost, seen, raced, behind>>

Idle == [call |-> "none", at |-> "idle", date |-> 0, won |-> FALSE,
         week |-> 0, slot |-> 0, stamps |-> 0]

NoCard  == [status |-> "none", days |-> [i \in 1 .. Slots |-> 0], points |-> 0]
Nothing == [login |-> [d \in Days |-> 0], stamp |-> [d \in Days |-> 0],
            card |-> [w \in Weeks |-> 0]]

Init == /\ day = 1
        /\ streak = [last |-> 0, count |-> 0]
        /\ card = [w \in Weeks |-> NoCard]
        /\ ledger = Nothing
        /\ request = [s \in Sessions |-> Idle] /\ calls = 0
        /\ claimed = {} /\ lost = {} /\ seen = {} /\ raced = {} /\ behind = FALSE

----------------------------------------------------------------------------
\* Cards.

Used(w)    == {i \in 1 .. Slots : card[w].days[i] # 0}
Filled(w)  == Cardinality(Used(w))
Stamped(w) == {card[w].days[i] : i \in Used(w)}

NotNew(w) == card[w].status # "none"

Collecting(w) == card[w].status = "collecting"

\* insertCard: the week has one card, whoever asks first.
Opened(w) == IF card[w].status = "none" THEN [card EXCEPT ![w].status = "collecting"] ELSE card

\* insertEntry: a taken slot or a stamped day is skipped without a word, the status is not read.
Entered(w, slot, d) == IF card[w].days[slot] = 0 /\ d \notin Stamped(w)
                       THEN [card EXCEPT ![w].days[slot] = d] ELSE card

\* The requests that have read the card of a week and will write it.
At(w) == {s \in Sessions : request[s].at \in {"enter", "redeem"} /\ request[s].week = w}

\* The requests of a day of a week that have still to read its card.
Coming(w) == {s \in Sessions : request[s].at = "card" /\ Week(request[s].date) = w}

----------------------------------------------------------------------------
\* Requests.

Go(s, at) == request' = [request EXCEPT ![s].at = at]

\* The next service is called on the day it is.
Call(s, at, won) == request' = [request EXCEPT ![s] = [Idle EXCEPT !.call = request[s].call, !.at = at,
                                                                   !.date = day, !.won = won]]
End(s) == request' = [request EXCEPT ![s] = Idle]

\* The child presses a button; a service reads the date.
Ask(s, c) == /\ request[s].at = "idle" /\ calls < MaxCalls
             /\ calls' = calls + 1
             /\ request' = [request EXCEPT ![s] =
                    [Idle EXCEPT !.call = c, !.date = day,
                                 !.at = IF c \in {"loginStamp", "claimBonus"} THEN "claim" ELSE "card"]]
             /\ UNCHANGED <<day, streak, card, ledger, history>>

CountOn(d) == streak.count + 1

\* The streak goes on when the day before was the last.
NextCount(d) == IF streak.last = d - 1 THEN streak.count + 1 ELSE 1

Mark(s, d) == /\ streak' = [last |-> d, count |-> NextCount(d)]
              /\ Go(s, "payLogin")
              /\ claimed' = claimed \cup {d}
              /\ behind' = (behind \/ d < streak.last)
              /\ UNCHANGED <<day, card, ledger, lost, seen, raced>>

ClaimUnseen(s) == request[s].at = "claim" /\ Mark(s, request[s].date)

\* claimToday: one statement, refused when the last day is this one.
Claim(s) == /\ request[s].at = "claim" /\ streak.last # request[s].date
            /\ Mark(s, request[s].date)

AlreadyClaimed(s) == /\ request[s].at = "claim" /\ streak.last = request[s].date
                     /\ IF request[s].call = "loginStamp" THEN Call(s, "card", FALSE) ELSE End(s)
                     /\ UNCHANGED <<day, streak, card, ledger, history>>

PayLogin(s) == /\ request[s].at = "payLogin"
               /\ ledger' = [ledger EXCEPT !.login[request[s].date] = @ + 1]
               /\ IF request[s].call = "loginStamp" THEN Call(s, "card", TRUE) ELSE End(s)
               /\ UNCHANGED <<day, streak, card, history>>

\* A stamp is refused: loginStamp goes on to last week's card if the login was new.
Refused(s) == IF request[s].call = "loginStamp" /\ request[s].won
              THEN Call(s, "lookBack", FALSE) ELSE End(s)

StampableFull(d)  == card[Week(d)].status # "redeemed" /\ d \notin Stamped(Week(d))
StampableAgain(d) == card[Week(d)].status # "redeemed" /\ Filled(Week(d)) < Slots

\* stampToday: the card is collecting, has no stamp of the day and is not full.
Stampable(d) == /\ card[Week(d)].status # "redeemed"
                /\ d \notin Stamped(Week(d))
                /\ Filled(Week(d)) < Slots

NextSlot(d) == Filled(Week(d)) + 1

\* Others will write the same card.
Racing(others, w) == raced' = IF others = {} THEN raced ELSE raced \cup {w}

\* getOrCreateCurrentCard, for a stamp.
Look(s) == LET d == request[s].date  w == Week(request[s].date)
           IN  /\ request[s].at = "card" /\ request[s].call # "redeemStampCard"
               /\ card' = Opened(w)
               /\ \/ /\ Stampable(d)
                     /\ request' = [request EXCEPT ![s].at = "enter", ![s].week = w,
                                                   ![s].slot = NextSlot(d)]
                     /\ Racing(At(w) \ {s}, w)
                  \/ /\ ~Stampable(d)
                     /\ Refused(s)
                     /\ UNCHANGED raced
               /\ UNCHANGED <<day, streak, ledger, claimed, lost, seen, behind>>

\* stampToday does not learn whether its entry went in.
Enter(s) == /\ request[s].at = "enter"
            /\ card' = Entered(request[s].week, request[s].slot, request[s].date)
            /\ request' = [request EXCEPT ![s].at = "payStamp", ![s].week = 0, ![s].slot = 0]
            /\ UNCHANGED <<day, streak, ledger, history>>

\* After its stamp is paid a request reads the card of the day anew.
Stamp(s) == /\ card' = Opened(Week(day))
            /\ IF request[s].call = "loginStamp" THEN Call(s, "lookBack", FALSE) ELSE End(s)

PayStamp(s) == /\ request[s].at = "payStamp"
               /\ ledger' = [ledger EXCEPT !.stamp[request[s].date] = @ + 1]
               /\ Stamp(s)
               /\ UNCHANGED <<day, streak, history>>

\* A posting that does not come about.
Lose(kind, key) == /\ Cardinality(lost) < MaxLost
                   /\ lost' = lost \cup {<<kind, key>>}

\* The failure of insertPointEntry is only logged.
PayStampFails(s) == /\ request[s].at = "payStamp"
                    /\ Lose("stamp", request[s].date)
                    /\ Stamp(s)
                    /\ UNCHANGED <<day, streak, ledger, claimed, seen, raced, behind>>

ThisWeek(d) == Week(d)

\* The week before the date's.
PreviousWeek(d) == Week(d) - 1

Redeemable(w) == Collecting(w) /\ Used(w) # {}

\* The card is counted now and marked in the next step.
Count(s, w) == request' = [request EXCEPT ![s].at = "redeem", ![s].week = w, ![s].stamps = Filled(w)]

\* redeemStampCard takes the card of this week.
Redeemed(s) == LET w == Week(request[s].date)
               IN  /\ request[s].at = "card" /\ request[s].call = "redeemStampCard"
                   /\ card' = Opened(w)
                   /\ Racing(At(w) \ {s}, w)
                   /\ \/ Redeemable(w) /\ Count(s, w)
                      \/ ~Redeemable(w) /\ End(s)
                   /\ UNCHANGED <<day, streak, ledger, claimed, lost, seen, behind>>

\* The loginStamp of this date is through with last week's card.
Through(s) == seen' = IF request[s].call = "loginStamp" THEN seen \cup {Week(request[s].date)} ELSE seen

\* autoRedeemPreviousWeek, in the first week there is none.
LookBack(s) == LET w == PreviousWeek(request[s].date)
               IN  /\ request[s].at = "lookBack"
                   /\ \/ /\ w \in Weeks /\ Redeemable(w)
                         /\ Count(s, w)
                         /\ UNCHANGED seen
                      \/ /\ ~(w \in Weeks /\ Redeemable(w))
                         /\ End(s) /\ Through(s)
                   /\ Racing((At(w) \cup Coming(w)) \ {s}, w)
                   /\ UNCHANGED <<day, streak, card, ledger, claimed, lost, behind>>

\* updateCardStatusIfCollecting.
Redeem(s) == LET w == request[s].week
             IN  /\ request[s].at = "redeem"
                 /\ \/ /\ Collecting(w)
                       /\ card' = [card EXCEPT ![w].status = "redeemed", ![w].points = request[s].stamps]
                       /\ Go(s, "payCard")
                    \/ ~Collecting(w) /\ End(s) /\ UNCHANGED card
                 /\ Through(s)
                 /\ UNCHANGED <<day, streak, ledger, claimed, lost, raced, behind>>

PayCard(s) == /\ request[s].at = "payCard"
              /\ ledger' = [ledger EXCEPT !.card[request[s].week] = @ + request[s].stamps]
              /\ End(s)
              /\ UNCHANGED <<day, streak, card, history>>

\* A call throws, or the process stops; what the request was to pay stays unpaid.
CutOff(s) == LET q == request[s]
             IN  /\ \/ q.at = "payLogin" /\ Lose("login", q.date)
                    \/ q.at = "payStamp" /\ Lose("stamp", q.date)
                    \/ q.at = "payCard" /\ Lose("card", q.week)
                    \/ q.at \notin {"idle", "payLogin", "payStamp", "payCard"} /\ UNCHANGED lost
                 /\ End(s)
                 /\ UNCHANGED <<day, streak, card, ledger, claimed, seen, raced, behind>>

\* No request lasts a day.
NextDay == /\ day < LastDay
           /\ \A s \in Sessions : request[s].at # "idle" => request[s].date = day
           /\ day' = day + 1
           /\ UNCHANGED <<streak, card, ledger, request, calls, history>>

Step(s) == \/ Claim(s) \/ AlreadyClaimed(s) \/ PayLogin(s)
           \/ Look(s) \/ Enter(s) \/ PayStamp(s) \/ PayStampFails(s)
           \/ Redeemed(s) \/ LookBack(s) \/ Redeem(s) \/ PayCard(s) \/ CutOff(s)

Next == \/ \E s \in Sessions : \/ Step(s) /\ UNCHANGED calls
                             \/ \E c \in Calls : Ask(s, c)
        \/ NextDay

Spec == Init /\ [][Next]_vars

----------------------------------------------------------------------------
Request == [call : Calls \cup {"none"}, date : 0 .. LastDay, won : BOOLEAN, week : Weeks \cup {0},
            slot : 0 .. Slots, stamps : 0 .. Slots,
            at : {"idle", "claim", "payLogin", "card", "enter", "payStamp", "lookBack",
                  "redeem", "payCard"}]
Card    == [status : {"none", "collecting", "redeemed"}, days : [1 .. Slots -> 0 .. LastDay],
            points : 0 .. Slots]
Posted  == [login : [Days -> Nat], stamp : [Days -> Nat], card : [Weeks -> Nat]]

\* A card fills from its first slot and has one stamp a day, of days of its week: insertEntry
\* leaves no gap whatever count of slots it was computed from.
CardIsDense ==
    \A w \in Weeks : /\ Used(w) = 1 .. Filled(w)
                     /\ Cardinality(Stamped(w)) = Filled(w)
                     /\ \A d \in Stamped(w) : Week(d) = w

\* The state has the shape of the rows and of a request's local variables, the cards with it.
TypeOK == /\ day \in Days
          /\ streak \in [last : 0 .. LastDay, count : 0 .. LastDay]
          /\ card \in [Weeks -> Card]
          /\ ledger \in Posted /\ lost \subseteq {"login", "stamp", "card"} \X Nat
          /\ request \in [Sessions -> Request] /\ calls \in 0 .. MaxCalls
          /\ claimed \subseteq Days /\ seen \subseteq Int /\ raced \subseteq Int
          /\ behind \in BOOLEAN
          /\ CardIsDense

\* current_streak is the number of days in a row, up to the last one, for which the bonus was
\* claimed, however claims interleave (claimToday counts in the statement that marks the day),
\* as long as no claim of an earlier day comes after one of a later day.
StreakCountsDays ==
    ~behind => /\ \A d \in claimed : d <= streak.last
               /\ \A d \in Days : streak.last - streak.count < d /\ d <= streak.last => d \in claimed
               /\ (streak.last - streak.count) \notin claimed

Missed(kind, key) == IF <<kind, key>> \in lost THEN 1 ELSE 0

Paying(at, d) == {s \in Sessions : request[s].at = at /\ request[s].date = d}

\* A day's login bonus is posted at most once, and exactly once when no request was cut off
\* between the claim and the posting; again unless a claim came after one of a later day.
LoginPaidOnce ==
    ~behind => \A d \in Days :
                   ledger.login[d] + Missed("login", d) + Cardinality(Paying("payLogin", d))
                       = (IF d \in claimed THEN 1 ELSE 0)

\* No stamp goes without its points unless their posting failed or was cut off, and it has
\* them once if no two requests were at the card together.
StampPaid ==
    \A d \in Days :
        LET n == ledger.stamp[d] + Missed("stamp", d) + Cardinality(Paying("payStamp", d))
        IN  /\ d \in Stamped(Week(d)) => n >= 1
            /\ Week(d) \notin raced => n = (IF d \in Stamped(Week(d)) THEN 1 ELSE 0)

\* A card is exchanged once, and what is posted for it is what its row says, or was lost when
\* the request was cut off after it had marked the card.
CardPaidOnce ==
    \A w \in Weeks :
        LET P == {s \in Sessions : request[s].at = "payCard" /\ request[s].week = w}
        IN  /\ \A s, t \in P : s = t
            /\ \A s \in P : request[s].stamps = card[w].points
            /\ ledger.card[w] = (IF P = {} /\ Missed("card", w) = 0 THEN card[w].points ELSE 0)
            /\ card[w].points > 0 <=> card[w].status = "redeemed"

\* An exchanged card was paid for all of its stamps, if no two requests were at it together.
RedeemedInFull ==
    \A w \in Weeks \ raced : card[w].status = "redeemed" => card[w].points = Filled(w)

\* What is posted for a card is what it was worth, however stamps, logins and exchanges overlap.
CardPaid == CardPaidOnce /\ RedeemedInFull

\* Once a loginStamp of the following week is through, a card with stamps has been exchanged.
LastWeekSettled == \A w \in Weeks : w + 1 \in seen /\ w \notin raced => ~Redeemable(w)

----------------------------------------------------------------------------
\* Promises of the documents and comments that the code does not keep.

\* The conditional write of claimToday makes the login bonus once a day
\* (docs/design/08, login_streaks).
LoginOncePerDay == \A d \in Days : ledger.login[d] <= 1

\* stampToday gives the points of a stamp once a day (docs/design/26, 7.3).
StampOncePerDay == \A d \in Days : ledger.stamp[d] <= 1

\* A card not exchanged on Monday is exchanged at any later login (docs/design/26, 7.3.1).
LaterLoginRedeems == \A v \in seen, w \in Weeks : w < v => ~Redeemable(w)

\* Only a full card is exchanged (docs/design/26, 7.3).
FullCardsOnly == \A w \in Weeks : ledger.card[w] \in {0, Slots}

=============================================================================
