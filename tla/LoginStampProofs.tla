-------------------------- MODULE LoginStampProofs --------------------------
(***************************************************************************)
(* Proofs about the login bonus and the stamp cards.                       *)
(*                                                                         *)
(* The shape of the state comes first, with what a request relies on while *)
(* others step (Placed) and with cards that have no gap (Dense). On it     *)
(* rest the streak, the three kinds of payment - of a login, of a card, of *)
(* a stamp, each the sum of what is posted, lost and still to be posted -  *)
(* and the card of last week. What a week promises when no two requests    *)
(* were at its card together is the invariant Alone.                       *)
(***************************************************************************)
EXTENDS LoginStamp, FiniteSetTheorems, TLAPS

USE LoginStampAssumption

-----------------------------------------------------------------------------
(* Days and weeks.                                                         *)

LEMMA DivMonotone ==
  ASSUME NEW a \in Nat, NEW b \in Nat, a <= b, NEW k \in Nat \ {0}
  PROVE  a \div k \in Nat /\ a \div k <= b \div k
<1>1. a \div k \in Nat
  OBVIOUS
<1>2. b \div k \in Nat
  OBVIOUS
<1>3. a = k * (a \div k) + (a % k) /\ a % k \in 0 .. k - 1
  OBVIOUS
<1>4. b = k * (b \div k) + (b % k) /\ b % k \in 0 .. k - 1
  OBVIOUS
<1>5. ASSUME a \div k > b \div k PROVE FALSE
  <2> DEFINE p == a \div k
             q == b \div k
             r == a % k
             u == b % k
  <2>1. p \in Nat /\ q \in Nat /\ r \in 0 .. k - 1 /\ u \in 0 .. k - 1 /\ p >= q + 1
    BY <1>1, <1>2, <1>3, <1>4, <1>5
  <2>2. k * q + u >= k * p + r
    BY <1>3, <1>4
  <2> HIDE DEF p, q, r, u
  <2>3. k * p >= k * (q + 1) 
    BY <2>1
  <2>4. k * (q + 1) = k * q + k /\ k * q \in Int /\ k * p \in Int
    BY <2>1
  <2> QED BY <2>1, <2>2, <2>3, <2>4
<1> QED BY <1>1, <1>2, <1>5

LEMMA WeekType ==
  ASSUME NEW d \in Days
  PROVE  Week(d) \in Weeks /\ Week(d) \in Nat
<1>1. d - 1 \in Nat /\ d - 1 <= d - 1
  BY DEF Days
<1> QED BY <1>1, DivMonotone DEF Week, Weeks

LEMMA WeekMonotone ==
  ASSUME NEW d \in Days, NEW e \in Days, d <= e
  PROVE  Week(d) <= Week(e)
<1>1. d - 1 \in Nat /\ e - 1 \in Nat /\ d - 1 <= e - 1
  BY DEF Days
<1> QED BY <1>1, DivMonotone DEF Week

LEMMA WeeksNat == Weeks \subseteq Nat
BY WeekType DEF Weeks

-----------------------------------------------------------------------------
(* The shape of the state, without what the cards hold.                    *)
Shape == /\ day \in Days
         /\ streak \in [last : 0 .. LastDay, count : 0 .. LastDay]
         /\ card \in [Weeks -> Card]
         /\ ledger \in Posted /\ lost \subseteq {"login", "stamp", "card"} \X Nat
         /\ request \in [Sessions -> Request] /\ calls \in 0 .. MaxCalls
         /\ claimed \subseteq Days /\ seen \subseteq Int /\ raced \subseteq Int
         /\ behind \in BOOLEAN

(* Only the request of s moves.                                            *)
Only(s) == request' \in [Sessions -> Request] /\ \A t \in Sessions \ {s} : request'[t] = request[t]

Places == {"idle", "claim", "payLogin", "card", "enter", "payStamp", "lookBack", "redeem", "payCard"}

USE DEF Places

(* What the requests in flight rely on: the day, the week and the slot     *)
(* they read, and that a card to be exchanged has stamps.                  *)
Placed(q) ==
    /\ q.at # "idle" => q.date \in Days /\ q.date <= day
    /\ q.at = "enter" => q.week = Week(q.date) /\ q.slot \in 1 .. Slots /\ q.slot <= Filled(q.week) + 1
    /\ q.at \in {"redeem", "payCard"} =>
           q.week \in Weeks /\ q.stamps > 0 /\ card[q.week].status # "none"
    /\ q.at = "redeem" /\ q.call = "loginStamp" => q.week = PreviousWeek(q.date)

ShapeInv == Shape /\ streak.count <= streak.last /\ CardIsDense /\ \A s \in Sessions : Placed(request[s])

LEMMA IdleIsRequest == Idle \in Request
BY DEF Idle, Request

LEMMA CallIsRequest ==
  ASSUME Shape, NEW s \in Sessions, NEW won \in BOOLEAN,
         NEW at \in Places,
         Call(s, at, won)
  PROVE  /\ Only(s)
         /\ request'[s].call = request[s].call /\ request'[s].at = at /\ request'[s].date = day
         /\ request'[s].won = won
<1>1. request[s] \in Request /\ day \in 0 .. LastDay
  BY DEF Shape, Days
<1> DEFINE q == [Idle EXCEPT !.call = request[s].call, !.at = at, !.date = day, !.won = won]
<1>2. q \in Request /\ q.call = request[s].call /\ q.at = at /\ q.date = day /\ q.won = won
  BY <1>1, IdleIsRequest DEF Request, Idle
<1>3. request' = [request EXCEPT ![s] = q]
  BY DEF Call
<1> HIDE DEF q
<1> QED BY <1>2, <1>3 DEF Only, Shape

LEMMA EndMoves ==
  ASSUME Shape, NEW s \in Sessions, End(s)
  PROVE  Only(s) /\ request'[s] = Idle
BY IdleIsRequest DEF End, Only, Shape

(* What each step does to the request of its session.                      *)
LEMMA AskMoves ==
  ASSUME Shape, NEW s \in Sessions, NEW c \in Calls, Ask(s, c)
  PROVE  /\ Only(s) /\ request[s].at = "idle"
         /\ request'[s].at \in {"claim", "card"} /\ request'[s].date = day /\ request'[s].call = c
<1>1. day \in 0 .. LastDay
  BY DEF Shape, Days
<1> DEFINE q == [Idle EXCEPT !.call = c, !.date = day,
                    !.at = IF c \in {"loginStamp", "claimBonus"} THEN "claim" ELSE "card"]
<1>2. q \in Request /\ q.at \in {"claim", "card"} /\ q.date = day /\ q.call = c
  BY <1>1, IdleIsRequest DEF Request, Idle
<1>3. request[s].at = "idle" /\ request' = [request EXCEPT ![s] = q]
  BY DEF Ask
<1> HIDE DEF q
<1> QED BY <1>2, <1>3 DEF Only, Shape

LEMMA GoMoves ==
  ASSUME Shape, NEW s \in Sessions,
         NEW at \in Places,
         Go(s, at)
  PROVE  /\ Only(s) /\ request'[s].at = at
         /\ request'[s].call = request[s].call /\ request'[s].date = request[s].date
         /\ request'[s].week = request[s].week /\ request'[s].slot = request[s].slot
         /\ request'[s].stamps = request[s].stamps /\ request'[s].won = request[s].won
<1>1. request[s] \in Request /\ request' = [request EXCEPT ![s] = [request[s] EXCEPT !.at = at]]
  BY DEF Shape, Go
<1> QED BY <1>1 DEF Only, Shape, Request

LEMMA ClaimMoves ==
  ASSUME Shape, NEW s \in Sessions, Claim(s)
  PROVE  /\ Only(s) /\ request[s].at = "claim" /\ request'[s].at = "payLogin"
         /\ request'[s].date = request[s].date /\ request'[s].call = request[s].call
BY GoMoves DEF Claim, Mark

LEMMA AlreadyClaimedMoves ==
  ASSUME Shape, NEW s \in Sessions, AlreadyClaimed(s)
  PROVE  /\ Only(s) /\ request[s].at = "claim"
         /\ request'[s] = Idle \/ (request'[s].at = "card" /\ request'[s].date = day)
BY CallIsRequest, EndMoves DEF AlreadyClaimed

LEMMA PayLoginMoves ==
  ASSUME Shape, NEW s \in Sessions, PayLogin(s)
  PROVE  /\ Only(s) /\ request[s].at = "payLogin"
         /\ request'[s] = Idle \/ (request'[s].at = "card" /\ request'[s].date = day)
BY CallIsRequest, EndMoves DEF PayLogin

LEMMA FilledType ==
  ASSUME Shape, NEW w \in Weeks
  PROVE  IsFiniteSet(Used(w)) /\ Filled(w) \in 0 .. Slots
<1>1. IsFiniteSet(1 .. Slots) /\ Cardinality(1 .. Slots) = Slots
  BY FS_Interval
<1>2. Used(w) \in SUBSET (1 .. Slots)
  BY DEF Used
<1>3. IsFiniteSet(Used(w)) /\ Cardinality(Used(w)) <= Slots
  BY <1>1, <1>2, FS_Subset
<1>4. Cardinality(Used(w)) \in Nat
  BY <1>3, FS_CardinalityType
<1> QED BY <1>3, <1>4 DEF Filled

(* A request that goes on, one field or two at a time.                     *)
LEMMA PutAt ==
  ASSUME NEW q \in Request,
         NEW at \in Places
  PROVE  [q EXCEPT !.at = at] \in Request
BY DEF Request

LEMMA PutPlace ==
  ASSUME NEW q \in Request, NEW w \in Weeks \cup {0}, NEW slot \in 0 .. Slots
  PROVE  [q EXCEPT !.week = w, !.slot = slot] \in Request
BY DEF Request

LEMMA PutStamps ==
  ASSUME NEW q \in Request, NEW w \in Weeks \cup {0}, NEW n \in 0 .. Slots
  PROVE  [q EXCEPT !.week = w, !.stamps = n] \in Request
BY DEF Request

LEMMA ToEnterType ==
  ASSUME NEW q \in Request, NEW w \in Weeks \cup {0}, NEW slot \in 0 .. Slots,
         NEW at \in {"enter", "payStamp"}
  PROVE  [q EXCEPT !.at = at, !.week = w, !.slot = slot] \in Request
<1> DEFINE r == [q EXCEPT !.at = at]
<1>1. r \in Request
  BY PutAt
<1>2. [q EXCEPT !.at = at, !.week = w, !.slot = slot] = [r EXCEPT !.week = w, !.slot = slot]
  BY DEF Request
<1> HIDE DEF r
<1>3. [r EXCEPT !.week = w, !.slot = slot] \in Request
  BY <1>1, PutPlace
<1> QED BY <1>2, <1>3

LEMMA ToRedeemType ==
  ASSUME NEW q \in Request, NEW w \in Weeks \cup {0}, NEW n \in 0 .. Slots
  PROVE  [q EXCEPT !.at = "redeem", !.week = w, !.stamps = n] \in Request
<1> DEFINE r == [q EXCEPT !.at = "redeem"]
<1>1. r \in Request
  BY PutAt
<1>2. [q EXCEPT !.at = "redeem", !.week = w, !.stamps = n] = [r EXCEPT !.week = w, !.stamps = n]
  BY DEF Request
<1> HIDE DEF r
<1>3. [r EXCEPT !.week = w, !.stamps = n] \in Request
  BY <1>1, PutStamps
<1> QED BY <1>2, <1>3

LEMMA LookMoves ==
  ASSUME Shape, NEW s \in Sessions, Look(s), request[s].date \in Days
  PROVE  LET d == request[s].date  w == Week(request[s].date)
         IN  /\ Only(s) /\ request[s].at = "card" /\ w \in Weeks
             /\ \/ /\ Stampable(d) /\ request'[s].at = "enter" /\ request'[s].week = w
                   /\ request'[s].date = d /\ request'[s].slot = Filled(w) + 1
                   /\ request'[s].slot \in 1 .. Slots /\ request'[s].call = request[s].call
                \/ ~Stampable(d) /\ request'[s] = Idle
                \/ ~Stampable(d) /\ request'[s].at = "lookBack" /\ request'[s].date = day
<1> DEFINE d == request[s].date
           w == Week(request[s].date)
<1>1. w \in Weeks /\ request[s] \in Request /\ Filled(w) \in 0 .. Slots
  BY WeekType, FilledType DEF Shape
<1>2. CASE /\ Stampable(d)
           /\ request' = [request EXCEPT ![s].at = "enter", ![s].week = w, ![s].slot = NextSlot(d)]
  <2>1. NextSlot(d) = Filled(w) + 1 /\ NextSlot(d) \in 1 .. Slots
    BY <1>1, <1>2 DEF NextSlot, Stampable
  <2>2. PICK q : q = [request[s] EXCEPT !.at = "enter", !.week = w, !.slot = NextSlot(d)]
    OBVIOUS
  <2>3. /\ q \in Request /\ q.at = "enter" /\ q.week = w /\ q.slot = NextSlot(d)
        /\ q.date = d /\ q.call = request[s].call
    <3>1. NextSlot(d) \in 0 .. Slots /\ w \in Weeks \cup {0}
      BY <1>1, <2>1
    <3> HIDE DEF d, w
    <3>2. q = [request[s] EXCEPT !.at = "enter", !.week = w, !.slot = NextSlot(d)]
      BY <2>2
    <3>3. request[s] \in Request
      BY <1>1
    <3>4. [request[s] EXCEPT !.at = "enter", !.week = w, !.slot = NextSlot(d)] \in Request
      BY <3>1, <3>3, ToEnterType
    <3> QED BY <3>2, <3>3, <3>4 DEF d, Request
  <2>4. request' = [request EXCEPT ![s] = q]
    BY <1>2, <2>2 DEF Shape
  <2>5. Only(s) /\ request'[s] = q
    BY <2>3, <2>4 DEF Only, Shape
  <2> QED BY <1>1, <1>2, <2>1, <2>3, <2>5 DEF Look
<1>3. CASE ~Stampable(d) /\ Refused(s)
  BY <1>1, <1>3, CallIsRequest, EndMoves DEF Look, Refused
<1> QED BY <1>2, <1>3 DEF Look

LEMMA EnterMoves ==
  ASSUME Shape, NEW s \in Sessions, Enter(s)
  PROVE  /\ Only(s) /\ request[s].at = "enter" /\ request'[s].at = "payStamp"
         /\ request'[s].date = request[s].date /\ request'[s].call = request[s].call
<1>0. PICK q : q = [request[s] EXCEPT !.at = "payStamp", !.week = 0, !.slot = 0]
  OBVIOUS
<1>1. request[s] \in Request /\ request[s].at = "enter" /\ 0 \in 0 .. Slots /\ 0 \in Weeks \cup {0}
  BY DEF Shape, Enter
<1>2. request' = [request EXCEPT ![s] = q]
  BY <1>0 DEF Enter, Shape
<1>3. q \in Request /\ q.at = "payStamp" /\ q.date = request[s].date /\ q.call = request[s].call
  <2>1. [request[s] EXCEPT !.at = "payStamp", !.week = 0, !.slot = 0] \in Request
    BY <1>1, ToEnterType
  <2> QED BY <1>0, <1>1, <2>1 DEF Request
<1> QED BY <1>1, <1>2, <1>3 DEF Only, Shape

LEMMA StampMoves ==
  ASSUME Shape, NEW s \in Sessions, Stamp(s)
  PROVE  Only(s) /\ (request'[s] = Idle \/ (request'[s].at = "lookBack" /\ request'[s].date = day))
BY CallIsRequest, EndMoves DEF Stamp

LEMMA CountMoves ==
  ASSUME Shape, NEW s \in Sessions, NEW w \in Weeks, Count(s, w)
  PROVE  /\ Only(s) /\ request'[s].at = "redeem" /\ request'[s].week = w
         /\ request'[s].stamps = Filled(w) /\ request'[s].date = request[s].date
         /\ request'[s].call = request[s].call
<1>0. PICK q : q = [request[s] EXCEPT !.at = "redeem", !.week = w, !.stamps = Filled(w)]
  OBVIOUS
<1>1. request[s] \in Request /\ Filled(w) \in 0 .. Slots /\ w \in Weeks \cup {0}
  BY FilledType DEF Shape
<1>2. request' = [request EXCEPT ![s] = q]
  BY <1>0 DEF Count, Shape
<1>3. /\ q \in Request /\ q.at = "redeem" /\ q.week = w /\ q.stamps = Filled(w)
      /\ q.date = request[s].date /\ q.call = request[s].call
  <2>1. [request[s] EXCEPT !.at = "redeem", !.week = w, !.stamps = Filled(w)] \in Request
    BY <1>1, ToRedeemType
  <2> QED BY <1>0, <1>1, <2>1 DEF Request
<1> QED BY <1>2, <1>3 DEF Only, Shape

LEMMA CutOffMoves ==
  ASSUME Shape, NEW s \in Sessions, CutOff(s)
  PROVE  Only(s) /\ request'[s] = Idle
BY EndMoves DEF CutOff

-----------------------------------------------------------------------------
(* The cards.                                                              *)

Opens(v) == /\ card[v].status = "none" /\ card'[v].status = "collecting"
            /\ card'[v].days = card[v].days /\ card'[v].points = card[v].points

Fills(s, v) == /\ request[s].at = "enter" /\ v = request[s].week
               /\ request[s].date \notin Stamped(v) /\ card[v].days[request[s].slot] = 0
               /\ card'[v].status = card[v].status /\ card'[v].points = card[v].points
               /\ card'[v].days = [card[v].days EXCEPT ![request[s].slot] = request[s].date]

Exchanges(s, v) == /\ Redeem(s) /\ v = request[s].week /\ Collecting(v)
                   /\ card'[v].status = "redeemed" /\ card'[v].points = request[s].stamps
                   /\ card'[v].days = card[v].days

CardsAfter(s) == /\ card' \in [Weeks -> Card]
                 /\ \A v \in Weeks : card'[v] = card[v] \/ Opens(v) \/ Fills(s, v) \/ Exchanges(s, v)

LEMMA OpenedCards ==
  ASSUME Shape, NEW s, NEW w \in Weeks, card' = Opened(w)
  PROVE  CardsAfter(s)
<1>1. CASE card[w].status = "none"
  <2>1. card' = [card EXCEPT ![w] = [card[w] EXCEPT !.status = "collecting"]]
    BY <1>1 DEF Opened, Shape
  <2>2. card[w] \in Card
    BY DEF Shape
  <2>3. [card[w] EXCEPT !.status = "collecting"] \in Card
    BY <2>2 DEF Card
  <2>4. card' \in [Weeks -> Card]
    BY <2>1, <2>3 DEF Shape
  <2>5. Opens(w)
    BY <1>1, <2>1, <2>2 DEF Opens, Shape, Card
  <2>6. \A v \in Weeks : v # w => card'[v] = card[v]
    BY <2>1 DEF Shape
  <2> QED BY <2>4, <2>5, <2>6 DEF CardsAfter
<1>2. CASE card[w].status # "none"
  BY <1>2 DEF Opened, CardsAfter, Shape
<1> QED BY <1>1, <1>2

LEMMA EnteredCards ==
  ASSUME Shape, NEW s \in Sessions, Enter(s), Placed(request[s])
  PROVE  CardsAfter(s)
<1> DEFINE w == request[s].week
           i == request[s].slot
           d == request[s].date
<1>1. w \in Weeks /\ i \in 1 .. Slots /\ d \in Days /\ request[s].at = "enter"
  BY WeekType DEF Placed, Enter
<1>2. CASE card[w].days[i] = 0 /\ d \notin Stamped(w)
  <2> DEFINE days == [card[w].days EXCEPT ![i] = d]
  <2>1. card' = [card EXCEPT ![w] = [card[w] EXCEPT !.days = days]]
    BY <1>1, <1>2 DEF Enter, Entered, Shape, Card
  <2>2. card[w] \in Card /\ days \in [1 .. Slots -> 0 .. LastDay]
    BY <1>1 DEF Shape, Card, Days
  <2> HIDE DEF days
  <2>3. [card[w] EXCEPT !.days = days] \in Card
    BY <2>2 DEF Card
  <2>4. card' \in [Weeks -> Card]
    BY <1>1, <2>1, <2>3 DEF Shape
  <2>5. card'[w].days = days /\ card'[w].status = card[w].status /\ card'[w].points = card[w].points
    BY <1>1, <2>1, <2>2 DEF Shape, Card
  <2>6. Fills(s, w)
    BY <1>1, <1>2, <2>5 DEF Fills, days
  <2>7. \A v \in Weeks : v # w => card'[v] = card[v]
    BY <1>1, <2>1 DEF Shape
  <2> QED BY <2>4, <2>6, <2>7 DEF CardsAfter
<1>3. CASE ~(card[w].days[i] = 0 /\ d \notin Stamped(w))
  BY <1>3 DEF Enter, Entered, CardsAfter, Shape
<1> QED BY <1>2, <1>3

LEMMA ExchangedCards ==
  ASSUME Shape, NEW s \in Sessions, Redeem(s), Placed(request[s])
  PROVE  CardsAfter(s)
<1> DEFINE w == request[s].week
<1>1. w \in Weeks /\ request[s].stamps \in 0 .. Slots
  BY DEF Placed, Redeem, Shape, Request
<1>2. CASE Collecting(w) /\ card' = [card EXCEPT ![w].status = "redeemed", ![w].points = request[s].stamps]
  <2> DEFINE c == [card[w] EXCEPT !.status = "redeemed", !.points = request[s].stamps]
  <2>1. card' = [card EXCEPT ![w] = c]
    BY <1>2 DEF Shape
  <2>2. card[w] \in Card
    BY <1>1 DEF Shape
  <2>3. c \in Card /\ c.status = "redeemed" /\ c.points = request[s].stamps /\ c.days = card[w].days
    BY <1>1, <2>2 DEF Card
  <2> HIDE DEF c
  <2>4. card' \in [Weeks -> Card] /\ card'[w] = c
    BY <1>1, <2>1, <2>3 DEF Shape
  <2>5. Exchanges(s, w)
    BY <1>2, <2>3, <2>4 DEF Exchanges
  <2>6. \A v \in Weeks : v # w => card'[v] = card[v]
    BY <1>1, <2>1 DEF Shape
  <2> QED BY <2>4, <2>5, <2>6 DEF CardsAfter
<1>3. CASE UNCHANGED card
  BY <1>3 DEF CardsAfter, Shape
<1> QED BY <1>2, <1>3 DEF Redeem

LEMMA StepCards ==
  ASSUME Shape, NEW s \in Sessions, Step(s), Placed(request[s])
  PROVE  CardsAfter(s)
<1>1. CASE UNCHANGED card
  BY <1>1 DEF CardsAfter, Shape
<1>2. CASE Look(s) \/ Redeemed(s)
  <2>1. request[s].at = "card" /\ card' = Opened(Week(request[s].date))
    BY <1>2 DEF Look, Redeemed
  <2>2. Week(request[s].date) \in Weeks
    BY <2>1, WeekType DEF Placed
  <2> QED BY <2>1, <2>2, OpenedCards
<1>3. CASE PayStamp(s) \/ PayStampFails(s)
  <2>1. card' = Opened(Week(day))
    BY <1>3 DEF PayStamp, PayStampFails, Stamp
  <2>2. Week(day) \in Weeks
    BY WeekType DEF Shape
  <2> QED BY <2>1, <2>2, OpenedCards
<1>4. CASE Claim(s) \/ AlreadyClaimed(s) \/ PayLogin(s) \/ LookBack(s) \/ PayCard(s) \/ CutOff(s)
  BY <1>1, <1>4 DEF Claim, Mark, AlreadyClaimed, PayLogin, LookBack, PayCard, CutOff
<1> QED BY <1>2, <1>3, <1>4, EnteredCards, ExchangedCards DEF Step

(* A card has its slots filled from the first on.                          *)
Dense(w) == /\ Used(w) = 1 .. Filled(w)
            /\ Cardinality(Stamped(w)) = Filled(w)
            /\ \A d \in Stamped(w) : Week(d) = w

LEMMA StampedFinite ==
  ASSUME Shape, NEW w \in Weeks PROVE IsFiniteSet(Stamped(w))
<1>1. IsFiniteSet(0 .. LastDay)
  BY FS_Interval
<1>2. Stamped(w) \in SUBSET (0 .. LastDay)
  BY DEF Stamped, Used, Shape, Card
<1> QED BY <1>1, <1>2, FS_Subset

LEMMA SameDays ==
  ASSUME NEW w, card'[w].days = card[w].days
  PROVE  Used(w)' = Used(w) /\ Filled(w)' = Filled(w) /\ Stamped(w)' = Stamped(w)
BY DEF Used, Filled, Stamped

LEMMA FilledSlot ==
  ASSUME Shape, NEW s \in Sessions, NEW w \in Weeks, Dense(w), Placed(request[s]), Fills(s, w)
  PROVE  /\ request[s].slot = Filled(w) + 1
         /\ Used(w)' = Used(w) \cup {request[s].slot}
         /\ Filled(w)' = Filled(w) + 1
         /\ Stamped(w)' = Stamped(w) \cup {request[s].date}
         /\ Dense(w)'
<1> DEFINE i == request[s].slot
           d == request[s].date
<1>1. i \in 1 .. Slots /\ i <= Filled(w) + 1 /\ d \in Days /\ Week(d) = w
  BY DEF Placed, Fills
<1>2. Filled(w) \in 0 .. Slots /\ IsFiniteSet(Used(w)) /\ IsFiniteSet(Stamped(w))
  BY FilledType, StampedFinite
<1>3. i \notin Used(w) /\ d \notin Stamped(w) /\ card'[w].days = [card[w].days EXCEPT ![i] = d]
  BY DEF Fills, Used
<1>4. i = Filled(w) + 1
  BY <1>1, <1>2, <1>3 DEF Dense
<1>5. card[w].days \in [1 .. Slots -> 0 .. LastDay] /\ d # 0
  BY <1>1 DEF Shape, Card, Days
<1>6. Used(w)' = Used(w) \cup {i}
  BY <1>1, <1>3, <1>5 DEF Used
<1>7. Stamped(w)' = Stamped(w) \cup {d}
  <2>1. \A j \in Used(w) : card'[w].days[j] = card[w].days[j]
    BY <1>3, <1>5 DEF Used
  <2>2. card'[w].days[i] = d
    BY <1>1, <1>3, <1>5
  <2>3. Stamped(w)' = {card'[w].days[j] : j \in Used(w)'}
    BY DEF Stamped
  <2> QED BY <1>6, <2>1, <2>2, <2>3 DEF Stamped
<1>8. Filled(w)' = Filled(w) + 1
  <2>1. Cardinality(Used(w) \cup {i}) = Cardinality(Used(w)) + 1
    BY <1>2, <1>3, FS_AddElement
  <2> QED BY <1>6, <2>1 DEF Filled
<1>9. Cardinality(Stamped(w)') = Filled(w) + 1
  BY <1>2, <1>3, <1>7, FS_AddElement DEF Dense
<1>10. Used(w)' = 1 .. Filled(w)'
  BY <1>2, <1>4, <1>6, <1>8 DEF Dense
<1>11. \A e \in Stamped(w)' : Week(e) = w
  BY <1>1, <1>7 DEF Dense
<1>12. Dense(w)'
  BY <1>8, <1>9, <1>10, <1>11 DEF Dense
<1> QED BY <1>4, <1>6, <1>7, <1>8, <1>12

LEMMA DenseStep ==
  ASSUME Shape, NEW s \in Sessions, Placed(request[s]), CardsAfter(s), NEW w \in Weeks, Dense(w)
  PROVE  Dense(w)' /\ Filled(w)' \in Nat /\ Filled(w) \in Nat /\ Filled(w) <= Filled(w)'
<1>1. CASE Fills(s, w)
  BY <1>1, FilledSlot, FilledType
<1>2. CASE ~Fills(s, w)
  <2>1. card'[w].days = card[w].days
    BY <1>2 DEF CardsAfter, Opens, Exchanges
  <2> QED BY <2>1, SameDays, FilledType DEF Dense
<1> QED BY <1>1, <1>2

(* A card once opened stays so, and once exchanged too.                    *)
LEMMA StatusStep ==
  ASSUME NEW s, CardsAfter(s), NEW w \in Weeks
  PROVE  /\ card[w].status # "none" => card'[w].status # "none"
         /\ card[w].status = "redeemed" => card'[w].status = "redeemed" /\ card'[w].points = card[w].points
BY DEF CardsAfter, Opens, Fills, Exchanges, Collecting

LEMMA PlacedPrime ==
  ASSUME NEW t, NEW p, p = request'[t], Placed(p)'
  PROVE  Placed(request[t])'
BY DEF Placed, Filled, Used

(* What a request relies on lasts while others step.                       *)
LEMMA PlacedLasts ==
  ASSUME Shape, NEW s \in Sessions, Placed(request[s]), CardsAfter(s), \A w \in Weeks : Dense(w),
         day' = day, NEW q, Placed(q)
  PROVE  Placed(q)'
<1>1. q.at = "enter" => q.slot <= Filled(q.week)' + 1
  <2> SUFFICES ASSUME q.at = "enter" PROVE q.slot <= Filled(q.week)' + 1
    OBVIOUS
  <2> DEFINE w == q.week
  <2>1. w \in Weeks /\ q.slot \in 1 .. Slots /\ q.slot <= Filled(w) + 1
    BY WeekType DEF Placed
  <2>2. Filled(w) \in Nat /\ Filled(w)' \in Nat /\ Filled(w) <= Filled(w)'
    BY <2>1, DenseStep
  <2> HIDE DEF w
  <2>3. q.slot <= Filled(w)' + 1
    BY <2>1, <2>2
  <2> QED BY <2>3 DEF w
<1>2. q.at \in {"redeem", "payCard"} => card'[q.week].status # "none"
  BY StatusStep DEF Placed
<1> QED BY <1>1, <1>2 DEF Placed

LEMMA IdlePlaced == Placed(Idle)'
BY DEF Placed, Idle

LEMMA EarlyPlaced ==
  ASSUME Shape, NEW q, q.date \in Days, q.date <= day, day' = day,
         q.at \notin {"enter", "redeem", "payCard"}
  PROVE  Placed(q)'
BY DEF Placed

(* The request of a step is placed after it.                               *)
LEMMA OwnPlaced ==
  ASSUME ShapeInv, NEW s \in Sessions, Step(s), day' = day
  PROVE  Only(s) /\ Placed(request[s])'
<1> SUFFICES ASSUME NEW p, p = request'[s] PROVE Only(s) /\ Placed(p)'
  <2>1. PICK p : p = request'[s]
    OBVIOUS
  <2> QED BY <2>1, PlacedPrime
<1> DEFINE q == request[s]
<1>0. Shape /\ Placed(q) /\ day \in Days /\ (q.at # "idle" => q.date \in Days /\ q.date <= day)
  BY DEF ShapeInv, Shape, Placed
<1>a. \A w \in Weeks : Dense(w)
  BY DEF ShapeInv, CardIsDense, Dense
<1>b. CardsAfter(s)
  BY <1>0, StepCards
<1>c. \A w \in Weeks : Filled(w) \in Nat /\ Filled(w)' \in Nat /\ Filled(w) <= Filled(w)'
  BY <1>0, <1>a, <1>b, DenseStep
<1>d. day <= day
  BY <1>0 DEF Days
<1>1. CASE Claim(s)
  <2>1. Only(s) /\ q.at = "claim" /\ p.at = "payLogin" /\ p.date = q.date
    BY <1>0, <1>1, ClaimMoves
  <2> QED BY <1>0, <2>1, EarlyPlaced
<1>2. CASE AlreadyClaimed(s) \/ PayLogin(s)
  <2>1. Only(s) /\ (p = Idle \/ (p.at = "card" /\ p.date = day))
    BY <1>0, <1>2, AlreadyClaimedMoves, PayLoginMoves
  <2> QED BY <1>0, <1>d, <2>1, EarlyPlaced, IdlePlaced
<1>3. CASE Look(s)
  <2> DEFINE w == Week(q.date)
  <2>1. /\ Only(s) /\ w \in Weeks
        /\ \/ /\ p.at = "enter" /\ p.week = w /\ p.date = q.date
              /\ p.slot = Filled(w) + 1 /\ p.slot \in 1 .. Slots
           \/ p = Idle
           \/ p.at = "lookBack" /\ p.date = day
    BY <1>0, <1>3, LookMoves DEF Look
  <2>2. q.date \in Days /\ q.date <= day
    BY <1>0, <1>3 DEF Look
  <2>3. CASE /\ p.at = "enter" /\ p.week = w /\ p.date = q.date
             /\ p.slot = Filled(w) + 1 /\ p.slot \in 1 .. Slots
    <3>1. p.slot <= Filled(w)' + 1
      BY <1>c, <2>1, <2>3
    <3>2. p.slot <= Filled(p.week)' + 1
      BY <2>3, <3>1
    <3> QED BY <2>1, <2>2, <2>3, <3>2 DEF Placed
  <2> QED BY <1>0, <1>d, <2>1, <2>3, EarlyPlaced, IdlePlaced
<1>4. CASE Enter(s)
  <2>1. Only(s) /\ q.at = "enter" /\ p.at = "payStamp" /\ p.date = q.date
    BY <1>0, <1>4, EnterMoves
  <2> QED BY <1>0, <2>1, EarlyPlaced
<1>5. CASE PayStamp(s) \/ PayStampFails(s)
  <2>1. Only(s) /\ (p = Idle \/ (p.at = "lookBack" /\ p.date = day))
    BY <1>0, <1>5, StampMoves DEF PayStamp, PayStampFails
  <2> QED BY <1>0, <1>d, <2>1, EarlyPlaced, IdlePlaced
<1>6. ASSUME NEW w \in Weeks, Count(s, w), Redeemable(w), q.at # "idle",
             q.call = "loginStamp" => w = PreviousWeek(q.date)
      PROVE  Only(s) /\ Placed(p)'
  <2>1. /\ Only(s) /\ p.at = "redeem" /\ p.week = w /\ p.stamps = Filled(w)
        /\ p.date = q.date /\ p.call = q.call
    BY <1>0, <1>6, CountMoves
  <2>2. Filled(w) > 0
    <3>1. IsFiniteSet(Used(w)) /\ Filled(w) \in Nat /\ Used(w) # {}
      BY <1>0, <1>6, <1>c, FilledType DEF Redeemable
    <3>2. Filled(w) # 0
      BY <3>1, FS_EmptySet DEF Filled
    <3> QED BY <3>1, <3>2
  <2>3. card'[w].status # "none"
    BY <1>6, <1>b, StatusStep DEF Redeemable, Collecting
  <2> QED BY <1>0, <1>6, <2>1, <2>2, <2>3 DEF Placed
<1>7. CASE Redeemed(s)
  <2>1. q.at = "card" /\ q.call = "redeemStampCard" /\ Week(q.date) \in Weeks
    BY <1>0, <1>7, WeekType DEF Redeemed
  <2>2. CASE Redeemable(Week(q.date)) /\ Count(s, Week(q.date))
    BY <1>6, <2>1, <2>2
  <2>3. CASE End(s)
    BY <1>0, <2>3, EndMoves, IdlePlaced
  <2> QED BY <1>7, <2>2, <2>3 DEF Redeemed
<1>8. CASE LookBack(s)
  <2> DEFINE w == PreviousWeek(q.date)
  <2>1. q.at = "lookBack"
    BY <1>8 DEF LookBack
  <2>2. CASE w \in Weeks /\ Redeemable(w) /\ Count(s, w)
    BY <1>6, <2>1, <2>2
  <2>3. CASE End(s)
    BY <1>0, <2>3, EndMoves, IdlePlaced
  <2> QED BY <1>8, <2>2, <2>3 DEF LookBack
<1>9. CASE Redeem(s)
  <2>1. CASE Go(s, "payCard")
    <3>1. /\ Only(s) /\ p.at = "payCard" /\ p.date = q.date
          /\ p.week = q.week /\ p.stamps = q.stamps
      BY <1>0, <2>1, GoMoves
    <3>2. q.at = "redeem" /\ q.week \in Weeks /\ q.stamps > 0 /\ card[q.week].status # "none"
      BY <1>0, <1>9 DEF Redeem, Placed
    <3>3. card'[q.week].status # "none"
      BY <1>b, <3>2, StatusStep
    <3> QED BY <1>0, <3>1, <3>2, <3>3 DEF Placed
  <2>2. CASE End(s)
    BY <1>0, <2>2, EndMoves, IdlePlaced
  <2> QED BY <1>9, <2>1, <2>2 DEF Redeem
<1>10. CASE PayCard(s) \/ CutOff(s)
  BY <1>0, <1>10, EndMoves, IdlePlaced DEF PayCard, CutOff
<1> QED BY <1>1, <1>2, <1>3, <1>4, <1>5, <1>7, <1>8, <1>9, <1>10 DEF Step

(* The other variables keep their types.                                   *)
LEMMA PayTypes ==
  ASSUME Shape
  PROVE  /\ \A d \in Days : [ledger EXCEPT !.login[d] = @ + 1] \in Posted
         /\ \A d \in Days : [ledger EXCEPT !.stamp[d] = @ + 1] \in Posted
         /\ \A w \in Weeks, n \in Nat : [ledger EXCEPT !.card[w] = @ + n] \in Posted
<1>0. ledger \in Posted
  BY DEF Shape
<1>1. ASSUME NEW d \in Days PROVE [ledger EXCEPT !.login[d] = @ + 1] \in Posted
  <2>1. [ledger.login EXCEPT ![d] = @ + 1] \in [Days -> Nat]
    BY <1>0 DEF Posted
  <2> QED BY <1>0, <2>1 DEF Posted
<1>2. ASSUME NEW d \in Days PROVE [ledger EXCEPT !.stamp[d] = @ + 1] \in Posted
  <2>1. [ledger.stamp EXCEPT ![d] = @ + 1] \in [Days -> Nat]
    BY <1>0 DEF Posted
  <2> QED BY <1>0, <2>1 DEF Posted
<1>3. ASSUME NEW w \in Weeks, NEW n \in Nat PROVE [ledger EXCEPT !.card[w] = @ + n] \in Posted
  <2>1. [ledger.card EXCEPT ![w] = @ + n] \in [Weeks -> Nat]
    BY <1>0 DEF Posted
  <2> QED BY <1>0, <2>1 DEF Posted
<1> QED BY <1>1, <1>2, <1>3

LEMMA StepDay == ASSUME NEW s, Step(s) PROVE day' = day
BY DEF Step, Claim, Mark, AlreadyClaimed, PayLogin, Look, Enter, PayStamp, PayStampFails, Redeemed,
   LookBack, Redeem, PayCard, CutOff

(* The streak after a claim: it goes on, or starts anew.                   *)
LEMMA ClaimStreak ==
  ASSUME Shape, streak.count <= streak.last, NEW s \in Sessions, Claim(s), request[s].date \in Days
  PROVE  LET d == request[s].date
         IN  /\ streak'.last = d /\ streak.last # d
             /\ streak'.count = IF streak.last = d - 1 THEN streak.count + 1 ELSE 1
             /\ streak' \in [last : 0 .. LastDay, count : 0 .. LastDay]
             /\ streak'.count <= streak'.last
             /\ claimed' = claimed \cup {d} /\ behind' = (behind \/ d < streak.last)
<1> DEFINE d == request[s].date
<1>1. /\ streak' = [last |-> d, count |-> NextCount(d)] /\ streak.last # d
      /\ claimed' = claimed \cup {d} /\ behind' = (behind \/ d < streak.last)
  BY DEF Claim, Mark
<1>2. streak.last \in 0 .. LastDay /\ streak.count \in 0 .. LastDay
  BY DEF Shape
<1>3. NextCount(d) = IF streak.last = d - 1 THEN streak.count + 1 ELSE 1
  BY DEF NextCount
<1>4. NextCount(d) \in 0 .. LastDay /\ NextCount(d) <= d /\ d \in 0 .. LastDay
  BY <1>2, <1>3 DEF Days
<1> QED BY <1>1, <1>3, <1>4

LEMMA StepStreak ==
  ASSUME NEW s, Step(s)
  PROVE  Claim(s) \/ UNCHANGED <<streak, claimed, behind>>
BY DEF Step, AlreadyClaimed, PayLogin, Look, Enter, PayStamp, PayStampFails, Redeemed,
   LookBack, Redeem, PayCard, CutOff, history

LEMMA StepLedger ==
  ASSUME Shape, NEW s \in Sessions, Placed(request[s]), Step(s)
  PROVE  ledger' \in Posted
<1>1. CASE PayLogin(s)
  BY <1>1, PayTypes DEF PayLogin, Placed
<1>2. CASE PayStamp(s)
  BY <1>2, PayTypes DEF PayStamp, Placed
<1>3. CASE PayCard(s)
  <2>1. request[s].week \in Weeks /\ request[s].stamps \in Nat
    BY <1>3 DEF PayCard, Placed, Shape, Request
  <2> QED BY <1>3, <2>1, PayTypes DEF PayCard
<1>4. CASE UNCHANGED ledger
  BY <1>4 DEF Shape
<1> QED BY <1>1, <1>2, <1>3, <1>4
    DEF Step, Claim, Mark, AlreadyClaimed, Look, Enter, PayStampFails, Redeemed, LookBack, Redeem, CutOff

LEMMA StepLost ==
  ASSUME Shape, NEW s \in Sessions, Placed(request[s]), Step(s)
  PROVE  lost' \subseteq {"login", "stamp", "card"} \X Nat
<1> DEFINE q == request[s]
<1>1. Days \subseteq Nat /\ Weeks \subseteq Nat /\ lost \subseteq {"login", "stamp", "card"} \X Nat
  BY WeeksNat DEF Days, Shape
<1>2. CASE UNCHANGED lost
  BY <1>1, <1>2
<1>3. CASE PayStampFails(s) \/ (q.at = "payStamp" /\ Lose("stamp", q.date))
  <2>1. q.date \in Nat /\ lost' = lost \cup {<<"stamp", q.date>>}
    BY <1>1, <1>3 DEF PayStampFails, Lose, Placed
  <2> QED BY <1>1, <2>1
<1>4. CASE q.at = "payLogin" /\ Lose("login", q.date)
  <2>1. q.date \in Nat /\ lost' = lost \cup {<<"login", q.date>>}
    BY <1>1, <1>4 DEF Lose, Placed
  <2> QED BY <1>1, <2>1
<1>5. CASE q.at = "payCard" /\ Lose("card", q.week)
  <2>1. q.week \in Nat /\ lost' = lost \cup {<<"card", q.week>>}
    BY <1>1, <1>5 DEF Lose, Placed
  <2> QED BY <1>1, <2>1
<1>6. CASE Claim(s) \/ AlreadyClaimed(s) \/ PayLogin(s) \/ Look(s) \/ Enter(s) \/ PayStamp(s)
              \/ Redeemed(s) \/ LookBack(s) \/ Redeem(s) \/ PayCard(s)
  <2>1. lost' = lost
    BY <1>6 DEF Claim, Mark, AlreadyClaimed, PayLogin, Look, Enter, PayStamp, Redeemed, LookBack,
       Redeem, PayCard, history
  <2> QED BY <1>2, <2>1
<1> QED BY <1>2, <1>3, <1>4, <1>5, <1>6 DEF Step, CutOff

(* Which weeks are looked at or raced for.                                 *)
LEMMA StepSeen ==
  ASSUME NEW s, Step(s)
  PROVE  \/ seen' = seen
         \/ /\ seen' = seen \cup {Week(request[s].date)}
            /\ LookBack(s) \/ Redeem(s)
            /\ request[s].at # "idle"
BY DEF Step, Claim, Mark, AlreadyClaimed, PayLogin, Look, Enter, PayStamp, PayStampFails,
   Redeemed, LookBack, Redeem, PayCard, CutOff, Through, history

LEMMA StepRaced ==
  ASSUME NEW s, Step(s)
  PROVE  /\ raced \subseteq raced'
         /\ \/ raced' = raced
            \/ /\ Look(s) \/ Redeemed(s) \/ LookBack(s)
               /\ request[s].at # "idle"
               /\ \/ raced' = raced \cup {Week(request[s].date)}
                  \/ raced' = raced \cup {PreviousWeek(request[s].date)}
BY DEF Step, Claim, Mark, AlreadyClaimed, PayLogin, Look, Enter, PayStamp, PayStampFails,
   Redeemed, LookBack, Redeem, PayCard, CutOff, Racing, history

LEMMA ShapeStep ==
  ASSUME ShapeInv, NEW s \in Sessions, Step(s), UNCHANGED calls
  PROVE  ShapeInv'
<1>0. Shape /\ Placed(request[s]) /\ day' = day /\ day \in Days
  BY StepDay DEF ShapeInv, Shape
<1>1. \A w \in Weeks : Dense(w)
  BY DEF ShapeInv, CardIsDense, Dense
<1>2. CardsAfter(s) /\ Only(s) /\ Placed(request[s])'
  BY <1>0, StepCards, OwnPlaced
<1>3. CardIsDense'
  BY <1>0, <1>1, <1>2, DenseStep DEF CardIsDense, Dense
<1>4. ASSUME NEW t \in Sessions PROVE Placed(request[t])'
  <2>1. CASE t = s
    BY <1>2, <2>1
  <2>2. CASE t # s
    <3>1. PICK q : q = request[t] /\ q = request'[t]
      BY <1>2, <2>2 DEF Only
    <3>2. Placed(q)
      BY <3>1 DEF ShapeInv
    <3>3. Placed(q)'
      BY <1>0, <1>1, <1>2, <3>2, PlacedLasts
    <3> QED BY <3>1, <3>3, PlacedPrime
  <2> QED BY <2>1, <2>2
<1>5. request[s].at # "idle" => request[s].date \in Days
  BY <1>0 DEF Placed
<1>6. /\ streak' \in [last : 0 .. LastDay, count : 0 .. LastDay] /\ streak'.count <= streak'.last
      /\ claimed' \subseteq Days /\ behind' \in BOOLEAN
  <2>1. CASE Claim(s)
    <3>1. request[s].date \in Days
      BY <1>5, <2>1 DEF Claim
    <3>2. /\ streak' \in [last : 0 .. LastDay, count : 0 .. LastDay] /\ streak'.count <= streak'.last
          /\ claimed' = claimed \cup {request[s].date}
          /\ behind' = (behind \/ request[s].date < streak.last)
      BY <1>0, <2>1, <3>1, ClaimStreak DEF ShapeInv
    <3> QED BY <1>0, <3>1, <3>2 DEF Shape
  <2>2. CASE UNCHANGED <<streak, claimed, behind>>
    BY <1>0, <2>2 DEF Shape, ShapeInv
  <2> QED BY <2>1, <2>2, StepStreak
<1>7. seen' \subseteq Int
  <2>1. request[s].at # "idle" => Week(request[s].date) \in Int
    BY <1>5, WeekType
  <2> QED BY <1>0, <2>1, StepSeen DEF Shape
<1>8. raced' \subseteq Int
  <2>1. request[s].at # "idle" => Week(request[s].date) \in Int /\ PreviousWeek(request[s].date) \in Int
    BY <1>5, WeekType DEF PreviousWeek
  <2> QED BY <1>0, <2>1, StepRaced DEF Shape
<1>9. ledger' \in Posted /\ lost' \subseteq {"login", "stamp", "card"} \X Nat
  BY <1>0, StepLedger, StepLost
<1>10. Shape'
  BY <1>0, <1>2, <1>6, <1>7, <1>8, <1>9 DEF Shape, Only, CardsAfter
<1> QED BY <1>3, <1>4, <1>6, <1>10 DEF ShapeInv

LEMMA ShapeAsk ==
  ASSUME ShapeInv, NEW s \in Sessions, NEW c \in Calls, Ask(s, c)
  PROVE  ShapeInv'
<1>0. Shape /\ day \in Days /\ UNCHANGED <<day, streak, card, ledger, claimed, lost, seen, raced, behind>>
  BY DEF ShapeInv, Shape, Ask, history
<1>1. Only(s) /\ request'[s].at \in {"claim", "card"} /\ request'[s].date = day
  BY <1>0, AskMoves
<1>2. calls' \in 0 .. MaxCalls
  BY <1>0 DEF Ask, Shape
<1>3. Shape'
  BY <1>0, <1>1, <1>2 DEF Shape, Only
<1>4. CardIsDense'
  BY <1>0 DEF ShapeInv, CardIsDense, Used, Filled, Stamped
<1>5. ASSUME NEW t \in Sessions PROVE Placed(request[t])'
  <2>1. PICK q : q = request'[t]
    OBVIOUS
  <2>2. CASE t = s
    <3>1. q.at \notin {"enter", "redeem", "payCard"} /\ q.date \in Days /\ q.date <= day
      BY <1>0, <1>1, <2>1, <2>2 DEF Days
    <3>2. Placed(q)'
      BY <1>0, <3>1 DEF Placed
    <3> QED BY <2>1, <3>2, PlacedPrime
  <2>3. CASE t # s
    <3>1. q = request[t]
      BY <1>1, <2>1, <2>3 DEF Only
    <3>2. Placed(q)
      BY <3>1 DEF ShapeInv
    <3>3. Placed(q)'
      BY <1>0, <3>2 DEF Placed, Filled, Used
    <3> QED BY <2>1, <3>3, PlacedPrime
  <2> QED BY <2>2, <2>3
<1> QED BY <1>0, <1>3, <1>4, <1>5 DEF ShapeInv

LEMMA ShapeNextDay ==
  ASSUME ShapeInv, NextDay PROVE ShapeInv'
<1>0. /\ UNCHANGED <<streak, card, ledger, request, calls, claimed, lost, seen, raced, behind>>
      /\ day' = day + 1 /\ day < LastDay /\ day \in Days
  BY DEF ShapeInv, Shape, NextDay, history
<1>1. day' \in Days
  BY <1>0 DEF Days
<1>2. Shape'
  BY <1>0, <1>1 DEF ShapeInv, Shape
<1>3. CardIsDense'
  BY <1>0 DEF ShapeInv, CardIsDense, Used, Filled, Stamped
<1>4. ASSUME NEW t \in Sessions PROVE Placed(request[t])'
  <2>1. PICK q : q = request[t] /\ q = request'[t]
    BY <1>0
  <2>2. Placed(q)
    BY <2>1 DEF ShapeInv
  <2>3. q.at # "idle" => q.date \in Days /\ q.date <= day'
    BY <1>0, <2>2 DEF Placed, Days
  <2>4. Placed(q)'
    BY <1>0, <2>2, <2>3 DEF Placed, Filled, Used
  <2> QED BY <2>1, <2>4, PlacedPrime
<1> QED BY <1>0, <1>2, <1>3, <1>4 DEF ShapeInv

LEMMA ShapeInvariant == Spec => []ShapeInv
<1>1. Init => ShapeInv
  <2> SUFFICES ASSUME Init PROVE ShapeInv
    OBVIOUS
  <2>1. Weeks \subseteq Nat /\ 1 \in Days
    BY WeeksNat DEF Days
  <2>2. NoCard \in Card
    BY DEF NoCard, Card
  <2>3. Nothing \in Posted
    BY DEF Nothing, Posted
  <2>4. Shape
    <3>1. day \in Days /\ card \in [Weeks -> Card] /\ ledger \in Posted /\ request \in [Sessions -> Request]
      BY <2>1, <2>2, <2>3, IdleIsRequest DEF Init
    <3>2. streak \in [last : 0 .. LastDay, count : 0 .. LastDay] /\ calls \in 0 .. MaxCalls
      BY DEF Init
    <3>3. /\ lost \subseteq {"login", "stamp", "card"} \X Nat /\ claimed \subseteq Days
          /\ seen \subseteq Int /\ raced \subseteq Int /\ behind \in BOOLEAN
      BY DEF Init
    <3> QED BY <3>1, <3>2, <3>3 DEF Shape
  <2>5. ASSUME NEW w \in Weeks PROVE Dense(w)
    <3>1. Used(w) = {} /\ Stamped(w) = {}
      BY DEF Init, NoCard, Used, Stamped
    <3>2. Filled(w) = 0 /\ Cardinality(Stamped(w)) = 0 /\ 1 .. 0 = {}
      BY <3>1, FS_EmptySet DEF Filled
    <3> QED BY <3>1, <3>2 DEF Dense
  <2>6. CardIsDense
    BY <2>5 DEF CardIsDense, Dense
  <2>7. \A s \in Sessions : Placed(request[s])
    BY DEF Init, Placed, Idle
  <2>8. streak.count <= streak.last
    BY DEF Init
  <2> QED BY <2>4, <2>6, <2>7, <2>8 DEF ShapeInv
<1>2. ShapeInv /\ [Next]_vars => ShapeInv'
  <2> SUFFICES ASSUME ShapeInv, [Next]_vars PROVE ShapeInv'
    OBVIOUS
  <2>1. CASE UNCHANGED vars
    <3>1. UNCHANGED <<day, streak, card, ledger, request, calls, claimed, lost, seen, raced, behind>>
      BY <2>1 DEF vars
    <3>2. Shape' /\ CardIsDense'
      BY <3>1 DEF ShapeInv, Shape, CardIsDense, Used, Filled, Stamped
    <3>3. ASSUME NEW t \in Sessions PROVE Placed(request[t])'
      <4>1. PICK q : q = request[t] /\ q = request'[t]
        BY <3>1
      <4>2. Placed(q)'
        BY <3>1, <4>1 DEF ShapeInv, Placed, Filled, Used
      <4> QED BY <4>1, <4>2, PlacedPrime
    <3> QED BY <3>1, <3>2, <3>3 DEF ShapeInv
  <2> QED BY <2>1, ShapeStep, ShapeAsk, ShapeNextDay DEF Next
<1> QED BY <1>1, <1>2, PTL DEF Spec

(* The rows and the requests keep their types, and insertEntry fills the   *)
(* slots of a card one after the other, a stamp a day, days of its week.   *)
THEOREM LoginStampTyped == Spec => []TypeOK
<1>1. ShapeInv => TypeOK
  BY DEF ShapeInv, Shape, TypeOK
<1> QED BY <1>1, ShapeInvariant, PTL

-----------------------------------------------------------------------------
(* The streak.                                                             *)
LEMMA StreakStep ==
  ASSUME ShapeInv, StreakCountsDays, NEW s \in Sessions, Claim(s)
  PROVE  StreakCountsDays'
<1> DEFINE d == request[s].date
           last == streak.last
           count == streak.count
<1>1. d \in Days /\ Shape /\ count <= last
  BY DEF ShapeInv, Placed, Claim
<1>2. /\ streak'.last = d /\ last # d
      /\ streak'.count = IF last = d - 1 THEN count + 1 ELSE 1
      /\ claimed' = claimed \cup {d} /\ behind' = (behind \/ d < last)
  BY <1>1, ClaimStreak
<1>3. last \in 0 .. LastDay /\ count \in 0 .. LastDay /\ d \in Nat
  BY <1>1 DEF Shape, Days
<1>4. Days \subseteq Nat /\ claimed \subseteq Days
  BY <1>1 DEF Days, Shape
<1> SUFFICES ASSUME ~behind'
             PROVE  /\ \A e \in claimed' : e <= streak'.last
                    /\ \A e \in Days : streak'.last - streak'.count < e /\ e <= streak'.last
                           => e \in claimed'
                    /\ (streak'.last - streak'.count) \notin claimed'
  BY DEF StreakCountsDays
<1>5. ~behind /\ d > last
  <2>1. ~behind /\ ~(d < last)
    BY <1>2, Zenon
  <2> HIDE DEF d, last
  <2> QED BY <1>2, <1>3, <2>1
<1>6. /\ \A e \in claimed : e <= last
      /\ \A e \in Days : last - count < e /\ e <= last => e \in claimed
      /\ (last - count) \notin claimed
  BY <1>5 DEF StreakCountsDays
<1> HIDE DEF d, last, count
<1>7. CASE last = d - 1
  <2>1. streak'.last - streak'.count = last - count /\ streak'.last = d
    BY <1>2, <1>3, <1>7
  <2> QED BY <1>2, <1>3, <1>4, <1>5, <1>6, <1>7, <2>1
<1>8. CASE last # d - 1
  <2>1. streak'.last - streak'.count = d - 1 /\ streak'.last = d
    BY <1>2, <1>3, <1>8
  <2> QED BY <1>2, <1>3, <1>4, <1>5, <1>6, <1>8, <2>1
<1> QED BY <1>7, <1>8

LEMMA StreakInvariant == Spec => []StreakCountsDays
<1>1. Init => StreakCountsDays
  BY DEF Init, StreakCountsDays, Days
<1>2. ShapeInv /\ StreakCountsDays /\ [Next]_vars => StreakCountsDays'
  <2> SUFFICES ASSUME ShapeInv, StreakCountsDays, [Next]_vars PROVE StreakCountsDays'
    OBVIOUS
  <2>1. CASE UNCHANGED <<streak, claimed, behind>>
    BY <2>1 DEF StreakCountsDays
  <2>2. ASSUME NEW s \in Sessions, Step(s) PROVE StreakCountsDays'
    BY <2>1, <2>2, StepStreak, StreakStep
  <2> QED BY <2>1, <2>2 DEF Next, Ask, NextDay, vars, history
<1> QED BY <1>1, <1>2, ShapeInvariant, PTL DEF Spec

(* current_streak counts the days in a row, however claims interleave:     *)
(* claimToday counts in the statement that marks the day. Only a claim     *)
(* that comes after one of a later day breaks it.                          *)
THEOREM StreakSafe == Spec => []StreakCountsDays
BY StreakInvariant

-----------------------------------------------------------------------------
(* Payments: what is posted, lost or still to be posted for a day.         *)
Is(q, at, d) == IF q.at = at /\ q.date = d THEN 1 ELSE 0

LEMMA PayingAfter ==
  ASSUME NEW s \in Sessions, Only(s), NEW at, NEW d
  PROVE  /\ Cardinality(Paying(at, d)) \in Nat
         /\ Cardinality(Paying(at, d)) >= Is(request[s], at, d)
         /\ Cardinality(Paying(at, d)')
                = Cardinality(Paying(at, d)) - Is(request[s], at, d) + Is(request'[s], at, d)
<1> DEFINE P == Paying(at, d)
           Q == Paying(at, d)'
           R == P \ {s}
<1>1. IsFiniteSet(P) /\ Cardinality(P) \in Nat
  <2>1. P \in SUBSET Sessions
    BY DEF Paying
  <2>2. IsFiniteSet(P)
    BY <2>1, FS_Subset
  <2> QED BY <2>2, FS_CardinalityType
<1>2. s \in P <=> Is(request[s], at, d) = 1
  BY DEF Paying, Is
<1>3. Q = IF Is(request'[s], at, d) = 1 THEN R \cup {s} ELSE R
  BY DEF Paying, Is, Only
<1>4. /\ Is(request[s], at, d) \in {0, 1} /\ Is(request'[s], at, d) \in {0, 1}
  BY DEF Is
<1> HIDE DEF P, Q
<1>5. IsFiniteSet(R) /\ Cardinality(R) = IF s \in P THEN Cardinality(P) - 1 ELSE Cardinality(P)
  BY <1>1, FS_RemoveElement
<1>6. Cardinality(R) \in Nat
  BY <1>5, FS_CardinalityType
<1>7. s \notin R
  OBVIOUS
<1> HIDE DEF R
<1>8. Cardinality(R \cup {s}) = Cardinality(R) + 1
  BY <1>5, <1>7, FS_AddElement
<1>9. Cardinality(Q) = Cardinality(R) + Is(request'[s], at, d)
  BY <1>3, <1>4, <1>6, <1>8
<1>10. Cardinality(R) = Cardinality(P) - Is(request[s], at, d)
  BY <1>1, <1>2, <1>4, <1>5
<1> QED BY <1>1, <1>4, <1>6, <1>9, <1>10 DEF P, Q

LEMMA PayingSame ==
  ASSUME UNCHANGED request, NEW at, NEW d PROVE Paying(at, d)' = Paying(at, d)
BY DEF Paying

LEMMA MissedType == ASSUME NEW kind, NEW key PROVE Missed(kind, key) \in {0, 1}
BY DEF Missed

LEMMA MissedAfter ==
  ASSUME NEW kind, NEW key, NEW k1, NEW k2, lost' = lost \cup {<<k1, k2>>}
  PROVE  Missed(kind, key)' = IF kind = k1 /\ key = k2 THEN 1 ELSE Missed(kind, key)
BY DEF Missed

(* The logins of a day.                                                    *)
Logins(d) == ledger.login[d] + Missed("login", d) + Cardinality(Paying("payLogin", d))

(* What a step changes of them.                                            *)
LEMMA LoginsAfter ==
  ASSUME ShapeInv, NEW s \in Sessions, Step(s), NEW d \in Days
  PROVE  /\ Logins(d) \in Nat
         /\ \/ /\ Claim(s) /\ Logins(d)' = Logins(d) + (IF request[s].date = d THEN 1 ELSE 0)
            \/ ~Claim(s) /\ Logins(d)' = Logins(d)
            \/ ~Claim(s) /\ Logins(d) > 1
<1> DEFINE n == Cardinality(Paying("payLogin", d))
           n1 == Cardinality(Paying("payLogin", d)')
           l == ledger.login[d]
           m == Missed("login", d)
           q == request[s]
           a == Is(request[s], "payLogin", d)
           b == Is(request'[s], "payLogin", d)
<1>0. Shape /\ Placed(q) /\ Only(s)
  BY StepDay, OwnPlaced DEF ShapeInv
<1>1. n \in Nat /\ n >= a /\ n1 = n - a + b
  BY <1>0, PayingAfter
<1>2. l \in Nat /\ m \in {0, 1} /\ a \in {0, 1} /\ b \in {0, 1}
  BY <1>0, MissedType DEF Shape, Posted, Is
<1>3. Logins(d)' = ledger'.login[d] + Missed("login", d)' + n1
  BY DEF Logins
<1>4. Logins(d) = l + m + n
  BY DEF Logins
<1>5. CASE Claim(s)
  <2>1. ledger'.login[d] = l /\ Missed("login", d)' = m
    BY <1>5 DEF Claim, Mark, Missed
  <2>2. q.at = "claim" /\ request'[s].at = "payLogin" /\ request'[s].date = q.date
    BY <1>0, <1>5, ClaimMoves
  <2>3. a = 0 /\ b = IF q.date = d THEN 1 ELSE 0
    BY <2>2 DEF Is
  <2> HIDE DEF n, n1, l, m, a, b
  <2> QED BY <1>1, <1>2, <1>3, <1>4, <1>5, <2>1, <2>3
<1>6. CASE PayLogin(s)
  <2>1. q.at = "payLogin" /\ request'[s].at # "payLogin"
    BY <1>0, <1>6, PayLoginMoves DEF Idle
  <2>2. a = (IF q.date = d THEN 1 ELSE 0) /\ b = 0
    BY <2>1 DEF Is
  <2>3. ledger'.login[d] = l + (IF q.date = d THEN 1 ELSE 0) /\ Missed("login", d)' = m
    <3>1. q.date \in Days /\ ledger.login \in [Days -> Nat]
      BY <1>0, <2>1 DEF Placed, Shape, Posted
    <3>2. ledger'.login = [ledger.login EXCEPT ![q.date] = @ + 1]
      BY <1>0, <1>6 DEF PayLogin, Shape, Posted
    <3>3. lost' = lost
      BY <1>6 DEF PayLogin, history
    <3> QED BY <3>1, <3>2, <3>3 DEF Missed
  <2>4. ~Claim(s)
    BY <2>1 DEF Claim
  <2> HIDE DEF n, n1, l, m, a, b
  <2> QED BY <1>1, <1>2, <1>3, <1>4, <2>2, <2>3, <2>4
<1>7. CASE CutOff(s) /\ q.at = "payLogin"
  <2>1. request'[s] = Idle /\ ledger' = ledger /\ lost' = lost \cup {<<"login", q.date>>}
    BY <1>0, <1>7, CutOffMoves DEF CutOff, Lose
  <2>2. a = (IF q.date = d THEN 1 ELSE 0) /\ b = 0
    BY <1>7, <2>1 DEF Is, Idle
  <2>3. Missed("login", d)' = IF d = q.date THEN 1 ELSE m
    BY <2>1, MissedAfter
  <2>4. ~Claim(s)
    BY <1>7 DEF Claim
  <2>5. ledger'.login[d] = l
    BY <2>1
  <2> HIDE DEF n, n1, l, m, a, b
  <2> QED BY <1>1, <1>2, <1>3, <1>4, <2>2, <2>3, <2>4, <2>5
<1>8. ASSUME q.at # "payLogin", request'[s].at # "payLogin", ~Claim(s),
             ledger'.login = ledger.login,
             \/ lost' = lost
             \/ \E e \in Nat : lost' = lost \cup {<<"stamp", e>>}
             \/ \E k \in Nat : lost' = lost \cup {<<"card", k>>}
      PROVE  ~Claim(s) /\ Logins(d)' = Logins(d) /\ Logins(d) \in Nat
  <2>1. Missed("login", d)' = m
    BY <1>8 DEF Missed
  <2>2. a = 0 /\ b = 0
    BY <1>8 DEF Is
  <2>3. ledger'.login[d] = l
    BY <1>8
  <2> HIDE DEF n, n1, l, m, a, b
  <2> QED BY <1>1, <1>2, <1>3, <1>4, <1>8, <2>1, <2>2, <2>3
<1>9. CASE AlreadyClaimed(s)
  <2>1. q.at = "claim" /\ request'[s].at # "payLogin" /\ ledger' = ledger /\ lost' = lost /\ ~Claim(s)
    <3>1. q.at = "claim" /\ ledger' = ledger /\ lost' = lost
      BY <1>9 DEF AlreadyClaimed, history
    <3>2. ~Claim(s)
      BY <1>9 DEF AlreadyClaimed, Claim
    <3>3. request'[s].at # "payLogin"
      BY <1>0, <1>9, AlreadyClaimedMoves DEF Idle
    <3> QED BY <3>1, <3>2, <3>3
  <2> QED BY <1>8, <2>1
<1>10. CASE Look(s)
  <2>1. q.at = "card" /\ request'[s].at # "payLogin" /\ ledger' = ledger /\ lost' = lost /\ ~Claim(s)
    <3>1. q.at = "card" /\ q.date \in Days
      BY <1>0, <1>10 DEF Look, Placed
    <3>2. ledger' = ledger /\ lost' = lost
      BY <1>10 DEF Look
    <3>3. ~Claim(s)
      BY <3>1 DEF Claim
    <3>4. request'[s].at # "payLogin"
      BY <1>0, <1>10, <3>1, LookMoves DEF Idle
    <3> QED BY <3>1, <3>2, <3>3, <3>4
  <2> QED BY <1>8, <2>1
<1>11. CASE Enter(s)
  <2>1. q.at = "enter" /\ request'[s].at # "payLogin" /\ ledger' = ledger /\ lost' = lost /\ ~Claim(s)
    BY <1>0, <1>11, EnterMoves DEF Enter, Claim, history
  <2> QED BY <1>8, <2>1
<1>12. CASE PayStamp(s) \/ PayStampFails(s)
  <2>1. q.at = "payStamp" /\ request'[s].at # "payLogin" /\ ~Claim(s)
    BY <1>0, <1>12, StampMoves DEF PayStamp, PayStampFails, Claim, Idle
  <2>2. ledger'.login = ledger.login
    BY <1>0, <1>12 DEF PayStamp, PayStampFails, Shape, Posted
  <2>3. q.date \in Nat
    BY <1>0, <2>1 DEF Placed, Days
  <2>4. lost' = lost \/ lost' = lost \cup {<<"stamp", q.date>>}
    BY <1>12 DEF PayStamp, PayStampFails, Lose, history
  <2> QED BY <1>8, <2>1, <2>2, <2>3, <2>4
<1>13. CASE Redeemed(s) \/ LookBack(s)
  <2>1. q.at \in {"card", "lookBack"} /\ ledger' = ledger /\ lost' = lost /\ ~Claim(s)
    BY <1>13 DEF Redeemed, LookBack, Claim
  <2>2. request'[s].at # "payLogin"
    <3>1. (\E w \in Weeks : Count(s, w)) \/ End(s)
      <4>1. q.at = "card" => Week(q.date) \in Weeks
        BY <1>0, WeekType DEF Placed
      <4> QED BY <1>13, <4>1 DEF Redeemed, LookBack
    <3> QED BY <1>0, <3>1, CountMoves, EndMoves DEF Idle
  <2> QED BY <1>8, <2>1, <2>2
<1>14. CASE Redeem(s)
  <2>1. q.at = "redeem" /\ request'[s].at # "payLogin" /\ ledger' = ledger /\ lost' = lost /\ ~Claim(s)
    BY <1>0, <1>14, GoMoves, EndMoves DEF Redeem, Claim, Idle
  <2> QED BY <1>8, <2>1
<1>15. CASE PayCard(s)
  <2>1. q.at = "payCard" /\ request'[s].at # "payLogin" /\ lost' = lost /\ ~Claim(s)
    BY <1>0, <1>15, EndMoves DEF PayCard, Claim, Idle, history
  <2>2. ledger'.login = ledger.login
    BY <1>0, <1>15 DEF PayCard, Shape, Posted
  <2> QED BY <1>8, <2>1, <2>2
<1>16. CASE CutOff(s) /\ q.at # "payLogin"
  <2>1. request'[s].at # "payLogin" /\ ledger' = ledger /\ ~Claim(s)
    <3>1. request'[s].at # "payLogin"
      BY <1>0, <1>16, CutOffMoves DEF Idle
    <3>2. ~Claim(s)
      BY <1>0, <1>16, <3>1, ClaimMoves
    <3> QED BY <1>16, <3>1, <3>2 DEF CutOff
  <2>2. \/ lost' = lost
        \/ q.at = "payStamp" /\ q.date \in Nat /\ lost' = lost \cup {<<"stamp", q.date>>}
        \/ q.at = "payCard" /\ q.week \in Nat /\ lost' = lost \cup {<<"card", q.week>>}
    <3>1. q.at = "payStamp" => q.date \in Nat
      BY <1>0 DEF Placed, Days
    <3>2. q.at = "payCard" => q.week \in Nat
      BY <1>0, WeeksNat DEF Placed
    <3>3. \/ lost' = lost
          \/ q.at = "payStamp" /\ lost' = lost \cup {<<"stamp", q.date>>}
          \/ q.at = "payCard" /\ lost' = lost \cup {<<"card", q.week>>}
      BY <1>16 DEF CutOff, Lose
    <3> QED BY <3>1, <3>2, <3>3
  <2> QED BY <1>8, <1>16, <2>1, <2>2
<1> QED BY <1>5, <1>6, <1>7, <1>9, <1>10, <1>11, <1>12, <1>13, <1>14, <1>15, <1>16 DEF Step

NothingPaying ==
  \A d \in Days : /\ Paying("payLogin", d) = {} /\ Paying("payStamp", d) = {}
                  /\ Cardinality(Paying("payLogin", d)) = 0 /\ Cardinality(Paying("payStamp", d)) = 0

LEMMA InitPaying == Init => NothingPaying
<1> SUFFICES ASSUME Init, NEW d \in Days
             PROVE  /\ Paying("payLogin", d) = {} /\ Paying("payStamp", d) = {}
                    /\ Cardinality(Paying("payLogin", d)) = 0 /\ Cardinality(Paying("payStamp", d)) = 0
  BY DEF NothingPaying
<1>1. Paying("payLogin", d) = {} /\ Paying("payStamp", d) = {}
  BY DEF Init, Paying, Idle
<1> QED BY <1>1, FS_EmptySet

(* A new request, and the next day, pay nothing.                           *)
LEMMA PayingAsk ==
  ASSUME Shape, NEW s \in Sessions, NEW c \in Calls, Ask(s, c),
         NEW at \in {"payLogin", "payStamp"}, NEW d
  PROVE  Cardinality(Paying(at, d)') = Cardinality(Paying(at, d))
<1>1. Only(s) /\ request[s].at = "idle" /\ request'[s].at \in {"claim", "card"}
  BY AskMoves
<1>2. Is(request[s], at, d) = 0 /\ Is(request'[s], at, d) = 0
  BY <1>1 DEF Is
<1> QED BY <1>1, <1>2, PayingAfter

LEMMA LoginPaidInvariant == Spec => []LoginPaidOnce
<1>1. Init => LoginPaidOnce
  <2> SUFFICES ASSUME Init, NEW d \in Days PROVE Logins(d) = 0 /\ d \notin claimed
    BY DEF LoginPaidOnce, Logins
  <2>1. Cardinality(Paying("payLogin", d)) = 0
    BY InitPaying DEF NothingPaying
  <2>2. ledger.login[d] = 0 /\ Missed("login", d) = 0 /\ d \notin claimed
    BY DEF Init, Nothing, Missed
  <2> QED BY <2>1, <2>2 DEF Logins
<1>2. ShapeInv /\ StreakCountsDays /\ LoginPaidOnce /\ [Next]_vars => LoginPaidOnce'
  <2> SUFFICES ASSUME ShapeInv, StreakCountsDays, LoginPaidOnce, [Next]_vars, ~behind', NEW d \in Days
               PROVE  Logins(d)' = (IF d \in claimed' THEN 1 ELSE 0)
    BY DEF LoginPaidOnce, Logins
  <2>0. Shape
    BY DEF ShapeInv
  <2>1. ~behind => Logins(d) = IF d \in claimed THEN 1 ELSE 0
    BY DEF LoginPaidOnce, Logins
  <2>2. ASSUME NEW s \in Sessions, Step(s) PROVE Logins(d)' = (IF d \in claimed' THEN 1 ELSE 0)
    <3>1. CASE Claim(s)
      <4> DEFINE e == request[s].date
      <4>1. e \in Days /\ Placed(request[s]) /\ streak.count <= streak.last /\ streak.last \in Nat
        BY <2>0, <3>1 DEF ShapeInv, Placed, Claim, Shape
      <4>2. /\ streak.last # e /\ claimed' = claimed \cup {e}
            /\ behind' = (behind \/ e < streak.last)
        BY <2>0, <3>1, <4>1, ClaimStreak
      <4>3. ~behind /\ ~(e < streak.last)
        BY <4>2, Zenon
      <4>4. e \notin claimed
        <5>1. \A g \in claimed : g <= streak.last
          BY <4>3 DEF StreakCountsDays
        <5>2. e \in Nat
          BY <4>1 DEF Days
        <5> QED BY <4>1, <4>2, <4>3, <5>1, <5>2
      <4>5. Logins(d) \in Nat /\ Logins(d)' = Logins(d) + (IF e = d THEN 1 ELSE 0)
        BY <2>2, <3>1, LoginsAfter
      <4> HIDE DEF e
      <4> QED BY <2>1, <4>2, <4>3, <4>4, <4>5
    <3>2. CASE ~Claim(s)
      <4>1. claimed' = claimed /\ ~behind
        BY <2>2, <3>2, StepStreak
      <4>2. Logins(d) \in Nat /\ (Logins(d)' = Logins(d) \/ Logins(d) > 1)
        BY <2>2, <3>2, LoginsAfter
      <4> QED BY <2>1, <4>1, <4>2
    <3> QED BY <3>1, <3>2
  <2>3. ASSUME NEW s \in Sessions, NEW c \in Calls, Ask(s, c)
        PROVE  Logins(d)' = (IF d \in claimed' THEN 1 ELSE 0)
    <3>1. Cardinality(Paying("payLogin", d)') = Cardinality(Paying("payLogin", d))
      BY <2>0, <2>3, PayingAsk
    <3>2. ledger' = ledger /\ lost' = lost /\ claimed' = claimed /\ behind' = behind
      BY <2>3 DEF Ask, history
    <3> QED BY <2>1, <3>1, <3>2 DEF Logins, Missed
  <2>4. CASE NextDay \/ UNCHANGED vars
    <3>1. request' = request /\ ledger' = ledger /\ lost' = lost /\ claimed' = claimed /\ behind' = behind
      BY <2>4 DEF NextDay, vars, history
    <3>2. Paying("payLogin", d)' = Paying("payLogin", d)
      BY <3>1, PayingSame
    <3> QED BY <2>1, <3>1, <3>2 DEF Logins, Missed
  <2> QED BY <2>2, <2>3, <2>4 DEF Next
<1> QED BY <1>1, <1>2, ShapeInvariant, StreakInvariant, PTL DEF Spec

(* What claimToday lets through once a day, insertPointEntry posts once,   *)
(* unless the request was cut off between the two.                         *)
THEOREM LoginPaid == Spec => []LoginPaidOnce
BY LoginPaidInvariant

-----------------------------------------------------------------------------
(* A card is exchanged once.                                               *)
AtPay(w) == {s \in Sessions : request[s].at = "payCard" /\ request[s].week = w}

PaidOnce(w) ==
    /\ \A s, t \in AtPay(w) : s = t
    /\ \A s \in AtPay(w) : request[s].stamps = card[w].points
    /\ ledger.card[w] = (IF AtPay(w) = {} /\ Missed("card", w) = 0 THEN card[w].points ELSE 0)
    /\ card[w].points > 0 <=> card[w].status = "redeemed"

(* A posting is under way, or was lost, only for an exchanged card, and    *)
(* not both.                                                               *)
OnceInv(w) == /\ PaidOnce(w)
              /\ AtPay(w) # {} => card[w].status = "redeemed" /\ Missed("card", w) = 0
              /\ Missed("card", w) = 1 => card[w].status = "redeemed"

(* A step that is not Redeem, nor of a request at payCard, pays nothing.   *)
LEMMA OnceElsewhere ==
  ASSUME Shape, NEW w \in Weeks, OnceInv(w), AtPay(w)' = AtPay(w),
         \A t \in AtPay(w) : request'[t] = request[t],
         Missed("card", w)' = Missed("card", w), ledger'.card[w] = ledger.card[w],
         card'[w].points = card[w].points,
         card'[w].status = card[w].status \/ Opens(w)
  PROVE  OnceInv(w)'
<1>1. PICK c : c = card'[w]
  OBVIOUS
<1>2. c.status = "redeemed" <=> card[w].status = "redeemed"
  BY <1>1 DEF Opens
<1> QED BY <1>1, <1>2 DEF OnceInv, PaidOnce

(* Who is at payCard after a step.                                         *)
LEMMA AtPayAfter ==
  ASSUME NEW s \in Sessions, Only(s), NEW w
  PROVE  AtPay(w)' = IF request'[s].at = "payCard" /\ request'[s].week = w
                     THEN (AtPay(w) \ {s}) \cup {s} ELSE AtPay(w) \ {s}
BY DEF AtPay, Only

(* Which step moves a request to payCard, and which one marks or pays.     *)
LEMMA StepPay ==
  ASSUME ShapeInv, NEW s \in Sessions, Step(s)
  PROVE  \/ /\ Redeem(s)
            /\ request[s].at = "redeem" /\ ledger' = ledger /\ lost' = lost
            /\ \/ /\ Exchanges(s, request[s].week) /\ request'[s].at = "payCard"
                  /\ request'[s].week = request[s].week /\ request'[s].stamps = request[s].stamps
               \/ request'[s] = Idle /\ card' = card
         \/ /\ PayCard(s)
            /\ request[s].at = "payCard" /\ card' = card /\ lost' = lost /\ request'[s] = Idle
            /\ ledger'.card = [ledger.card EXCEPT ![request[s].week] = @ + request[s].stamps]
         \/ /\ CutOff(s) /\ request[s].at = "payCard"
            /\ card' = card /\ ledger' = ledger /\ request'[s] = Idle
            /\ lost' = lost \cup {<<"card", request[s].week>>}
         \/ /\ ~Redeem(s) /\ request[s].at # "payCard" /\ request'[s].at # "payCard"
            /\ ledger'.card = ledger.card
            /\ \A w : Missed("card", w)' = Missed("card", w)
<1> DEFINE q == request[s]
<1>0. Shape /\ Placed(q) /\ Only(s) /\ CardsAfter(s)
  BY StepDay, OwnPlaced, StepCards DEF ShapeInv
<1>l. lost' = lost => \A w : Missed("card", w)' = Missed("card", w)
  BY DEF Missed
<1>k. ASSUME NEW k \in {"login", "stamp"}, NEW e, lost' = lost \cup {<<k, e>>}
      PROVE  \A w : Missed("card", w)' = Missed("card", w)
  BY <1>k, MissedAfter
<1>1. CASE Redeem(s)
  <2>1. q.at = "redeem" /\ ledger' = ledger /\ lost' = lost
    BY <1>1 DEF Redeem
  <2>2. CASE /\ Collecting(q.week) /\ Go(s, "payCard")
             /\ card' = [card EXCEPT ![q.week].status = "redeemed", ![q.week].points = q.stamps]
    <3>1. /\ request'[s].at = "payCard" /\ request'[s].week = q.week /\ request'[s].stamps = q.stamps
      BY <1>0, <2>2, GoMoves
    <3>2. q.week \in Weeks
      BY <1>0, <2>1 DEF Placed
    <3>3. Exchanges(s, q.week)
      BY <1>0, <1>1, <2>2, <3>2 DEF Exchanges, Shape, Card
    <3> QED BY <1>1, <2>1, <3>1, <3>3
  <2>3. CASE ~Collecting(q.week) /\ End(s) /\ UNCHANGED card
    BY <1>0, <1>1, <2>1, <2>3, EndMoves
  <2> QED BY <1>1, <2>2, <2>3 DEF Redeem
<1>2. CASE PayCard(s)
  <2>1. q.at = "payCard" /\ card' = card /\ lost' = lost
    BY <1>2 DEF PayCard, history
  <2>2. request'[s] = Idle
    BY <1>0, <1>2, EndMoves DEF PayCard
  <2>3. ledger'.card = [ledger.card EXCEPT ![q.week] = @ + q.stamps]
    BY <1>0, <1>2 DEF PayCard, Shape, Posted
  <2> QED BY <1>2, <2>1, <2>2, <2>3
<1>3. CASE CutOff(s) /\ q.at = "payCard"
  <2>1. request'[s] = Idle /\ card' = card /\ ledger' = ledger
    BY <1>0, <1>3, CutOffMoves DEF CutOff
  <2>2. lost' = lost \cup {<<"card", q.week>>}
    BY <1>3 DEF CutOff, Lose
  <2> QED BY <1>3, <2>1, <2>2
<1>x. ASSUME q.at \notin {"payCard", "redeem"} , request'[s].at # "payCard", ledger'.card = ledger.card,
             \A w : Missed("card", w)' = Missed("card", w)
      PROVE  /\ ~Redeem(s) /\ request[s].at # "payCard" /\ request'[s].at # "payCard"
             /\ ledger'.card = ledger.card
             /\ \A w : Missed("card", w)' = Missed("card", w)
  BY <1>x DEF Redeem
<1>4. CASE Claim(s)
  <2>1. q.at = "claim" /\ request'[s].at = "payLogin"
    BY <1>0, <1>4, ClaimMoves
  <2>2. ledger' = ledger /\ lost' = lost
    BY <1>4 DEF Claim, Mark
  <2> QED BY <1>l, <1>x, <2>1, <2>2
<1>5. CASE AlreadyClaimed(s) \/ PayLogin(s)
  <2>1. q.at \in {"claim", "payLogin"} /\ request'[s].at # "payCard"
    BY <1>0, <1>5, AlreadyClaimedMoves, PayLoginMoves DEF Idle
  <2>2. lost' = lost
    BY <1>5 DEF AlreadyClaimed, PayLogin, history
  <2>3. ledger'.card = ledger.card
    BY <1>0, <1>5 DEF AlreadyClaimed, PayLogin, Shape, Posted
  <2> QED BY <1>l, <1>x, <2>1, <2>2, <2>3
<1>6. CASE Look(s)
  <2>1. q.at = "card" /\ q.date \in Days /\ ledger' = ledger /\ lost' = lost
    BY <1>0, <1>6 DEF Look, Placed
  <2>2. request'[s].at # "payCard"
    BY <1>0, <1>6, <2>1, LookMoves DEF Idle
  <2> QED BY <1>l, <1>x, <2>1, <2>2
<1>7. CASE Enter(s)
  <2>1. q.at = "enter" /\ request'[s].at = "payStamp" /\ ledger' = ledger /\ lost' = lost
    BY <1>0, <1>7, EnterMoves DEF Enter, history
  <2> QED BY <1>l, <1>x, <2>1
<1>8. CASE PayStamp(s) \/ PayStampFails(s)
  <2>1. q.at = "payStamp" /\ request'[s].at # "payCard"
    BY <1>0, <1>8, StampMoves DEF PayStamp, PayStampFails, Idle
  <2>2. ledger'.card = ledger.card
    BY <1>0, <1>8 DEF PayStamp, PayStampFails, Shape, Posted
  <2>3. lost' = lost \/ lost' = lost \cup {<<"stamp", q.date>>}
    BY <1>8 DEF PayStamp, PayStampFails, Lose, history
  <2> QED BY <1>l, <1>k, <1>x, <2>1, <2>2, <2>3
<1>9. CASE Redeemed(s) \/ LookBack(s)
  <2>1. q.at \in {"card", "lookBack"} /\ ledger' = ledger /\ lost' = lost
    BY <1>9 DEF Redeemed, LookBack
  <2>2. request'[s].at # "payCard"
    <3>1. (\E w \in Weeks : Count(s, w)) \/ End(s)
      <4>1. q.at = "card" => Week(q.date) \in Weeks
        BY <1>0, WeekType DEF Placed
      <4> QED BY <1>9, <4>1 DEF Redeemed, LookBack
    <3> QED BY <1>0, <3>1, CountMoves, EndMoves DEF Idle
  <2> QED BY <1>l, <1>x, <2>1, <2>2
<1>10. CASE CutOff(s) /\ q.at # "payCard" /\ ~Redeem(s)
  <2>1. request'[s].at # "payCard" /\ ledger' = ledger
    BY <1>0, <1>10, CutOffMoves DEF CutOff, Idle
  <2>2. \/ lost' = lost
        \/ \E k \in {"login", "stamp"} : lost' = lost \cup {<<k, q.date>>}
    BY <1>10 DEF CutOff, Lose
  <2>3. \A w : Missed("card", w)' = Missed("card", w)
    BY <1>l, <1>k, <2>2
  <2> QED BY <1>10, <2>1, <2>3
<1> QED BY <1>1, <1>2, <1>3, <1>4, <1>5, <1>6, <1>7, <1>8, <1>9, <1>10 DEF Step

(* The step of a request keeps every card paid once.                       *)
LEMMA OnceStep ==
  ASSUME ShapeInv, NEW s \in Sessions, Step(s), NEW w \in Weeks, OnceInv(w)
  PROVE  OnceInv(w)'
<1> DEFINE q == request[s]
<1>0. Shape /\ Placed(q) /\ Only(s) /\ CardsAfter(s)
  BY StepDay, OwnPlaced, StepCards DEF ShapeInv
<1>1. card[w].points \in Nat /\ ledger.card \in [Weeks -> Nat] /\ Missed("card", w) \in {0, 1}
  BY <1>0, MissedType DEF Shape, Card, Posted
<1>2. \A t \in Sessions \ {s} : request'[t] = request[t]
  BY <1>0 DEF Only
<1>3. CASE /\ Redeem(s) /\ q.at = "redeem" /\ ledger' = ledger /\ lost' = lost
           /\ Exchanges(s, q.week) /\ request'[s].at = "payCard"
           /\ request'[s].week = q.week /\ request'[s].stamps = q.stamps
  <2>0. Missed("card", w)' = Missed("card", w)
    BY <1>3 DEF Missed
  <2>1. CASE q.week = w
    <3>1. card'[w].status = "redeemed" /\ card'[w].points = q.stamps /\ card[w].status # "redeemed"
      BY <1>3, <2>1 DEF Exchanges, Collecting
    <3>2. AtPay(w) = {} /\ Missed("card", w) = 0 /\ card[w].points = 0
      BY <1>1, <3>1 DEF OnceInv, PaidOnce
    <3>3. AtPay(w)' = {s}
      BY <1>0, <1>3, <2>1, <3>2, AtPayAfter
    <3>4. q.stamps > 0
      BY <1>0, <1>3 DEF Placed
    <3>5. ledger'.card[w] = 0
      BY <1>3, <3>2 DEF OnceInv, PaidOnce
    <3> QED BY <1>3, <2>0, <3>1, <3>2, <3>3, <3>4, <3>5 DEF OnceInv, PaidOnce
  <2>2. CASE q.week # w
    <3>1. AtPay(w)' = AtPay(w) /\ s \notin AtPay(w)
      <4>1. s \notin AtPay(w)
        BY <1>3 DEF AtPay
      <4> QED BY <1>0, <1>3, <2>2, <4>1, AtPayAfter
    <3>2. \A t \in AtPay(w) : request'[t] = request[t]
      BY <1>2, <3>1 DEF AtPay
    <3>3. card'[w].points = card[w].points /\ (card'[w].status = card[w].status \/ Opens(w))
      BY <1>0, <2>2 DEF CardsAfter, Opens, Fills, Exchanges
    <3> QED BY <1>0, <1>3, <2>0, <3>1, <3>2, <3>3, OnceElsewhere
  <2> QED BY <2>1, <2>2
<1>4. CASE q.at = "redeem" /\ ledger' = ledger /\ lost' = lost /\ request'[s] = Idle /\ card' = card
  <2>1. AtPay(w)' = AtPay(w) /\ s \notin AtPay(w)
    <3>1. s \notin AtPay(w)
      BY <1>4 DEF AtPay
    <3>2. request'[s].at # "payCard"
      BY <1>4 DEF Idle
    <3> QED BY <1>0, <3>1, <3>2, AtPayAfter
  <2>2. \A t \in AtPay(w) : request'[t] = request[t]
    BY <1>2, <2>1 DEF AtPay
  <2>3. Missed("card", w)' = Missed("card", w)
    BY <1>4 DEF Missed
  <2> QED BY <1>0, <1>4, <2>1, <2>2, <2>3, OnceElsewhere
<1>5. CASE /\ q.at = "payCard" /\ card' = card /\ lost' = lost /\ request'[s] = Idle
           /\ ledger'.card = [ledger.card EXCEPT ![q.week] = @ + q.stamps]
  <2>0. Missed("card", w)' = Missed("card", w) /\ request'[s].at # "payCard" /\ q.week \in Weeks
    BY <1>0, <1>5 DEF Missed, Idle, Placed
  <2>1. CASE q.week = w
    <3>1. s \in AtPay(w)
      BY <1>5, <2>1 DEF AtPay
    <3>2. AtPay(w)' = {}
      <4>1. \A t \in AtPay(w) : t = s
        BY <3>1 DEF OnceInv, PaidOnce
      <4> QED BY <1>0, <2>0, <4>1, AtPayAfter
    <3>3. card[w].points = q.stamps /\ ledger.card[w] = 0 /\ Missed("card", w) = 0
      BY <3>1 DEF OnceInv, PaidOnce
    <3>4. ledger'.card[w] = card[w].points
      BY <1>1, <1>5, <2>1, <3>3
    <3> QED BY <1>5, <2>0, <3>2, <3>3, <3>4 DEF OnceInv, PaidOnce
  <2>2. CASE q.week # w
    <3>1. AtPay(w)' = AtPay(w) /\ s \notin AtPay(w)
      <4>1. s \notin AtPay(w)
        BY <2>2 DEF AtPay
      <4> QED BY <1>0, <2>0, <4>1, AtPayAfter
    <3>2. \A t \in AtPay(w) : request'[t] = request[t]
      BY <1>2, <3>1 DEF AtPay
    <3>3. ledger'.card[w] = ledger.card[w]
      BY <1>1, <1>5, <2>2
    <3> QED BY <1>0, <1>5, <2>0, <3>1, <3>2, <3>3, OnceElsewhere
  <2> QED BY <2>1, <2>2
<1>6. CASE /\ q.at = "payCard" /\ card' = card /\ ledger' = ledger /\ request'[s] = Idle
           /\ lost' = lost \cup {<<"card", q.week>>}
  <2>0. Missed("card", w)' = (IF w = q.week THEN 1 ELSE Missed("card", w)) /\ request'[s].at # "payCard"
    <3>1. lost' = lost \cup {<<"card", q.week>>}
      BY <1>6
    <3>2. Missed("card", w)' = (IF w = q.week THEN 1 ELSE Missed("card", w))
      BY <3>1, MissedAfter
    <3>3. request'[s].at # "payCard"
      BY <1>6 DEF Idle
    <3> QED BY <3>2, <3>3
  <2>1. CASE q.week = w
    <3>1. s \in AtPay(w)
      BY <1>6, <2>1 DEF AtPay
    <3>2. AtPay(w)' = {}
      <4>1. \A t \in AtPay(w) : t = s
        BY <3>1 DEF OnceInv, PaidOnce
      <4> QED BY <1>0, <2>0, <4>1, AtPayAfter
    <3>3. ledger.card[w] = 0 /\ card[w].status = "redeemed"
      BY <3>1 DEF OnceInv, PaidOnce
    <3> QED BY <1>6, <2>0, <2>1, <3>2, <3>3 DEF OnceInv, PaidOnce
  <2>2. CASE q.week # w
    <3>1. AtPay(w)' = AtPay(w) /\ s \notin AtPay(w)
      <4>1. s \notin AtPay(w)
        BY <2>2 DEF AtPay
      <4> QED BY <1>0, <2>0, <4>1, AtPayAfter
    <3>2. \A t \in AtPay(w) : request'[t] = request[t]
      BY <1>2, <3>1 DEF AtPay
    <3> QED BY <1>0, <1>6, <2>0, <2>2, <3>1, <3>2, OnceElsewhere
  <2> QED BY <2>1, <2>2
<1>7. CASE /\ ~Redeem(s) /\ q.at # "payCard" /\ request'[s].at # "payCard"
           /\ ledger'.card = ledger.card
           /\ \A v : Missed("card", v)' = Missed("card", v)
  <2>1. AtPay(w)' = AtPay(w) /\ s \notin AtPay(w)
    <3>1. s \notin AtPay(w)
      BY <1>7 DEF AtPay
    <3> QED BY <1>0, <1>7, <3>1, AtPayAfter
  <2>2. \A t \in AtPay(w) : request'[t] = request[t]
    BY <1>2, <2>1 DEF AtPay
  <2>3. card'[w].points = card[w].points /\ (card'[w].status = card[w].status \/ Opens(w))
    BY <1>0, <1>7 DEF CardsAfter, Opens, Fills, Exchanges
  <2>4. Missed("card", w)' = Missed("card", w) /\ ledger'.card[w] = ledger.card[w]
    BY <1>7
  <2> QED BY <1>0, <2>1, <2>2, <2>3, <2>4, OnceElsewhere
<1> QED BY <1>3, <1>4, <1>5, <1>6, <1>7, StepPay

OnceInvs == \A w \in Weeks : OnceInv(w)

LEMMA OnceInvariant == Spec => []OnceInvs
<1>1. Init => OnceInvs
  <2> SUFFICES ASSUME Init, NEW w \in Weeks PROVE OnceInv(w)
    BY DEF OnceInvs
  <2>1. AtPay(w) = {} /\ Missed("card", w) = 0 /\ ledger.card[w] = 0
    BY DEF Init, AtPay, Idle, Missed, Nothing
  <2>2. card[w].points = 0 /\ card[w].status = "none"
    BY DEF Init, NoCard
  <2> QED BY <2>1, <2>2 DEF OnceInv, PaidOnce
<1>2. ShapeInv /\ OnceInvs /\ [Next]_vars => OnceInvs'
  <2> SUFFICES ASSUME ShapeInv, OnceInvs, [Next]_vars, NEW w \in Weeks PROVE OnceInv(w)'
    BY DEF OnceInvs
  <2>0. Shape /\ OnceInv(w)
    BY DEF ShapeInv, OnceInvs
  <2>1. ASSUME NEW s \in Sessions, Step(s) PROVE OnceInv(w)'
    BY <2>0, <2>1, OnceStep
  <2>2. ASSUME NEW s \in Sessions, NEW c \in Calls, Ask(s, c) PROVE OnceInv(w)'
    <3>1. Only(s) /\ request[s].at = "idle" /\ request'[s].at \in {"claim", "card"}
      BY <2>0, <2>2, AskMoves
    <3>2. s \notin AtPay(w)
      BY <3>1 DEF AtPay
    <3>3. AtPay(w)' = AtPay(w)
      BY <3>1, <3>2, AtPayAfter
    <3>4. \A t \in AtPay(w) : request'[t] = request[t]
      BY <3>1, <3>2 DEF AtPay, Only
    <3>5. card' = card /\ ledger' = ledger /\ lost' = lost
      BY <2>2 DEF Ask, history
    <3>6. Missed("card", w)' = Missed("card", w)
      BY <3>5 DEF Missed
    <3> QED BY <2>0, <3>3, <3>4, <3>5, <3>6, OnceElsewhere
  <2>3. CASE NextDay \/ UNCHANGED vars
    <3>1. card' = card /\ ledger' = ledger /\ lost' = lost /\ request' = request
      BY <2>3 DEF NextDay, vars, history
    <3>2. Missed("card", w)' = Missed("card", w) /\ AtPay(w)' = AtPay(w)
      BY <3>1 DEF Missed, AtPay
    <3> QED BY <2>0, <3>1, <3>2, OnceElsewhere
  <2> QED BY <2>1, <2>2, <2>3 DEF Next
<1> QED BY <1>1, <1>2, ShapeInvariant, PTL DEF Spec

-----------------------------------------------------------------------------
(* Who is at a card. A request that comes to the card of a week nobody     *)
(* else was at has just read it, and does not write it in that step.       *)
Joins(s, w) ==
    LET q == request'[s]
    IN  /\ At(w) \ {s} = {} /\ request[s].at \in {"card", "lookBack"} /\ q.week = w
        /\ \/ s \in Coming(w)
           \/ request[s].at = "lookBack" /\ w = PreviousWeek(request[s].date) /\ Redeemable(w)
        /\ \/ /\ q.at = "enter" /\ q.date \notin Stamped(w) /\ q.slot = Filled(w) + 1
              /\ card[w].status # "redeemed" /\ card'[w].status # "none"
           \/ q.at = "redeem" /\ q.stamps = Filled(w)

LEMMA StepAt ==
  ASSUME ShapeInv, NEW s \in Sessions, Step(s), NEW w \in Weeks, w \notin raced'
  PROVE  w \notin raced /\ (s \notin At(w)' \/ Joins(s, w))
<1> DEFINE q == request[s]
<1>0. Shape /\ Placed(q) /\ Only(s) /\ CardsAfter(s)
  BY StepDay, OwnPlaced, StepCards DEF ShapeInv
<1>1. w \notin raced
  BY StepRaced
<1>2. ASSUME s \in At(w)' PROVE request'[s].at \in {"enter", "redeem"} /\ request'[s].week = w
  BY <1>2 DEF At
<1>3. CASE Look(s)
  <2> DEFINE d == q.date
             v == Week(q.date)
  <2>0. q.at = "card" /\ d \in Days /\ v \in Weeks /\ card' = Opened(v)
    BY <1>0, <1>3, WeekType DEF Look, Placed
  <2>1. CASE Stampable(d) /\ Racing(At(v) \ {s}, v)
    <3>1. SUFFICES ASSUME s \in At(w)' PROVE Joins(s, w)
      BY <1>1
    <3>2. \/ /\ request'[s].at = "enter" /\ request'[s].week = v
             /\ request'[s].date = d /\ request'[s].slot = Filled(v) + 1
          \/ request'[s] = Idle \/ request'[s].at = "lookBack"
      BY <1>0, <1>3, <2>0, LookMoves
    <3>3. /\ request'[s].at = "enter" /\ v = w
          /\ request'[s].date = d /\ request'[s].slot = Filled(w) + 1
      BY <1>2, <3>1, <3>2 DEF Idle
    <3>4. At(w) \ {s} = {}
      BY <2>1, <3>3 DEF Racing
    <3>5. s \in Coming(w)
      BY <2>0, <3>3 DEF Coming
    <3>6. d \notin Stamped(w) /\ card[w].status # "redeemed"
      BY <2>1, <3>3 DEF Stampable
    <3>7. card'[w].status # "none"
      BY <1>0, <2>0, <3>3 DEF Opened, Shape, Card
    <3> QED BY <1>2, <2>0, <3>1, <3>3, <3>4, <3>5, <3>6, <3>7 DEF Joins
  <2>2. CASE ~Stampable(d)
    <3>1. request'[s] = Idle \/ request'[s].at = "lookBack"
      BY <1>0, <1>3, <2>0, <2>2, LookMoves
    <3> QED BY <1>1, <1>2, <3>1 DEF Idle
  <2> QED BY <1>3, <2>1, <2>2 DEF Look
<1>4. CASE Redeemed(s)
  <2> DEFINE v == Week(q.date)
  <2>0. q.at = "card" /\ q.date \in Days /\ v \in Weeks /\ Racing(At(v) \ {s}, v)
    BY <1>0, <1>4, WeekType DEF Redeemed, Placed
  <2>1. CASE Count(s, v)
    <3>1. SUFFICES ASSUME s \in At(w)' PROVE Joins(s, w)
      BY <1>1
    <3>2. request'[s].at = "redeem" /\ request'[s].week = v /\ request'[s].stamps = Filled(v)
      BY <1>0, <2>0, <2>1, CountMoves
    <3>3. v = w
      BY <1>2, <3>1, <3>2
    <3>4. At(w) \ {s} = {}
      BY <2>0, <3>3 DEF Racing
    <3>5. s \in Coming(w)
      BY <2>0, <3>3 DEF Coming
    <3> QED BY <2>0, <3>2, <3>3, <3>4, <3>5 DEF Joins
  <2>2. CASE End(s)
    <3>1. request'[s] = Idle
      BY <1>0, <2>2, EndMoves
    <3> QED BY <1>1, <1>2, <3>1 DEF Idle
  <2> QED BY <1>4, <2>1, <2>2 DEF Redeemed
<1>5. CASE LookBack(s)
  <2> DEFINE v == PreviousWeek(q.date)
  <2>0. q.at = "lookBack" /\ Racing((At(v) \cup Coming(v)) \ {s}, v)
    BY <1>5 DEF LookBack
  <2>1. CASE v \in Weeks /\ Redeemable(v) /\ Count(s, v)
    <3>1. SUFFICES ASSUME s \in At(w)' PROVE Joins(s, w)
      BY <1>1
    <3>2. request'[s].at = "redeem" /\ request'[s].week = v /\ request'[s].stamps = Filled(v)
      BY <1>0, <2>1, CountMoves
    <3>3. v = w
      BY <1>2, <3>1, <3>2
    <3>4. At(w) \ {s} = {}
      BY <2>0, <3>3 DEF Racing
    <3> QED BY <2>0, <2>1, <3>2, <3>3, <3>4 DEF Joins
  <2>2. CASE End(s)
    <3>1. request'[s] = Idle
      BY <1>0, <2>2, EndMoves
    <3> QED BY <1>1, <1>2, <3>1 DEF Idle
  <2> QED BY <1>5, <2>1, <2>2 DEF LookBack
<1>6. CASE request'[s].at \notin {"enter", "redeem"}
  BY <1>1, <1>2, <1>6
<1>7. CASE Claim(s)
  BY <1>0, <1>6, <1>7, ClaimMoves
<1>8. CASE AlreadyClaimed(s) \/ PayLogin(s)
  <2>1. request'[s] = Idle \/ request'[s].at = "card"
    BY <1>0, <1>8, AlreadyClaimedMoves, PayLoginMoves
  <2> QED BY <1>6, <2>1 DEF Idle
<1>9. CASE Enter(s)
  BY <1>0, <1>6, <1>9, EnterMoves
<1>10. CASE PayStamp(s) \/ PayStampFails(s)
  <2>1. request'[s] = Idle \/ request'[s].at = "lookBack"
    BY <1>0, <1>10, StampMoves DEF PayStamp, PayStampFails
  <2> QED BY <1>6, <2>1 DEF Idle
<1>11. CASE Redeem(s)
  <2>1. request'[s] = Idle \/ request'[s].at = "payCard"
    BY <1>0, <1>11, GoMoves, EndMoves DEF Redeem
  <2> QED BY <1>6, <2>1 DEF Idle
<1>12. CASE PayCard(s) \/ CutOff(s)
  <2>1. request'[s] = Idle
    BY <1>0, <1>12, EndMoves DEF PayCard, CutOff
  <2> QED BY <1>6, <2>1 DEF Idle
<1> QED BY <1>3, <1>4, <1>5, <1>7, <1>8, <1>9, <1>10, <1>11, <1>12 DEF Step

(* A week in which requests never met at the card has one at a time, which *)
(* knows the card as it is.                                                *)
KnowsCard(q, w) ==
    /\ q.at = "enter" => card[w].status # "redeemed" /\ q.date \notin Stamped(w) /\ q.slot = Filled(w) + 1
    /\ q.at = "redeem" => q.stamps = Filled(w)

Alone(w) == /\ \A s, t \in At(w) : s = t
            /\ \A s \in At(w) : KnowsCard(request[s], w)
            /\ card[w].status = "redeemed" => card[w].points = Filled(w)

AloneInv == \A w \in Weeks : w \notin raced => Alone(w)

LEMMA AtAfter ==
  ASSUME NEW s \in Sessions, Only(s), NEW w
  PROVE  At(w)' \subseteq At(w) \cup {s} /\ \A t \in At(w)' \ {s} : request'[t] = request[t] /\ t \in At(w)
BY DEF At, Only

LEMMA KnowsLasts ==
  ASSUME NEW q, NEW w, KnowsCard(q, w), card'[w].days = card[w].days,
         card[w].status # "redeemed" => card'[w].status # "redeemed"
  PROVE  KnowsCard(q, w)'
BY SameDays DEF KnowsCard

LEMMA KnowsPrime ==
  ASSUME NEW t, NEW q, q = request'[t], NEW w, KnowsCard(q, w)'
  PROVE  KnowsCard(request[t], w)'
BY DEF KnowsCard, Filled, Stamped, Used

LEMMA AloneStep ==
  ASSUME ShapeInv, NEW s \in Sessions, Step(s), NEW w \in Weeks, w \notin raced', w \notin raced => Alone(w)
  PROVE  Alone(w)'
<1> DEFINE q == request[s]
<1>0. Shape /\ Placed(q) /\ Only(s) /\ CardsAfter(s)
  BY StepDay, OwnPlaced, StepCards DEF ShapeInv
<1>1. Alone(w) /\ (s \notin At(w)' \/ Joins(s, w))
  BY StepAt
<1>2. At(w)' \subseteq At(w) \cup {s} /\ \A t \in At(w)' \ {s} : request'[t] = request[t] /\ t \in At(w)
  BY <1>0, AtAfter
<1>3. CASE Fills(s, w) \/ Exchanges(s, w)
  <2>1. s \in At(w)
    BY <1>3 DEF Fills, Exchanges, At, Redeem
  <2>2. s \notin At(w)'
    BY <1>0, <1>1, <1>3 DEF Joins, Fills, Exchanges, Redeem
  <2>3. At(w)' = {}
    BY <1>1, <1>2, <2>1, <2>2 DEF Alone
  <2>4. card'[w].status = "redeemed" => card'[w].points = Filled(w)'
    <3>1. CASE Fills(s, w)
      <4>1. card[w].status # "redeemed"
        BY <1>1, <2>1, <3>1 DEF Alone, KnowsCard, Fills
      <4> QED BY <3>1, <4>1 DEF Fills
    <3>2. CASE Exchanges(s, w)
      <4>1. q.stamps = Filled(w)
        BY <1>1, <2>1, <3>2 DEF Alone, KnowsCard, Exchanges, Redeem
      <4>2. Filled(w)' = Filled(w)
        BY <3>2, SameDays DEF Exchanges
      <4> QED BY <3>2, <4>1, <4>2 DEF Exchanges
    <3> QED BY <1>3, <3>1, <3>2
  <2> QED BY <2>3, <2>4 DEF Alone
<1>4. CASE ~Fills(s, w) /\ ~Exchanges(s, w)
  <2>1. /\ card'[w].days = card[w].days /\ card'[w].points = card[w].points
        /\ card'[w].status = "redeemed" <=> card[w].status = "redeemed"
    BY <1>0, <1>4 DEF CardsAfter, Opens
  <2>2. Filled(w)' = Filled(w) /\ Stamped(w)' = Stamped(w)
    BY <2>1, SameDays
  <2>3. \A t \in At(w)' \ {s} : KnowsCard(request[t], w)'
    <3> SUFFICES ASSUME NEW t \in At(w)' \ {s} PROVE KnowsCard(request[t], w)'
      OBVIOUS
    <3>1. PICK r : r = request'[t]
      OBVIOUS
    <3>2. KnowsCard(r, w)
      BY <1>1, <1>2, <3>1 DEF Alone
    <3>3. KnowsCard(r, w)'
      BY <2>1, <3>2, KnowsLasts
    <3> QED BY <3>1, <3>3, KnowsPrime
  <2>4. CASE s \notin At(w)'
    BY <1>1, <1>2, <2>1, <2>2, <2>3, <2>4 DEF Alone
  <2>5. CASE Joins(s, w)
    <3>1. \A t \in At(w)' : t = s
      BY <1>2, <2>5 DEF Joins
    <3>2. KnowsCard(request[s], w)'
      <4>1. PICK r : r = request'[s]
        OBVIOUS
      <4>2. KnowsCard(r, w)'
        BY <2>1, <2>2, <2>5, <4>1 DEF Joins, KnowsCard
      <4> QED BY <4>1, <4>2, KnowsPrime
    <3> QED BY <1>1, <2>1, <2>2, <3>1, <3>2 DEF Alone
  <2> QED BY <1>1, <2>4, <2>5
<1> QED BY <1>3, <1>4

LEMMA AloneSame ==
  ASSUME NEW w, Alone(w), card' = card, \A t \in At(w)' : t \in At(w) /\ request'[t] = request[t]
  PROVE  Alone(w)'
<1>1. Filled(w)' = Filled(w) /\ Stamped(w)' = Stamped(w)
  BY SameDays
<1>2. \A t \in At(w)' : KnowsCard(request[t], w)'
  <2> SUFFICES ASSUME NEW t \in At(w)' PROVE KnowsCard(request[t], w)'
    OBVIOUS
  <2>1. PICK r : r = request'[t]
    OBVIOUS
  <2>2. KnowsCard(r, w)
    BY <2>1 DEF Alone
  <2>3. KnowsCard(r, w)'
    BY <2>2, KnowsLasts
  <2> QED BY <2>1, <2>3, KnowsPrime
<1> QED BY <1>1, <1>2 DEF Alone

(* A new request is at no card.                                            *)
LEMMA AskAt ==
  ASSUME Shape, NEW s \in Sessions, NEW c \in Calls, Ask(s, c), NEW w
  PROVE  \A t \in At(w)' : t \in At(w) /\ request'[t] = request[t]
<1>1. Only(s) /\ request'[s].at \in {"claim", "card"}
  BY AskMoves
<1> QED BY <1>1 DEF Only, At

LEMMA AloneInvariant == Spec => []AloneInv
<1>1. Init => AloneInv
  <2> SUFFICES ASSUME Init, NEW w \in Weeks PROVE Alone(w)
    BY DEF AloneInv
  <2>1. At(w) = {}
    BY DEF Init, At, Idle
  <2>2. card[w].status = "none"
    BY DEF Init, NoCard
  <2> QED BY <2>1, <2>2 DEF Alone
<1>2. ShapeInv /\ AloneInv /\ [Next]_vars => AloneInv'
  <2> SUFFICES ASSUME ShapeInv, AloneInv, [Next]_vars, NEW w \in Weeks, w \notin raced' PROVE Alone(w)'
    BY DEF AloneInv
  <2>0. Shape /\ (w \notin raced => Alone(w))
    BY DEF ShapeInv, AloneInv
  <2>1. ASSUME NEW s \in Sessions, Step(s) PROVE Alone(w)'
    BY <2>0, <2>1, AloneStep
  <2>2. ASSUME NEW s \in Sessions, NEW c \in Calls, Ask(s, c) PROVE Alone(w)'
    <3>1. card' = card /\ raced' = raced
      BY <2>2 DEF Ask, history
    <3> QED BY <2>0, <2>2, <3>1, AskAt, AloneSame
  <2>3. CASE NextDay \/ UNCHANGED vars
    <3>1. card' = card /\ raced' = raced /\ request' = request
      BY <2>3 DEF NextDay, vars, history
    <3>2. \A t \in At(w)' : t \in At(w) /\ request'[t] = request[t]
      BY <3>1 DEF At
    <3> QED BY <2>0, <3>1, <3>2, AloneSame
  <2> QED BY <2>1, <2>2, <2>3 DEF Next
<1> QED BY <1>1, <1>2, ShapeInvariant, PTL DEF Spec

(* updateCardStatusIfCollecting lets one exchange of a card through, which *)
(* is posted once, for what the row says; and the row says all the stamps  *)
(* of the card where no two requests were at it together.                  *)
THEOREM CardPaidSafe == Spec => []CardPaid
<1>1. OnceInvs /\ AloneInv => CardPaid
  <2>1. OnceInvs => CardPaidOnce
    BY DEF OnceInvs, OnceInv, PaidOnce, AtPay, CardPaidOnce
  <2>2. AloneInv => RedeemedInFull
    BY DEF AloneInv, Alone, RedeemedInFull
  <2> QED BY <2>1, <2>2 DEF CardPaid
<1> QED BY <1>1, OnceInvariant, AloneInvariant, PTL

-----------------------------------------------------------------------------
(* The stamps of a day: posted, lost or still to be posted.                *)
Stamps(d) == ledger.stamp[d] + Missed("stamp", d) + Cardinality(Paying("payStamp", d))

(* What a step changes of them.                                            *)
LEMMA StampsAfter ==
  ASSUME ShapeInv, NEW s \in Sessions, Step(s), NEW d \in Days
  PROVE  /\ Stamps(d) \in Nat
         /\ \/ Enter(s) /\ Stamps(d)' = Stamps(d) + (IF request[s].date = d THEN 1 ELSE 0)
            \/ ~Enter(s) /\ Stamps(d)' = Stamps(d)
            \/ ~Enter(s) /\ Stamps(d) > 1 /\ Stamps(d)' >= 1
<1> DEFINE n == Cardinality(Paying("payStamp", d))
           n1 == Cardinality(Paying("payStamp", d)')
           l == ledger.stamp[d]
           m == Missed("stamp", d)
           q == request[s]
           a == Is(request[s], "payStamp", d)
           b == Is(request'[s], "payStamp", d)
<1>0. Shape /\ Placed(q) /\ Only(s)
  BY StepDay, OwnPlaced DEF ShapeInv
<1>1. n \in Nat /\ n >= a /\ n1 = n - a + b
  BY <1>0, PayingAfter
<1>2. l \in Nat /\ m \in {0, 1} /\ a \in {0, 1} /\ b \in {0, 1}
  BY <1>0, MissedType DEF Shape, Posted, Is
<1>3. Stamps(d)' = ledger'.stamp[d] + Missed("stamp", d)' + n1
  BY DEF Stamps
<1>4. Stamps(d) = l + m + n
  BY DEF Stamps
<1>5. CASE Enter(s)
  <2>1. ledger'.stamp[d] = l /\ Missed("stamp", d)' = m
    BY <1>5 DEF Enter, Missed, history
  <2>2. q.at = "enter" /\ request'[s].at = "payStamp" /\ request'[s].date = q.date
    BY <1>0, <1>5, EnterMoves
  <2>3. a = 0 /\ b = IF q.date = d THEN 1 ELSE 0
    BY <2>2 DEF Is
  <2> HIDE DEF n, n1, l, m, a, b
  <2> QED BY <1>1, <1>2, <1>3, <1>4, <1>5, <2>1, <2>3
<1>6. CASE PayStamp(s)
  <2>1. q.at = "payStamp" /\ request'[s].at # "payStamp"
    BY <1>0, <1>6, StampMoves DEF PayStamp, Idle
  <2>2. a = (IF q.date = d THEN 1 ELSE 0) /\ b = 0
    BY <2>1 DEF Is
  <2>3. ledger'.stamp[d] = l + (IF q.date = d THEN 1 ELSE 0) /\ Missed("stamp", d)' = m
    <3>1. q.date \in Days /\ ledger.stamp \in [Days -> Nat]
      BY <1>0, <2>1 DEF Placed, Shape, Posted
    <3>2. ledger'.stamp = [ledger.stamp EXCEPT ![q.date] = @ + 1]
      BY <1>0, <1>6 DEF PayStamp, Shape, Posted
    <3>3. lost' = lost
      BY <1>6 DEF PayStamp, history
    <3> QED BY <3>1, <3>2, <3>3 DEF Missed
  <2>4. ~Enter(s)
    BY <2>1 DEF Enter
  <2> HIDE DEF n, n1, l, m, a, b
  <2> QED BY <1>1, <1>2, <1>3, <1>4, <2>2, <2>3, <2>4
<1>7. CASE PayStampFails(s) \/ (CutOff(s) /\ q.at = "payStamp")
  <2>1. q.at = "payStamp" /\ ledger' = ledger /\ lost' = lost \cup {<<"stamp", q.date>>}
    BY <1>7 DEF PayStampFails, CutOff, Lose
  <2>2. request'[s].at # "payStamp"
    BY <1>0, <1>7, StampMoves, CutOffMoves DEF PayStampFails, Idle
  <2>3. a = (IF q.date = d THEN 1 ELSE 0) /\ b = 0
    BY <2>1, <2>2 DEF Is
  <2>4. Missed("stamp", d)' = IF d = q.date THEN 1 ELSE m
    BY <2>1, MissedAfter
  <2>5. ~Enter(s)
    BY <2>1 DEF Enter
  <2>6. ledger'.stamp[d] = l
    BY <2>1
  <2> HIDE DEF n, n1, l, m, a, b
  <2> QED BY <1>1, <1>2, <1>3, <1>4, <2>3, <2>4, <2>5, <2>6
<1>8. ASSUME q.at # "payStamp", request'[s].at # "payStamp",
             ledger'.stamp = ledger.stamp,
             \/ lost' = lost
             \/ \E e \in Nat : lost' = lost \cup {<<"login", e>>}
             \/ \E k \in Nat : lost' = lost \cup {<<"card", k>>}
      PROVE  ~Enter(s) /\ Stamps(d)' = Stamps(d) /\ Stamps(d) \in Nat
  <2>1. Missed("stamp", d)' = m
    BY <1>8 DEF Missed
  <2>2. a = 0 /\ b = 0
    BY <1>8 DEF Is
  <2>3. ledger'.stamp[d] = l
    BY <1>8
  <2>4. ~Enter(s)
    BY <1>0, <1>8, EnterMoves
  <2> HIDE DEF n, n1, l, m, a, b
  <2> QED BY <1>1, <1>2, <1>3, <1>4, <2>1, <2>2, <2>3, <2>4
<1>9. CASE Claim(s)
  <2>1. q.at = "claim" /\ request'[s].at = "payLogin"
    BY <1>0, <1>9, ClaimMoves
  <2>2. ledger' = ledger /\ lost' = lost
    BY <1>9 DEF Claim, Mark
  <2> QED BY <1>8, <2>1, <2>2
<1>10. CASE AlreadyClaimed(s) \/ PayLogin(s)
  <2>1. q.at \in {"claim", "payLogin"} /\ request'[s].at # "payStamp"
    BY <1>0, <1>10, AlreadyClaimedMoves, PayLoginMoves DEF Idle
  <2>2. lost' = lost
    BY <1>10 DEF AlreadyClaimed, PayLogin, history
  <2>3. ledger'.stamp = ledger.stamp
    BY <1>0, <1>10 DEF AlreadyClaimed, PayLogin, Shape, Posted
  <2> QED BY <1>8, <2>1, <2>2, <2>3
<1>11. CASE Look(s)
  <2>1. q.at = "card" /\ q.date \in Days /\ ledger' = ledger /\ lost' = lost
    BY <1>0, <1>11 DEF Look, Placed
  <2>2. request'[s].at # "payStamp"
    BY <1>0, <1>11, <2>1, LookMoves DEF Idle
  <2> QED BY <1>8, <2>1, <2>2
<1>12. CASE Redeemed(s) \/ LookBack(s)
  <2>1. q.at \in {"card", "lookBack"} /\ ledger' = ledger /\ lost' = lost
    BY <1>12 DEF Redeemed, LookBack
  <2>2. request'[s].at # "payStamp"
    <3>1. (\E w \in Weeks : Count(s, w)) \/ End(s)
      <4>1. q.at = "card" => Week(q.date) \in Weeks
        BY <1>0, WeekType DEF Placed
      <4> QED BY <1>12, <4>1 DEF Redeemed, LookBack
    <3> QED BY <1>0, <3>1, CountMoves, EndMoves DEF Idle
  <2> QED BY <1>8, <2>1, <2>2
<1>13. CASE Redeem(s)
  <2>1. q.at = "redeem" /\ request'[s].at # "payStamp" /\ ledger' = ledger /\ lost' = lost
    BY <1>0, <1>13, GoMoves, EndMoves DEF Redeem, Idle
  <2> QED BY <1>8, <2>1
<1>14. CASE PayCard(s)
  <2>1. q.at = "payCard" /\ request'[s].at # "payStamp" /\ lost' = lost
    BY <1>0, <1>14, EndMoves DEF PayCard, Idle, history
  <2>2. ledger'.stamp = ledger.stamp
    BY <1>0, <1>14 DEF PayCard, Shape, Posted
  <2> QED BY <1>8, <2>1, <2>2
<1>15. CASE CutOff(s) /\ q.at # "payStamp"
  <2>1. request'[s].at # "payStamp" /\ ledger' = ledger
    BY <1>0, <1>15, CutOffMoves DEF CutOff, Idle
  <2>2. \/ lost' = lost
        \/ q.at = "payLogin" /\ q.date \in Nat /\ lost' = lost \cup {<<"login", q.date>>}
        \/ q.at = "payCard" /\ q.week \in Nat /\ lost' = lost \cup {<<"card", q.week>>}
    <3>1. q.at = "payLogin" => q.date \in Nat
      BY <1>0 DEF Placed, Days
    <3>2. q.at = "payCard" => q.week \in Nat
      BY <1>0, WeeksNat DEF Placed
    <3>3. \/ lost' = lost
          \/ q.at = "payLogin" /\ lost' = lost \cup {<<"login", q.date>>}
          \/ q.at = "payCard" /\ lost' = lost \cup {<<"card", q.week>>}
      BY <1>15 DEF CutOff, Lose
    <3> QED BY <3>1, <3>2, <3>3
  <2> QED BY <1>8, <1>15, <2>1, <2>2
<1> QED BY <1>5, <1>6, <1>7, <1>9, <1>10, <1>11, <1>12, <1>13, <1>14, <1>15 DEF Step

StampAnswered(d) ==
    /\ d \in Stamped(Week(d)) => Stamps(d) >= 1
    /\ Week(d) \notin raced => Stamps(d) = (IF d \in Stamped(Week(d)) THEN 1 ELSE 0)

(* A step that enters nothing stamps nothing.                              *)
LEMMA StampedAfter ==
  ASSUME ShapeInv, NEW s \in Sessions, Step(s), NEW w \in Weeks
  PROVE  \/ Fills(s, w) /\ Enter(s) /\ Stamped(w)' = Stamped(w) \cup {request[s].date}
         \/ ~Fills(s, w) /\ Stamped(w)' = Stamped(w)
<1>0. Shape /\ Placed(request[s]) /\ CardsAfter(s) /\ Dense(w)
  BY StepCards DEF ShapeInv, CardIsDense, Dense
<1>1. CASE Fills(s, w)
  <2>1. Stamped(w)' = Stamped(w) \cup {request[s].date}
    BY <1>0, <1>1, FilledSlot
  <2>2. Enter(s)
    <3>1. card' # card
      <4>1. request[s].slot \in 1 .. Slots /\ request[s].date \in Days /\ 0 \notin Days
        BY <1>0, <1>1 DEF Fills, Placed, Days
      <4>2. card'[w].days[request[s].slot] = request[s].date /\ card[w].days[request[s].slot] = 0
        BY <1>0, <1>1, <4>1 DEF Fills, Shape, Card
      <4> QED BY <4>1, <4>2
    <3> QED BY <1>1, <3>1 DEF Fills, Step, Claim, AlreadyClaimed, PayLogin, Look, PayStamp, PayStampFails,
                              Redeemed, LookBack, Redeem, PayCard, CutOff
  <2> QED BY <1>1, <2>1, <2>2
<1>2. CASE ~Fills(s, w)
  <2>1. card'[w].days = card[w].days
    BY <1>0, <1>2 DEF CardsAfter, Opens, Exchanges
  <2> QED BY <1>2, <2>1, SameDays
<1> QED BY <1>1, <1>2

(* An entry that goes in fills, one alone at the card goes in.             *)
LEMMA EnterFills ==
  ASSUME ShapeInv, NEW s \in Sessions, Enter(s), NEW w, w = request[s].week
  PROVE  /\ w \in Weeks /\ Week(request[s].date) = w /\ s \in At(w) /\ request[s].date \in Days
         /\ request[s].date \notin Stamped(w) /\ card[w].days[request[s].slot] = 0 => Fills(s, w)
         /\ Alone(w) => Fills(s, w)
         /\ ~Fills(s, w) => card' = card
<1> DEFINE q == request[s]
<1>1. q.at = "enter" /\ q.date \in Days /\ w = Week(q.date) /\ w \in Weeks /\ q.slot \in 1 .. Slots
  BY WeekType DEF ShapeInv, Placed, Enter
<1>2. s \in At(w)
  BY <1>1 DEF At
<1>3. q.date \notin Stamped(w) /\ card[w].days[q.slot] = 0 => Fills(s, w)
  BY <1>1 DEF Enter, Entered, Fills, ShapeInv, Shape, Card
<1>4. Alone(w) => Fills(s, w)
  <2> SUFFICES ASSUME Alone(w) PROVE Fills(s, w)
    OBVIOUS
  <2>1. q.date \notin Stamped(w) /\ q.slot = Filled(w) + 1
    BY <1>1, <1>2 DEF Alone, KnowsCard
  <2>2. Used(w) = 1 .. Filled(w) /\ Filled(w) \in 0 .. Slots
    BY <1>1, FilledType DEF ShapeInv, CardIsDense
  <2>3. q.slot \notin Used(w)
    BY <2>1, <2>2
  <2> QED BY <1>1, <1>3, <2>1, <2>3 DEF Used
<1>5. ~Fills(s, w) => card' = card
  BY <1>1, <1>3 DEF Enter, Entered
<1> QED BY <1>1, <1>2, <1>3, <1>4, <1>5

LEMMA StampStep ==
  ASSUME ShapeInv, AloneInv, NEW s \in Sessions, Step(s), NEW d \in Days, StampAnswered(d)
  PROVE  StampAnswered(d)'
<1> DEFINE w == Week(d)
           q == request[s]
<1>0. w \in Weeks /\ raced \subseteq raced'
  BY WeekType, StepRaced
<1>1. Stamps(d) \in Nat
  BY StampsAfter
<1>2. /\ d \in Stamped(w) => Stamps(d) >= 1
      /\ w \notin raced => Stamps(d) = (IF d \in Stamped(w) THEN 1 ELSE 0)
  BY DEF StampAnswered
<1> SUFFICES /\ d \in Stamped(w)' => Stamps(d)' >= 1
             /\ w \notin raced' => Stamps(d)' = (IF d \in Stamped(w)' THEN 1 ELSE 0)
  BY DEF StampAnswered
<1>3. CASE Enter(s)
  <2>1. Stamps(d)' = Stamps(d) + (IF q.date = d THEN 1 ELSE 0)
    BY <1>3, StampsAfter
  <2>2. raced' = raced
    BY <1>3 DEF Enter, history
  <2>3. CASE q.date = d
    <3>1. q.week = w /\ (Alone(w) => Fills(s, w))
      BY <1>3, <2>3, EnterFills
    <3>2. ASSUME w \notin raced' PROVE d \in Stamped(w)' /\ d \notin Stamped(w)
      <4>1. Fills(s, w)
        BY <1>0, <2>2, <3>1, <3>2 DEF AloneInv
      <4>2. Stamped(w)' = Stamped(w) \cup {q.date}
        BY <1>0, <4>1, StampedAfter
      <4> QED BY <2>3, <4>1, <4>2 DEF Fills
    <3> HIDE DEF w, q
    <3> QED BY <1>1, <1>2, <2>1, <2>2, <2>3, <3>2
  <2>4. CASE q.date # d
    <3>1. d \in Stamped(w)' <=> d \in Stamped(w)
      BY <1>0, <2>4, StampedAfter
    <3> HIDE DEF w, q
    <3> QED BY <1>1, <1>2, <2>1, <2>2, <2>4, <3>1
  <2> QED BY <2>3, <2>4
<1>4. CASE ~Enter(s)
  <2>1. Stamped(w)' = Stamped(w)
    BY <1>0, <1>4, StampedAfter
  <2>2. Stamps(d)' = Stamps(d) \/ (Stamps(d) > 1 /\ Stamps(d)' >= 1)
    BY <1>4, StampsAfter
  <2>3. w \notin raced' => w \notin raced
    BY <1>0
  <2> HIDE DEF w, q
  <2>4. d \in Stamped(w)' => Stamps(d)' >= 1
    BY <1>2, <2>1, <2>2
  <2>5. ASSUME w \notin raced' PROVE Stamps(d)' = (IF d \in Stamped(w)' THEN 1 ELSE 0)
    <3>1. Stamps(d) = IF d \in Stamped(w) THEN 1 ELSE 0
      BY <1>2, <2>3, <2>5
    <3> QED BY <2>1, <2>2, <3>1
  <2> QED BY <2>4, <2>5
<1> QED BY <1>3, <1>4

LEMMA StampInvariant == Spec => [](\A d \in Days : StampAnswered(d))
<1> DEFINE I == \A d \in Days : StampAnswered(d)
<1>1. Init => I
  <2> SUFFICES ASSUME Init, NEW d \in Days PROVE StampAnswered(d)
    OBVIOUS
  <2>1. Cardinality(Paying("payStamp", d)) = 0
    BY InitPaying DEF NothingPaying
  <2>2. ledger.stamp[d] = 0 /\ Missed("stamp", d) = 0
    BY DEF Init, Nothing, Missed
  <2>3. d \notin Stamped(Week(d))
    <3>1. Week(d) \in Weeks
      BY WeekType
    <3>2. Used(Week(d)) = {}
      BY <3>1 DEF Init, Used, NoCard
    <3> QED BY <3>2 DEF Stamped
  <2> QED BY <2>1, <2>2, <2>3 DEF Stamps, StampAnswered
<1>2. ShapeInv /\ AloneInv /\ I /\ [Next]_vars => I'
  <2> SUFFICES ASSUME ShapeInv, AloneInv, I, [Next]_vars, NEW d \in Days PROVE StampAnswered(d)'
    OBVIOUS
  <2>0. Shape /\ StampAnswered(d)
    BY DEF ShapeInv
  <2>1. ASSUME NEW s \in Sessions, Step(s) PROVE StampAnswered(d)'
    BY <2>0, <2>1, StampStep
  <2>s. ASSUME ledger' = ledger, lost' = lost, card' = card, raced' = raced,
               Cardinality(Paying("payStamp", d)') = Cardinality(Paying("payStamp", d))
        PROVE  StampAnswered(d)'
    <3>1. Stamps(d)' = Stamps(d)
      BY <2>s DEF Stamps, Missed
    <3>2. Stamped(Week(d))' = Stamped(Week(d))
      BY <2>s DEF Stamped, Used
    <3> QED BY <2>0, <2>s, <3>1, <3>2 DEF StampAnswered
  <2>2. ASSUME NEW s \in Sessions, NEW c \in Calls, Ask(s, c) PROVE StampAnswered(d)'
    <3>1. Cardinality(Paying("payStamp", d)') = Cardinality(Paying("payStamp", d))
      BY <2>0, <2>2, PayingAsk
    <3>2. ledger' = ledger /\ lost' = lost /\ card' = card /\ raced' = raced
      BY <2>2 DEF Ask, history
    <3> QED BY <2>s, <3>1, <3>2
  <2>3. CASE NextDay \/ UNCHANGED vars
    <3>1. ledger' = ledger /\ lost' = lost /\ card' = card /\ raced' = raced /\ request' = request
      BY <2>3 DEF NextDay, vars, history
    <3>2. Paying("payStamp", d)' = Paying("payStamp", d)
      BY <3>1, PayingSame
    <3> QED BY <2>s, <3>1, <3>2
  <2> QED BY <2>1, <2>2, <2>3 DEF Next
<1> QED BY <1>1, <1>2, ShapeInvariant, AloneInvariant, PTL DEF Spec

(* stampToday, which does not learn whether its entry went in, still gives *)
(* every stamp its points, and gives them once where no two requests were  *)
(* at the card together.                                                   *)
THEOREM StampPaidSafe == Spec => []StampPaid
<1>1. (\A d \in Days : StampAnswered(d)) => StampPaid
  BY DEF StampAnswered, StampPaid, Stamps
<1> QED BY <1>1, StampInvariant, PTL

-----------------------------------------------------------------------------
(* Last week's card. A card nobody opened is empty, and a request that     *)
(* enters has opened it.                                                   *)
OpenInv == /\ \A w \in Weeks : card[w].status = "none" => Used(w) = {}
           /\ \A s \in Sessions : request[s].at = "enter" => card[request[s].week].status # "none"

LEMMA OpenStep ==
  ASSUME ShapeInv, NEW s \in Sessions, Step(s), OpenInv
  PROVE  OpenInv'
<1>0. Shape /\ Only(s) /\ CardsAfter(s)
  BY StepDay, OwnPlaced, StepCards DEF ShapeInv
<1>1. \A t \in Sessions : request[t].at = "enter" => request[t].week \in Weeks
  BY WeekType DEF ShapeInv, Placed
<1>2. ASSUME NEW w \in Weeks, card'[w].status = "none" PROVE Used(w)' = {}
  <2>1. card[w].status = "none"
    BY <1>0, <1>2, StatusStep
  <2>2. Used(w) = {} /\ ~Fills(s, w)
    BY <2>1 DEF OpenInv, Fills
  <2>3. card'[w].days = card[w].days
    BY <1>0, <2>2 DEF CardsAfter, Opens, Exchanges
  <2> QED BY <2>2, <2>3, SameDays
<1>3. ASSUME NEW t \in Sessions \ {s}, request'[t].at = "enter"
      PROVE  card'[request'[t].week].status # "none"
  <2>1. request'[t] = request[t]
    BY <1>0 DEF Only
  <2>2. PICK w \in Weeks : w = request[t].week
    BY <1>1, <1>3, <2>1
  <2>3. card'[w].status # "none"
    BY <1>0, <1>3, <2>1, <2>2, StatusStep DEF OpenInv
  <2> QED BY <2>1, <2>2, <2>3
<1>4. ASSUME request'[s].at = "enter" PROVE card'[request'[s].week].status # "none"
  <2>1. Look(s)
    <3>1. CASE Claim(s) \/ AlreadyClaimed(s) \/ PayLogin(s)
      <4>1. request'[s] = Idle \/ request'[s].at \in {"payLogin", "card"}
        BY <1>0, <3>1, ClaimMoves, AlreadyClaimedMoves, PayLoginMoves
      <4> QED BY <1>4, <4>1 DEF Idle
    <3>2. CASE Enter(s) \/ PayStamp(s) \/ PayStampFails(s)
      <4>1. request'[s] = Idle \/ request'[s].at \in {"payStamp", "lookBack"}
        BY <1>0, <3>2, EnterMoves, StampMoves DEF PayStamp, PayStampFails
      <4> QED BY <1>4, <4>1 DEF Idle
    <3>3. CASE Redeemed(s) \/ LookBack(s)
      <4>1. request[s].at = "card" => Week(request[s].date) \in Weeks
        BY WeekType DEF ShapeInv, Placed
      <4>2. (\E w \in Weeks : Count(s, w)) \/ End(s)
        BY <3>3, <4>1 DEF Redeemed, LookBack
      <4> QED BY <1>0, <1>4, <4>2, CountMoves, EndMoves DEF Idle
    <3>4. CASE Redeem(s) \/ PayCard(s) \/ CutOff(s)
      <4>1. request'[s] = Idle \/ request'[s].at = "payCard"
        BY <1>0, <3>4, GoMoves, EndMoves DEF Redeem, PayCard, CutOff
      <4> QED BY <1>4, <4>1 DEF Idle
    <3> QED BY <3>1, <3>2, <3>3, <3>4 DEF Step
  <2>2. request[s].date \in Days /\ Week(request[s].date) \in Weeks
    BY <2>1, WeekType DEF ShapeInv, Placed, Look
  <2>3. request'[s].week = Week(request[s].date)
    BY <1>0, <1>4, <2>1, <2>2, LookMoves DEF Idle
  <2>4. card' = Opened(Week(request[s].date))
    BY <2>1 DEF Look
  <2> QED BY <1>0, <2>2, <2>3, <2>4 DEF Opened, Shape, Card
<1> QED BY <1>2, <1>3, <1>4 DEF OpenInv

LEMMA OpenSame ==
  ASSUME OpenInv, card' = card, \A s \in Sessions : request'[s] = request[s] \/ request'[s].at # "enter"
  PROVE  OpenInv'
BY SameDays DEF OpenInv

(* The card of a week that is over, and looked at to the end, is exchanged *)
(* or empty, and then nobody is at it or on the way to it.                 *)
Settled(w) == w + 1 \in seen /\ w \notin raced /\ card[w].status # "redeemed"
                 => Used(w) = {} /\ At(w) = {} /\ Coming(w) = {}

SettledInv == /\ OpenInv
              /\ \A v \in seen : v <= Week(day)
              /\ \A w \in Weeks : Settled(w)

(* Who comes after a week is settled comes in a later one.                 *)
LEMMA ComingAfter ==
  ASSUME ShapeInv, NEW s \in Sessions, Step(s), NEW w \in Weeks
  PROVE  \A t \in Coming(w)' : t \in Coming(w) \/ w = Week(day)
<1>0. Shape /\ Only(s) /\ Placed(request[s])
  BY StepDay, OwnPlaced DEF ShapeInv
<1>1. ASSUME NEW t \in Coming(w)', t # s PROVE t \in Coming(w)
  BY <1>0, <1>1 DEF Coming, Only
<1>2. ASSUME s \in Coming(w)' PROVE w = Week(day)
  <2>1. request'[s].at = "card" /\ Week(request'[s].date) = w
    BY <1>2 DEF Coming
  <2>2. request'[s].date = day
    <3>1. CASE Claim(s)
      BY <1>0, <2>1, <3>1, ClaimMoves
    <3>2. CASE AlreadyClaimed(s) \/ PayLogin(s)
      BY <1>0, <2>1, <3>2, AlreadyClaimedMoves, PayLoginMoves DEF Idle
    <3>3. CASE Look(s)
      <4>1. request[s].date \in Days
        BY <1>0, <3>3 DEF Look, Placed
      <4> QED BY <1>0, <2>1, <3>3, <4>1, LookMoves DEF Idle
    <3>4. CASE Enter(s) \/ PayStamp(s) \/ PayStampFails(s)
      BY <1>0, <2>1, <3>4, EnterMoves, StampMoves DEF PayStamp, PayStampFails, Idle
    <3>5. CASE Redeemed(s) \/ LookBack(s)
      <4>1. request[s].at = "card" => Week(request[s].date) \in Weeks
        BY WeekType DEF ShapeInv, Placed
      <4>2. (\E v \in Weeks : Count(s, v)) \/ End(s)
        BY <3>5, <4>1 DEF Redeemed, LookBack
      <4> QED BY <1>0, <2>1, <4>2, CountMoves, EndMoves DEF Idle
    <3>6. CASE Redeem(s) \/ PayCard(s) \/ CutOff(s)
      BY <1>0, <2>1, <3>6, GoMoves, EndMoves DEF Redeem, PayCard, CutOff, Idle
    <3> QED BY <3>1, <3>2, <3>3, <3>4, <3>5, <3>6 DEF Step
  <2> QED BY <2>1, <2>2
<1> QED BY <1>1, <1>2

LEMMA SettledStep ==
  ASSUME ShapeInv, SettledInv, NEW s \in Sessions, Step(s), NEW w \in Weeks
  PROVE  Settled(w)'
<1> DEFINE q == request[s]
<1>0. /\ Shape /\ Placed(q) /\ Only(s) /\ CardsAfter(s) /\ Placed(q) /\ Settled(w) /\ OpenInv
      /\ day \in Days /\ w \in Nat
  BY StepDay, OwnPlaced, StepCards, WeeksNat DEF ShapeInv, SettledInv, Shape
<1> SUFFICES ASSUME w + 1 \in seen', w \notin raced', card'[w].status # "redeemed"
             PROVE  Used(w)' = {} /\ At(w)' = {} /\ Coming(w)' = {}
  BY DEF Settled
<1>1. card[w].status # "redeemed" /\ w \notin raced /\ (s \notin At(w)' \/ Joins(s, w))
  BY <1>0, StatusStep, StepAt
<1>2. At(w)' \subseteq At(w) \cup {s} /\ \A t \in At(w)' \ {s} : t \in At(w)
  BY <1>0, AtAfter
<1>3. CASE w + 1 \in seen
  <2>1. Used(w) = {} /\ At(w) = {} /\ Coming(w) = {}
    BY <1>0, <1>1, <1>3 DEF Settled
  <2>2. w # Week(day)
    <3>1. w + 1 <= Week(day) /\ Week(day) \in Nat
      BY <1>0, <1>3, WeekType DEF SettledInv
    <3> QED BY <1>0, <3>1
  <2>3. Coming(w)' = {}
    BY <2>1, <2>2, ComingAfter
  <2>4. At(w)' = {}
    BY <1>1, <1>2, <2>1 DEF Joins, Redeemable
  <2>5. Used(w)' = {}
    <3>1. ~Fills(s, w)
      BY <2>1 DEF Fills, At
    <3>2. card'[w].days = card[w].days
      BY <1>0, <3>1 DEF CardsAfter, Opens, Exchanges
    <3> QED BY <2>1, <3>2, SameDays
  <2> QED BY <2>3, <2>4, <2>5
<1>4. CASE w + 1 \notin seen
  <2>1. /\ LookBack(s) \/ Redeem(s)
        /\ q.at # "idle" /\ w + 1 = Week(q.date) /\ Through(s)
    <3>1. /\ LookBack(s) \/ Redeem(s)
          /\ q.at # "idle" /\ w + 1 = Week(q.date)
      BY <1>4, StepSeen
    <3>2. seen' # seen
      BY <1>4
    <3>3. LookBack(s) => Through(s)
      BY <3>2 DEF LookBack
    <3>4. Redeem(s) => Through(s)
      BY DEF Redeem
    <3> QED BY <3>1, <3>3, <3>4
  <2>2. q.call = "loginStamp" /\ PreviousWeek(q.date) = w /\ seen' # seen
    <3>1. Week(q.date) \in Nat
      BY <1>0, <2>1, WeekType DEF Placed
    <3>2. PreviousWeek(q.date) = w
      BY <1>0, <2>1, <3>1 DEF PreviousWeek
    <3> QED BY <1>4, <2>1, <3>2 DEF Through
  <2>3. CASE LookBack(s)
    <3>1. ~Redeemable(w) /\ End(s) /\ Racing((At(w) \cup Coming(w)) \ {s}, w) /\ card' = card
      BY <2>2, <2>3 DEF LookBack
    <3>2. (At(w) \cup Coming(w)) \ {s} = {}
      BY <3>1 DEF Racing
    <3>3. request'[s] = Idle
      BY <1>0, <3>1, EndMoves
    <3>4. At(w)' = {} /\ Coming(w)' = {}
      BY <1>0, <3>2, <3>3 DEF At, Coming, Only, Idle
    <3>5. Used(w) = {}
      <4>1. card[w].status \in {"none", "collecting"}
        BY <1>0, <1>1 DEF Shape, Card
      <4> QED BY <1>0, <3>1, <4>1 DEF Redeemable, Collecting, OpenInv
    <3>6. Used(w)' = Used(w)
      BY <3>1 DEF Used
    <3> QED BY <3>4, <3>5, <3>6
  <2>4. CASE Redeem(s)
    <3>1. q.at = "redeem" /\ q.week = w /\ card[w].status # "none"
      BY <1>0, <2>2, <2>4 DEF Redeem, Placed
    <3>2. Collecting(w)
      BY <1>0, <1>1, <3>1 DEF Collecting, Shape, Card
    <3>3. card'[w].status = "redeemed"
      BY <1>0, <2>4, <3>1, <3>2 DEF Redeem, Shape, Card
    <3> QED BY <3>3
  <2> QED BY <2>1, <2>3, <2>4
<1> QED BY <1>3, <1>4

LEMMA SeenStep ==
  ASSUME ShapeInv, NEW s \in Sessions, Step(s), \A v \in seen : v <= Week(day)
  PROVE  \A v \in seen' : v <= Week(day)'
<1>1. day' = day
  BY StepDay
<1>2. Week(day)' = Week(day)
  BY <1>1 DEF Week
<1>3. request[s].at # "idle" => Week(request[s].date) <= Week(day)
  BY WeekMonotone DEF ShapeInv, Placed, Shape
<1> QED BY <1>2, <1>3, StepSeen

LEMMA SettledSame ==
  ASSUME NEW w, Settled(w), card' = card, seen' = seen, raced' = raced,
         At(w)' \subseteq At(w), w + 1 \in seen => Coming(w)' \subseteq Coming(w)
  PROVE  Settled(w)'
BY SameDays DEF Settled

LEMMA SettledInvariant == Spec => []SettledInv
<1>1. Init => SettledInv
  <2> SUFFICES ASSUME Init PROVE SettledInv
    OBVIOUS
  <2>1. OpenInv
    BY DEF Init, OpenInv, NoCard, Used, Idle
  <2>2. seen = {}
    BY DEF Init
  <2> QED BY <2>1, <2>2 DEF SettledInv, Settled
<1>2. ShapeInv /\ SettledInv /\ [Next]_vars => SettledInv'
  <2> SUFFICES ASSUME ShapeInv, SettledInv, [Next]_vars PROVE SettledInv'
    OBVIOUS
  <2>0. /\ Shape /\ OpenInv /\ day \in Days
        /\ \A v \in seen : v <= Week(day)
        /\ \A w \in Weeks : Settled(w)
    BY DEF ShapeInv, SettledInv, Shape
  <2>1. ASSUME NEW s \in Sessions, Step(s) PROVE SettledInv'
    <3>1. OpenInv'
      BY <2>0, <2>1, OpenStep
    <3>2. \A v \in seen' : v <= Week(day)'
      BY <2>0, <2>1, SeenStep
    <3>3. \A w \in Weeks : Settled(w)'
      BY <2>1, SettledStep
    <3> QED BY <3>1, <3>2, <3>3 DEF SettledInv
  <2>2. ASSUME NEW s \in Sessions, NEW c \in Calls, Ask(s, c) PROVE SettledInv'
    <3>0. card' = card /\ seen' = seen /\ raced' = raced /\ day' = day
      BY <2>2 DEF Ask, history
    <3>1. Only(s) /\ request'[s].at \in {"claim", "card"} /\ request'[s].date = day
      BY <2>0, <2>2, AskMoves
    <3>2. OpenInv'
      BY <2>0, <3>0, <3>1, OpenSame DEF Only
    <3>3. ASSUME NEW w \in Weeks PROVE Settled(w)'
      <4>1. At(w)' \subseteq At(w)
        BY <3>1 DEF At, Only
      <4>2. ASSUME w + 1 \in seen PROVE Coming(w)' \subseteq Coming(w)
        <5>1. w + 1 <= Week(day) /\ w \in Nat /\ Week(day) \in Nat
          BY <2>0, <4>2, WeekType, WeeksNat
        <5>2. w # Week(day)
          BY <5>1
        <5> QED BY <3>1, <5>2 DEF Coming, Only
      <4> QED BY <2>0, <3>0, <4>1, <4>2, SettledSame
    <3>4. Week(day)' = Week(day)
      BY <3>0 DEF Week
    <3> QED BY <2>0, <3>0, <3>2, <3>3, <3>4 DEF SettledInv
  <2>3. CASE NextDay \/ UNCHANGED vars
    <3>0. card' = card /\ seen' = seen /\ raced' = raced /\ request' = request
      BY <2>3 DEF NextDay, vars, history
    <3>1. day' = day \/ (day' = day + 1 /\ day < LastDay)
      BY <2>3 DEF NextDay, vars
    <3>2. OpenInv'
      BY <2>0, <3>0, OpenSame
    <3>3. ASSUME NEW w \in Weeks PROVE Settled(w)'
      <4>1. At(w)' = At(w) /\ Coming(w)' = Coming(w)
        BY <3>0 DEF At, Coming
      <4> QED BY <2>0, <3>0, <4>1, SettledSame
    <3>4. \A v \in seen : v <= Week(day')
      <4>1. day' \in Days /\ day <= day'
        BY <2>0, <3>1 DEF Days
      <4>2. Week(day) <= Week(day') /\ Week(day) \in Nat /\ Week(day') \in Nat
        BY <2>0, <4>1, WeekMonotone, WeekType
      <4>3. seen \subseteq Int
        BY <2>0 DEF Shape
      <4> QED BY <2>0, <4>2, <4>3
    <3>5. Week(day)' = Week(day')
      BY DEF Week
    <3> QED BY <3>0, <3>2, <3>3, <3>4, <3>5 DEF SettledInv
  <2> QED BY <2>1, <2>2, <2>3 DEF Next
<1> QED BY <1>1, <1>2, ShapeInvariant, PTL DEF Spec

(* autoRedeemPreviousWeek leaves no card with stamps behind once the first *)
(* login of the next week is through, unless requests met at that card.    *)
THEOREM LastWeekIsSettled == Spec => []LastWeekSettled
<1>1. SettledInv => LastWeekSettled
  <2> SUFFICES ASSUME SettledInv, NEW w \in Weeks, w + 1 \in seen, w \notin raced PROVE ~Redeemable(w)
    BY DEF LastWeekSettled
  <2>1. Settled(w)
    BY DEF SettledInv
  <2> QED BY <2>1 DEF Settled, Redeemable, Collecting
<1> QED BY <1>1, SettledInvariant, PTL

=============================================================================
