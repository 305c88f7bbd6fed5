-------------------------- MODULE RecordBonusProofs --------------------------
(***************************************************************************)
(* The bonuses that follow a record are paid, all of them and no more, for *)
(* any number of activities, categories, missions and requests.            *)
(*                                                                         *)
(* That all is paid needs somebody who sees it all: of the requests that   *)
(* are between a mark and its posting, the last to mark counts every       *)
(* mission, whatever the others counted (MissionOwed), and in the same way *)
(* one that has not yet looked, or saw no less, stands for the combos and  *)
(* for the focus bonus (ComboOwed, FocusOwed).  That no more is paid holds *)
(* where no two requests were in the middle of the same bonus; for the     *)
(* missions that means one completion at a time (CompletionAlone).         *)
(***************************************************************************)
EXTENDS RecordBonus, SumTheorems

Following  == {"combo", "payCombo", "mission", "mark", "count", "payMission", "focus", "payFocus"}
Completing == {"mark", "count", "payMission"}

\* A request that follows a record names its activity.
ActNamed == \A s \in Sessions : request[s].at \in Following => request[s].act \in Activities

----------------------------------------------------------------------------
\* The table of combos grows with the activities.

PerKind(acts) == [k \in Kinds(acts) |-> CategoryBonus(Cardinality(OfKind(acts, k)))]

KindSums(acts, g) ==
    g = [s \in SUBSET Kinds(acts) |->
            IF s = {} THEN 0
            ELSE CategoryBonus(Cardinality(OfKind(acts, First(s)))) + g[s \ {First(s)}]]

\* The sum in the model is the recursion over the kinds of activities.
LEMMA PerCategoryUnfolded ==
  ASSUME NEW acts
  PROVE  PerCategory(acts) = (CHOOSE g : KindSums(acts, g))[Kinds(acts)]
BY Zenon DEF PerCategory, MapThenSumSet, MapThenFoldSet, KindSums, First

\* So it is the sum of the amounts by kind.
LEMMA PerCategoryIsSum ==
  ASSUME NEW acts, IsFiniteSet(Kinds(acts))
  PROVE  PerCategory(acts) = SumOf(PerKind(acts), Kinds(acts))
<1> DEFINE T == Kinds(acts)
           g == CHOOSE gg : KindSums(acts, gg)
           h == CHOOSE gg : Sums(PerKind(acts), T, gg)
<1>1. ASSUME NEW gg PROVE KindSums(acts, gg) <=> Sums(PerKind(acts), T, gg)
  <2> DEFINE F == [s \in SUBSET T |-> IF s = {} THEN 0 ELSE PerKind(acts)[First(s)] + gg[s \ {First(s)}]]
             G == [s \in SUBSET T |->
                     IF s = {} THEN 0
                     ELSE CategoryBonus(Cardinality(OfKind(acts, First(s)))) + gg[s \ {First(s)}]]
  <2>1. \A s \in SUBSET T : s # {} =>
           PerKind(acts)[First(s)] = CategoryBonus(Cardinality(OfKind(acts, First(s))))
    BY FirstIn DEF PerKind
  <2>2. F = G
    BY <2>1
  <2> QED BY <2>2 DEF KindSums, Sums
<1>2. Sums(PerKind(acts), T, h)
  BY SumsExist
<1>3. Sums(PerKind(acts), T, g)
  BY <1>1, <1>2
<1>4. SumOf(PerKind(acts), T) = h[T] /\ T \in SUBSET T /\ PerCategory(acts) = g[T]
  BY PerCategoryUnfolded DEF SumOf
<1> HIDE DEF g, h, T
<1>5. g[T] = h[T]
  <2>1. \A V \in SUBSET T : (\A x \in V : PerKind(acts)[x] = PerKind(acts)[x]) => g[V] = h[V]
    BY <1>2, <1>3, SumsUnique DEF T
  <2> QED BY <1>4, <2>1
<1> QED BY <1>4, <1>5 DEF T

\* Activities, their kinds and those of one kind can be counted.
LEMMA KindsFinite ==
  ASSUME NEW acts \in SUBSET Activities
  PROVE  /\ IsFiniteSet(acts) /\ Cardinality(acts) \in Nat
         /\ IsFiniteSet(Kinds(acts)) /\ Cardinality(Kinds(acts)) \in Nat
         /\ \A k : IsFiniteSet(OfKind(acts, k)) /\ Cardinality(OfKind(acts, k)) \in Nat
<1>1. IsFiniteSet(acts)
  BY RecordBonusAssumption, FS_Subset
<1>2. IsFiniteSet(Kinds(acts))
  <2> DEFINE f == [a \in acts |-> Category[a]]
  <2>1. f \in Surjection(acts, Kinds(acts))
    BY DEF Surjection, Kinds
  <2> HIDE DEF f
  <2> QED BY <1>1, <2>1, FS_Surjection
<1>3. ASSUME NEW k PROVE IsFiniteSet(OfKind(acts, k))
  BY <1>1, FS_Subset DEF OfKind
<1> QED BY <1>1, <1>2, <1>3, FS_CardinalityType

\* The tables hold natural numbers, grow, and give something from two on.
LEMMA BonusTables ==
  ASSUME NEW n \in Nat
  PROVE  /\ CategoryBonus(n) \in Nat /\ CrossBonus(n) \in Nat /\ MissionBonus(n) \in {0, 5, 20}
         /\ \A m \in Nat : n <= m => CategoryBonus(n) <= CategoryBonus(m) /\ CrossBonus(n) <= CrossBonus(m)
         /\ n >= 2 => CategoryBonus(n) > 0 /\ CrossBonus(n) > 0
BY DEF CategoryBonus, CrossBonus, MissionBonus

\* Two activities make a combo of their category or across categories.
LEMMA NoMini == ASSUME NEW acts \in SUBSET Activities PROVE Mini(acts) = 0
<1>0. /\ IsFiniteSet(acts) /\ Cardinality(acts) \in Nat
      /\ IsFiniteSet(Kinds(acts)) /\ Cardinality(Kinds(acts)) \in Nat
  BY KindsFinite
<1>1. ASSUME Cardinality(acts) >= 2, PerCategory(acts) = 0, Cross(acts) = 0 PROVE FALSE
  <2>1. ~ Cardinality(Kinds(acts)) >= 2
    BY <1>0, <1>1, BonusTables DEF Cross
  <2>2. PICK a \in acts : TRUE
    BY <1>1, FS_EmptySet
  <2> DEFINE k == Category[a]
  <2>3. k \in Kinds(acts)
    BY DEF Kinds
  <2>4. Kinds(acts) = {k}
    <3>1. ASSUME NEW j \in Kinds(acts), j # k PROVE FALSE
      <4>1. Cardinality({k}) = 1 /\ IsFiniteSet({k})
        BY FS_Singleton
      <4>2. Cardinality({k} \cup {j}) = 2 /\ IsFiniteSet({k} \cup {j})
        BY <3>1, <4>1, FS_AddElement
      <4>3. {k} \cup {j} \in SUBSET Kinds(acts)
        BY <2>3, <3>1
      <4>4. Cardinality({k} \cup {j}) <= Cardinality(Kinds(acts))
        BY <1>0, <4>3, FS_Subset
      <4> QED BY <1>0, <2>1, <4>2, <4>4
    <3> QED BY <2>3, <3>1
  <2>5. OfKind(acts, k) = acts
    BY <2>4 DEF OfKind, Kinds
  <2> HIDE DEF k
  <2>6. PerKind(acts)[k] = CategoryBonus(Cardinality(acts)) /\ PerKind(acts)[k] \in Int
    BY <1>0, <2>4, <2>5, BonusTables DEF PerKind
  <2>7. SumOf(PerKind(acts), {} \cup {k}) = SumOf(PerKind(acts), {}) + PerKind(acts)[k]
    BY <2>6, FS_EmptySet, SumOfAdds
  <2>8. {} \cup {k} = {k} /\ SumOf(PerKind(acts), {}) = 0
    BY SumOfEmpty
  <2>9. PerCategory(acts) = CategoryBonus(Cardinality(acts))
    BY <1>0, <2>4, <2>6, <2>7, <2>8, PerCategoryIsSum
  <2> QED BY <1>0, <1>1, <2>9, BonusTables
<1> QED BY <1>1 DEF Mini

\* More activities bring no less by kind.
LEMMA PerCategoryGrows ==
  ASSUME NEW B \in SUBSET Activities, NEW A \in SUBSET B
  PROVE  PerCategory(A) \in Nat /\ PerCategory(A) <= PerCategory(B)
<1>1. A \in SUBSET Activities
  OBVIOUS
<1>2. ASSUME NEW acts \in SUBSET Activities
      PROVE  \A k \in Kinds(acts) : PerKind(acts)[k] \in Nat
  BY KindsFinite, BonusTables DEF PerKind
<1>3. Kinds(A) \in SUBSET Kinds(B)
  BY DEF Kinds
<1>4. ASSUME NEW k \in Kinds(A) PROVE PerKind(A)[k] <= PerKind(B)[k]
  <2>1. OfKind(A, k) \in SUBSET OfKind(B, k) /\ k \in Kinds(B)
    BY <1>3 DEF OfKind
  <2>2. IsFiniteSet(OfKind(B, k)) /\ Cardinality(OfKind(B, k)) \in Nat /\ Cardinality(OfKind(A, k)) \in Nat
    BY <1>1, KindsFinite
  <2>3. Cardinality(OfKind(A, k)) <= Cardinality(OfKind(B, k))
    BY <2>1, <2>2, FS_Subset
  <2> QED BY <2>1, <2>2, <2>3, BonusTables DEF PerKind
<1>5. IsFiniteSet(Kinds(A)) /\ IsFiniteSet(Kinds(B))
  BY <1>1, KindsFinite
<1>6. PerCategory(A) = SumOf(PerKind(A), Kinds(A)) /\ PerCategory(B) = SumOf(PerKind(B), Kinds(B))
  BY <1>5, PerCategoryIsSum
<1>7. (\A k \in Kinds(A) : PerKind(A)[k] \in Int /\ PerKind(A)[k] <= PerKind(B)[k])
        /\ (\A k \in Kinds(B) : PerKind(B)[k] \in Nat) /\ (\A k \in Kinds(A) : PerKind(A)[k] \in Nat)
  BY <1>1, <1>2, <1>4
<1>8. SumOf(PerKind(A), Kinds(A)) <= SumOf(PerKind(B), Kinds(B))
  BY <1>3, <1>5, <1>7, SumOfGrows
<1>9. SumOf(PerKind(A), Kinds(A)) \in Int
  BY <1>5, <1>7, SumOfIsInt
<1>10. SumOf(PerKind(A), {}) <= SumOf(PerKind(A), Kinds(A))
  BY <1>5, <1>7, SumOfGrows
<1> QED BY <1>6, <1>8, <1>9, <1>10, SumOfEmpty

\* What a day is worth is a number and grows with the activities.
LEMMA DesiredGrows ==
  ASSUME NEW B \in SUBSET Activities, NEW A \in SUBSET B
  PROVE  Desired[A] \in Nat /\ Desired[A] <= Desired[B]
<1>1. A \in SUBSET Activities
  OBVIOUS
<1>2. PerCategory(A) \in Nat /\ PerCategory(B) \in Nat /\ PerCategory(A) <= PerCategory(B)
  <2>1. B \in SUBSET B OBVIOUS
  <2> QED BY <2>1, PerCategoryGrows
<1>3. Cross(A) \in Nat /\ Cross(B) \in Nat /\ Cross(A) <= Cross(B)
  <2>1. Kinds(A) \in SUBSET Kinds(B)
    BY DEF Kinds
  <2>2. IsFiniteSet(Kinds(B)) /\ Cardinality(Kinds(B)) \in Nat /\ Cardinality(Kinds(A)) \in Nat
    BY <1>1, KindsFinite
  <2>3. Cardinality(Kinds(A)) <= Cardinality(Kinds(B))
    BY <2>1, <2>2, FS_Subset
  <2> QED BY <2>2, <2>3, BonusTables DEF Cross
<1>4. Mini(A) = 0 /\ Mini(B) = 0
  BY <1>1, NoMini
<1> QED BY <1>1, <1>2, <1>3, <1>4 DEF Desired

----------------------------------------------------------------------------
\* The inductive invariant.

Count == Cardinality(Done)

\* The most that n completed missions bring.
Cap(n) == IF n >= 3 THEN 20 ELSE MissionBonus(n)

\* A request that posts a mission bonus posts that of the missions it counted: all of it, or
\* what completes an entry that is there.
MissionRequests == \A s \in Sessions : request[s].at = "payMission" =>
    /\ request[s].count <= Count
    /\ \/ request[s].kind = "base" /\ request[s].amount = MissionBonus(request[s].count)
                                   /\ request[s].amount > 0
       \/ request[s].kind = "extra" /\ request[s].amount = 15 /\ request[s].count = 3 /\ base[5] > 0

ExtraCompletes == extra > 0 => base[5] > 0

\* What the missions are worth is posted, or somebody who sees them all is about to.
MissionOwed == "mission" \notin short =>
    \/ MissionPosted >= MissionBonus(Count)
    \/ \E s \in Sessions : \/ request[s].at = "count"
                           \/ request[s].at = "payMission" /\ request[s].count = Count

\* Without a race one completion is under way at a time, and what it marks is news.
CompletionAlone ==
    /\ \A s, t \in Sessions : request[s].at \in Completing /\ request[t].at \in Completing => s = t
    /\ MissionPosted <= Cap(Count)
    /\ \A s \in Sessions :
          /\ request[s].at = "mark" => mission[request[s].act] = "open"
          /\ request[s].at = "count" => Count >= 1 /\ MissionPosted <= Cap(Count - 1)
          /\ request[s].at = "payMission" => MissionPosted + request[s].amount <= Cap(Count)

OneCompletion == "mission" \notin raced => CompletionAlone

MissionInv == MissionRequests /\ ExtraCompletes /\ MissionOwed /\ OneCompletion

\* What the records are worth is posted, or somebody who has seen as much is about to.
ComboOwed ==
    /\ \A s \in Sessions : request[s].at = "payCombo" => combo + request[s].amount >= request[s].count
    /\ "combo" \notin short =>
           \/ combo >= Desired[logs]
           \/ \E s \in Sessions : \/ request[s].at = "combo"
                                  \/ request[s].at = "payCombo" /\ request[s].count >= Desired[logs]

OneCombo == "combo" \notin raced =>
    /\ \A s, t \in Sessions : request[s].at = "payCombo" /\ request[t].at = "payCombo" => s = t
    /\ combo <= Desired[ever]
    /\ \A s \in Sessions : request[s].at = "payCombo" => combo + request[s].amount <= Desired[ever]

ComboInv == ComboOwed /\ OneCombo

\* The recommended activities are rewarded, or a request that follows a record is on its way.
FocusOwed == Recommended # {} /\ Recommended \subseteq logs /\ "focus" \notin short =>
    focus >= 1 \/ \E s \in Sessions : request[s].at \in Following

OneFocus == "focus" \notin raced =>
    /\ \A s, t \in Sessions : request[s].at = "payFocus" /\ request[t].at = "payFocus" => s = t
    /\ focus <= 1
    /\ \A s \in Sessions : request[s].at = "payFocus" => focus = 0

FocusInv == FocusOwed /\ OneFocus

----------------------------------------------------------------------------
\* The initial state.
LEMMA InitHolds == Init => TypeOK /\ ActNamed /\ MissionInv /\ ComboInv /\ FocusInv
<1> SUFFICES ASSUME Init PROVE TypeOK /\ ActNamed /\ MissionInv /\ ComboInv /\ FocusInv
  OBVIOUS
<1> USE DEF Init, Idle
<1>1. TypeOK /\ ActNamed
  BY DEF TypeOK, ActNamed, Parts, Following
<1>2. Done = {} /\ Count = 0
  BY FS_EmptySet DEF Done, Count
<1>3. MissionPosted = 0 /\ MissionBonus(0) = 0 /\ Cap(0) = 0
  BY DEF MissionPosted, MissionBonus, Cap
<1>4. MissionInv
  BY <1>2, <1>3 DEF MissionInv, MissionRequests, ExtraCompletes, MissionOwed, OneCompletion,
      CompletionAlone, Completing
<1>5. Desired[{}] = 0
  <2>1. {} \in SUBSET Activities /\ Kinds({}) = {} /\ Cardinality({}) = 0
    BY FS_EmptySet DEF Kinds
  <2>2. PerCategory({}) = 0
    BY <2>1, FS_EmptySet, PerCategoryIsSum, SumOfEmpty
  <2>3. Cross({}) = 0 /\ Mini({}) = 0
    BY <2>1 DEF Cross, CrossBonus, Mini
  <2> QED BY <2>1, <2>2, <2>3 DEF Desired
<1>6. ComboInv
  BY <1>5 DEF ComboInv, ComboOwed, OneCombo
<1>7. FocusInv
  BY DEF FocusInv, FocusOwed, OneFocus
<1> QED BY <1>1, <1>4, <1>6, <1>7

\* What is missing of a sum, and a bonus, are natural numbers.
LEMMA MissingNat == ASSUME TypeOK, NEW w \in Nat PROVE Missing(w) \in Nat
BY DEF TypeOK, Missing

\* What fails is put on the list of what is short.
LEMMA OwingParts ==
  ASSUME TypeOK, NEW bonuses \in SUBSET Parts, Owing(bonuses)
  PROVE  short' \subseteq Parts /\ short \subseteq short'
           /\ \A b \in bonuses : b \notin short' => ~Unpaid(b)
BY DEF TypeOK, Owing

Requests ==
    [at : {"idle", "draw"} \cup Following, act : Activities \cup {"none"}, amount : Nat, count : Nat,
     kind : {"none", "base", "extra"}, todo : SUBSET Activities]

RequestsTyped == request \in [Sessions -> Requests] /\ ActNamed

RowsTyped ==
    /\ logs \subseteq ever /\ ever \subseteq Activities /\ back \subseteq ever
    /\ mission \in [Activities -> {"none", "open", "done"}]
    /\ base \in [{5, 20} -> Nat] /\ extra \in Nat /\ combo \in Nat /\ focus \in Nat
    /\ raced \subseteq Parts \cup {"draw"} /\ short \subseteq Parts

\* The types of the rows and those of the requests.
LEMMA TypeParts ==
  /\ TypeOK /\ ActNamed <=> RowsTyped /\ RequestsTyped
  /\ TypeOK' /\ ActNamed' <=> RowsTyped' /\ RequestsTyped'
<1>1. {"idle", "combo", "payCombo", "mission", "mark", "count", "payMission", "focus", "payFocus", "draw"}
        = {"idle", "draw"} \cup Following
  BY DEF Following
<1> QED BY <1>1 DEF TypeOK, RowsTyped, RequestsTyped, Requests

\* A request moves on.
LEMMA BecomeTyped ==
  ASSUME RequestsTyped, NEW s \in Sessions, NEW q \in Requests, Become(s, q),
         q.at \in Following => q.act \in Activities
  PROVE  RequestsTyped'
BY DEF RequestsTyped, ActNamed, Become

\* A request ends.
LEMMA EndTyped ==
  ASSUME RequestsTyped, NEW s \in Sessions, End(s)
  PROVE  RequestsTyped'
<1>1. Idle \in Requests /\ Idle.at \notin Following
  BY DEF Idle, Requests, Following
<1> QED BY <1>1, BecomeTyped DEF End

\* A request goes on to the next bonus.
LEMMA GoTyped ==
  ASSUME RequestsTyped, NEW s \in Sessions, request[s].at \in Following, NEW at \in Following,
         Go(s, at)
  PROVE  RequestsTyped'
<1> DEFINE q == [Idle EXCEPT !.at = at, !.act = request[s].act]
<1>1. q \in Requests /\ q.act \in Activities
  BY DEF Idle, Requests, RequestsTyped, ActNamed
<1> HIDE DEF q
<1> QED BY <1>1, BecomeTyped DEF Go, q

\* Nothing happens to the requests.
LEMMA RestsTyped == RequestsTyped /\ UNCHANGED request => RequestsTyped'
BY DEF RequestsTyped, ActNamed

\* The number of completed missions.
LEMMA CountNat ==
    ASSUME TypeOK
    PROVE  IsFiniteSet(Done) /\ Count \in Nat /\ MissionBonus(Count) \in {0, 5, 20}
<1>1. IsFiniteSet(Done)
  BY RecordBonusAssumption, FS_Subset DEF RecordBonusAssumption, Done
<1> QED BY <1>1, FS_CardinalityType, BonusTables DEF Count

\* Every step keeps the types, and a request its activity.
LEMMA TypeStep == TypeOK /\ ActNamed /\ [Next]_vars => TypeOK' /\ ActNamed'
<1> SUFFICES ASSUME TypeOK, ActNamed, [Next]_vars PROVE RowsTyped' /\ RequestsTyped'
  BY TypeParts
<1> USE DEF ledger, history
<1>0. RequestsTyped /\ RowsTyped
  BY TypeParts
<1>0a. \A s \in Sessions : /\ request[s] \in Requests
                           /\ request[s].at \in Following => request[s].act \in Activities
  BY <1>0 DEF RequestsTyped, ActNamed
<1>1. ASSUME NEW s \in Sessions, ComboLook(s) PROVE RowsTyped' /\ RequestsTyped'
  <2> DEFINE d == Desired[logs]
             m == Missing(d)
             q == [request[s] EXCEPT !.at = "payCombo", !.amount = m, !.count = d]
  <2>1. d \in Nat /\ m \in Nat
    <3>1. logs \in SUBSET Activities /\ logs \in SUBSET logs BY <1>0 DEF RowsTyped
    <3>2. d \in Nat BY <3>1, DesiredGrows
    <3> QED BY <3>2, MissingNat
  <2>2. /\ request[s].at = "combo"
        /\ raced' \in {raced, raced \cup {"combo"}}
        /\ Become(s, q) \/ Go(s, "mission")
        /\ short' \in {short, short \ {"combo"}}
        /\ UNCHANGED <<logs, mission, base, extra, combo, focus, back, ever>>
    BY <1>1 DEF ComboLook, Racing
  <2> HIDE DEF d, m
  <2>3. q \in Requests /\ (q.at \in Following => q.act \in Activities)
    BY <1>0a, <2>1, <2>2 DEF Requests, Following
  <2> HIDE DEF q
  <2>4. RequestsTyped'
    BY <1>0, <2>2, <2>3, BecomeTyped, GoTyped DEF Following
  <2> QED BY <1>0, <2>2, <2>4 DEF RowsTyped, Parts
<1>2. ASSUME NEW s \in Sessions, PayCombo(s) PROVE RowsTyped' /\ RequestsTyped'
  <2>1. combo' \in Nat /\ short' \subseteq short
    BY <1>0, <1>0a, <1>2 DEF PayCombo, RowsTyped, Requests
  <2>2. RequestsTyped'
    BY <1>0, <1>2, GoTyped DEF PayCombo, Following
  <2> QED BY <1>0, <1>2, <2>1, <2>2 DEF PayCombo, RowsTyped
<1>3. ASSUME NEW s \in Sessions, MissionLook(s) PROVE RowsTyped' /\ RequestsTyped'
  <2>1. raced' \in {raced, raced \cup {"mission"}}
    BY <1>3 DEF MissionLook, Racing
  <2>2. RequestsTyped'
    BY <1>0, <1>3, GoTyped DEF MissionLook, Following
  <2> QED BY <1>0, <1>3, <2>1, <2>2 DEF MissionLook, RowsTyped, Parts
<1>4. ASSUME NEW s \in Sessions, Mark(s) PROVE RowsTyped' /\ RequestsTyped'
  <2>1. RequestsTyped'
    BY <1>0, <1>4, GoTyped DEF Mark, Following
  <2> QED BY <1>0, <1>4, <2>1 DEF Mark, RowsTyped
<1>5. ASSUME NEW s \in Sessions, MissionCountUp(s) PROVE RowsTyped' /\ RequestsTyped'
  <2> DEFINE b == MissionBonus(Count)
  <2>1. Count \in Nat /\ b \in {0, 5, 20}
    BY CountNat
  <2>2. /\ request[s].at = "count"
        /\ UNCHANGED <<logs, mission, base, extra, combo, focus, back, ever, raced, short>>
        /\ \/ Go(s, "focus")
           \/ Owes(s, b, "base", Count)
           \/ \E e \in {5, 20} : e < b /\ Owes(s, b - e, "extra", Count)
    BY <1>5 DEF MissionCountUp, Rest, Count
  <2> HIDE DEF b
  <2>3. ASSUME NEW a \in Nat, NEW k \in {"base", "extra"}, Owes(s, a, k, Count) PROVE RequestsTyped'
    <3> DEFINE q == [request[s] EXCEPT !.at = "payMission", !.amount = a, !.kind = k, !.count = Count]
    <3>1. q \in Requests /\ (q.at \in Following => q.act \in Activities)
      BY <1>0a, <2>1, <2>2 DEF Requests, Following
    <3>2. Become(s, q)
      BY <2>3 DEF Owes
    <3> HIDE DEF q
    <3> QED BY <1>0, <3>1, <3>2, BecomeTyped
  <2>4. \A e \in {5, 20} : e < b => b - e \in Nat
    BY <2>1
  <2>5. b \in Nat
    BY <2>1
  <2>6. RequestsTyped'
    BY <1>0, <2>2, <2>3, <2>4, <2>5, GoTyped DEF Following
  <2> QED BY <1>0, <2>2, <2>6 DEF RowsTyped
<1>6. ASSUME NEW s \in Sessions, PayMission(s) PROVE RowsTyped' /\ RequestsTyped'
  <2>1. base' \in [{5, 20} -> Nat] /\ extra' \in Nat /\ short' \subseteq short
    BY <1>0, <1>0a, <1>6 DEF PayMission, RowsTyped, Requests
  <2>2. RequestsTyped'
    BY <1>0, <1>6, GoTyped DEF PayMission, Following
  <2> QED BY <1>0, <1>6, <2>1, <2>2 DEF PayMission, RowsTyped
<1>7. ASSUME NEW s \in Sessions, FocusLook(s) PROVE RowsTyped' /\ RequestsTyped'
  <2>1. raced' \in {raced, raced \cup {"focus"}}
    BY <1>7 DEF FocusLook, Racing
  <2>2. RequestsTyped'
    BY <1>0, <1>7, GoTyped, EndTyped DEF FocusLook, Following
  <2> QED BY <1>0, <1>7, <2>1, <2>2 DEF FocusLook, RowsTyped, Parts
<1>8. ASSUME NEW s \in Sessions, PayFocus(s) PROVE RowsTyped' /\ RequestsTyped'
  <2>1. RequestsTyped'
    BY <1>0, <1>8, EndTyped DEF PayFocus
  <2> QED BY <1>0, <1>8, <2>1 DEF PayFocus, RowsTyped
<1>9. ASSUME NEW s \in Sessions, Skip(s) PROVE RowsTyped' /\ RequestsTyped'
  <2>1. short' \subseteq Parts
    BY <1>0, <1>9, OwingParts DEF Skip, Parts, RowsTyped
  <2>2. RequestsTyped'
    BY <1>0, <1>9, GoTyped, EndTyped DEF Skip, Following
  <2> QED BY <1>0, <1>9, <2>1, <2>2 DEF Skip, RowsTyped
<1>10. ASSUME NEW s \in Sessions, CutOff(s) PROVE RowsTyped' /\ RequestsTyped'
  <2>1. short' \subseteq Parts
    BY <1>0, <1>10, OwingParts DEF CutOff, Parts, RowsTyped
  <2>2. RequestsTyped'
    BY <1>0, <1>10, EndTyped DEF CutOff
  <2> QED BY <1>0, <1>10, <2>1, <2>2 DEF CutOff, RowsTyped
<1>11. ASSUME NEW s \in Sessions, Load(s) PROVE RowsTyped' /\ RequestsTyped'
  <2>1. raced' \in {raced, raced \cup {"draw"}}
    BY <1>11 DEF Load, Racing
  <2>2. PICK acts \in SUBSET Activities : Become(s, [Idle EXCEPT !.at = "draw", !.todo = acts])
    BY <1>11 DEF Load, Draws
  <2>3. RequestsTyped'
    <3> DEFINE q == [Idle EXCEPT !.at = "draw", !.todo = acts]
    <3>1. q \in Requests /\ q.at \notin Following
      BY DEF Idle, Requests, Following
    <3> HIDE DEF q
    <3> QED BY <1>0, <2>2, <3>1, BecomeTyped DEF q
  <2> QED BY <1>0, <1>11, <2>1, <2>3 DEF Load, RowsTyped
<1>12. ASSUME NEW s \in Sessions, Insert(s) PROVE RowsTyped' /\ RequestsTyped'
  <2>1. PICK a \in request[s].todo :
           /\ mission' = [mission EXCEPT ![a] = IF @ = "none" THEN "open" ELSE @]
           /\ End(s) \/ Become(s, [request[s] EXCEPT !.todo = @ \ {a}])
    BY <1>12 DEF Insert
  <2>2. RequestsTyped'
    <3> DEFINE q == [request[s] EXCEPT !.todo = @ \ {a}]
    <3>1. q \in Requests /\ (q.at \in Following => q.act \in Activities)
      BY <1>0a DEF Requests
    <3> HIDE DEF q
    <3> QED BY <1>0, <2>1, <3>1, BecomeTyped, EndTyped DEF q
  <2>3. mission' \in [Activities -> {"none", "open", "done"}]
    BY <1>0, <2>1 DEF RowsTyped
  <2> QED BY <1>0, <1>12, <2>2, <2>3 DEF Insert, RowsTyped
<1>13. ASSUME NEW s \in Sessions, NEW a \in Played, Record(s, a) PROVE RowsTyped' /\ RequestsTyped'
  <2>1. a \in Activities
    BY RecordBonusAssumption DEF RecordBonusAssumption
  <2>2. RequestsTyped'
    <3> DEFINE q == [Idle EXCEPT !.at = "combo", !.act = a]
    <3>1. q \in Requests /\ q.act \in Activities
      BY <2>1 DEF Idle, Requests, Following
    <3>2. Become(s, q)
      BY <1>13 DEF Record
    <3> HIDE DEF q
    <3> QED BY <1>0, <3>1, <3>2, BecomeTyped
  <2> QED BY <1>0, <1>13, <2>1, <2>2 DEF Record, RowsTyped
<1>14. ASSUME NEW a \in Cancelled, Cancel(a) PROVE RowsTyped' /\ RequestsTyped'
  BY <1>0, <1>14, RestsTyped DEF Cancel, RowsTyped
<1>15. CASE UNCHANGED vars
  BY <1>0, <1>15, RestsTyped DEF vars, RowsTyped
<1> QED
  BY <1>1, <1>2, <1>3, <1>4, <1>5, <1>6, <1>7, <1>8, <1>9, <1>10, <1>11, <1>12, <1>13, <1>14, <1>15
        DEF Next, Step

----------------------------------------------------------------------------
\* Where a step leaves the requests.

\* One request becomes another, the others stay.
LEMMA BecomeIs ==
  ASSUME TypeOK, NEW s \in Sessions, NEW q, Become(s, q)
  PROVE  request'[s] = q /\ \A t \in Sessions \ {s} : request'[t] = request[t]
BY DEF Become, TypeOK

\* A request goes on with its activity.
LEMMA GoIs ==
  ASSUME TypeOK, NEW s \in Sessions, NEW at, Go(s, at)
  PROVE  /\ request'[s].at = at /\ request'[s].act = request[s].act
         /\ \A t \in Sessions \ {s} : request'[t] = request[t]
<1> DEFINE q == [Idle EXCEPT !.at = at, !.act = request[s].act]
<1>1. q.at = at /\ q.act = request[s].act
  BY DEF Idle
<1> HIDE DEF q
<1> QED BY <1>1, BecomeIs DEF Go, q

\* A request ends, the others stay.
LEMMA EndIs ==
  ASSUME TypeOK, NEW s \in Sessions, End(s)
  PROVE  request'[s].at = "idle" /\ \A t \in Sessions \ {s} : request'[t] = request[t]
BY BecomeIs DEF End, Idle

\* What is posted for the missions covers each of its entries.
LEMMA PostedNat ==
  ASSUME TypeOK
  PROVE  /\ MissionPosted \in Nat /\ base[5] \in Nat /\ base[20] \in Nat
         /\ base[5] > 0 => MissionPosted >= 5
         /\ base[20] > 0 => MissionPosted >= 20
BY DEF TypeOK, MissionPosted

----------------------------------------------------------------------------
\* The missions.

\* One mission more is worth no less, from the third on nothing more.
LEMMA CapGrows ==
  ASSUME NEW n \in Nat
  PROVE  Cap(n) \in Nat /\ Cap(n) <= Cap(n + 1) /\ MissionBonus(n) <= Cap(n)
BY DEF Cap, MissionBonus

\* A step that posts no mission bonus and marks no mission.
LEMMA MissionRests ==
  ASSUME TypeOK, TypeOK', MissionInv, NEW s \in Sessions,
         Done' = Done, UNCHANGED <<base, extra>>,
         \A a \in Activities : mission[a] = "open" => mission'[a] = "open",
         "mission" \in raced => "mission" \in raced',
         "mission" \notin short' =>
             /\ "mission" \notin short
             /\ request[s].at \in {"count", "payMission"} => MissionPosted >= MissionBonus(Count),
         request'[s].at \notin Completing,
         ActNamed,
         \A t \in Sessions \ {s} : request'[t] = request[t]
  PROVE  MissionInv'
<1>1. UNCHANGED <<Count, MissionPosted, MissionBonus(Count), Cap(Count)>> /\ UNCHANGED Cap(Count - 1)
  BY DEF Count, MissionPosted
<1>2. MissionRequests' /\ ExtraCompletes'
  BY <1>1 DEF MissionInv, MissionRequests, ExtraCompletes, Completing
<1>3. MissionOwed'
  BY <1>1 DEF MissionInv, MissionOwed
<1>4. OneCompletion'
  <2> SUFFICES ASSUME "mission" \notin raced' PROVE CompletionAlone'
    BY DEF OneCompletion
  <2> QED BY <1>1 DEF MissionInv, OneCompletion, CompletionAlone, Completing, ActNamed, Following
<1> QED BY <1>2, <1>3, <1>4 DEF MissionInv

\* Where nothing about missions changes, their invariant stays.
LEMMA MissionStays ==
  ASSUME MissionInv, UNCHANGED <<mission, base, extra, request, raced, short>>
  PROVE  MissionInv'
BY DEF MissionInv, MissionRequests, ExtraCompletes, MissionOwed, OneCompletion, CompletionAlone,
    MissionPosted, Count, Done

\* A record finds its mission open, done or missing.
LEMMA MissionLookStep ==
  ASSUME TypeOK, TypeOK', ActNamed, MissionInv, NEW s \in Sessions, MissionLook(s)
  PROVE  MissionInv'
<1>0. request[s].at = "mission" /\ UNCHANGED <<mission, base, extra, short>> /\ UNCHANGED <<Done, MissionPosted, Count>>
  BY DEF MissionLook, ledger, Done, MissionPosted, Count
<1>1. CASE mission[request[s].act] # "open"
  <2>1. request'[s].at = "focus" /\ (\A t \in Sessions \ {s} : request'[t] = request[t]) /\ UNCHANGED raced
    BY <1>1, GoIs DEF MissionLook
  <2> QED BY <1>0, <2>1, MissionRests DEF Completing
<1>2. CASE mission[request[s].act] = "open"
  <2>1. /\ request'[s].at = "mark" /\ request'[s].act = request[s].act
        /\ \A t \in Sessions \ {s} : request'[t] = request[t]
        /\ "mission" \notin raced' => "mission" \notin raced /\ Others(s, Completing) = {}
    BY <1>2, GoIs DEF MissionLook, Racing, Completing
  <2>2. MissionRequests' /\ ExtraCompletes'
    BY <1>0, <2>1 DEF MissionInv, MissionRequests, ExtraCompletes
  <2>3. MissionOwed'
    BY <1>0, <2>1 DEF MissionInv, MissionOwed
  <2>4. OneCompletion'
    <3> SUFFICES ASSUME "mission" \notin raced' PROVE CompletionAlone'
      BY DEF OneCompletion
    <3>1. "mission" \notin raced /\ \A t \in Sessions \ {s} : request'[t].at \notin Completing
      BY <2>1 DEF Others
    <3>2. MissionPosted' <= Cap(Count)'
      BY <1>0, <3>1 DEF MissionInv, OneCompletion, CompletionAlone
    <3> QED BY <1>0, <1>2, <2>1, <3>1, <3>2 DEF CompletionAlone, Completing
  <2> QED BY <2>2, <2>3, <2>4 DEF MissionInv
<1> QED BY <1>1, <1>2

\* A mission is marked: from here on its request owes the bonus.
LEMMA MarkStep ==
  ASSUME TypeOK, TypeOK', ActNamed, MissionInv, NEW s \in Sessions, Mark(s)
  PROVE  MissionInv'
<1> DEFINE a == request[s].act
<1>0. /\ request[s].at = "mark" /\ a \in Activities
      /\ mission' = [mission EXCEPT ![a] = IF @ = "open" THEN "done" ELSE @]
      /\ request'[s].at = "count" /\ (\A t \in Sessions \ {s} : request'[t] = request[t])
      /\ UNCHANGED <<base, extra, short, raced, MissionPosted>>
  BY GoIs DEF Mark, ActNamed, Following, ledger, history, MissionPosted
<1> HIDE DEF a
<1>1. Done' = IF mission[a] = "open" THEN Done \cup {a} ELSE Done
  BY <1>0 DEF Done, TypeOK
<1>2. Count \in Nat /\ IsFiniteSet(Done)
  BY CountNat
<1>3. Count' = IF mission[a] = "open" THEN Count + 1 ELSE Count
  <2>1. mission[a] = "open" => a \notin Done
    BY DEF Done
  <2> QED BY <1>1, <1>2, <2>1, FS_AddElement DEF Count
<1>4. MissionRequests' /\ ExtraCompletes'
  <2>1. Count <= Count'
    BY <1>2, <1>3
  <2>2. \A t \in Sessions : request[t].count \in Nat
    BY DEF TypeOK
  <2> QED BY <1>0, <1>2, <1>3, <2>1, <2>2 DEF MissionInv, MissionRequests, ExtraCompletes
<1>5. MissionOwed'
  BY <1>0 DEF MissionOwed
<1>6. OneCompletion'
  <2> SUFFICES ASSUME "mission" \notin raced' PROVE CompletionAlone'
    BY DEF OneCompletion
  <2>1. mission[a] = "open" /\ MissionPosted <= Cap(Count) /\ \A t \in Sessions \ {s} : request[t].at \notin Completing
    BY <1>0 DEF MissionInv, OneCompletion, CompletionAlone, Completing, a
  <2>2. Count' = Count + 1 /\ Count' >= 1 /\ Count' - 1 = Count
    BY <1>2, <1>3, <2>1
  <2>3. MissionPosted' <= Cap(Count' - 1) /\ MissionPosted' <= Cap(Count')
    BY <1>0, <1>2, <2>1, <2>2, CapGrows, PostedNat
  <2>4. Cap(Count' - 1) = Cap(Count - 1)' /\ Cap(Count') = Cap(Count)'
    BY DEF Cap, MissionBonus
  <2>5. \A t \in Sessions \ {s} : request'[t].at \notin Completing
    BY <1>0, <2>1
  <2> QED BY <1>0, <2>2, <2>3, <2>4, <2>5 DEF CompletionAlone, Completing
<1> QED BY <1>4, <1>5, <1>6 DEF MissionInv

\* A completion counts the missions and looks up the entry.
LEMMA CountUpStep ==
  ASSUME TypeOK, TypeOK', ActNamed, MissionInv, NEW s \in Sessions, MissionCountUp(s)
  PROVE  MissionInv'
<1> DEFINE b == MissionBonus(Count)
<1>0. /\ request[s].at = "count" /\ UNCHANGED <<mission, base, extra, short, raced, MissionPosted, Done, Count>>
  BY DEF MissionCountUp, ledger, history, MissionPosted, Done, Count
<1>1. Count \in Nat /\ b \in {0, 5, 20} /\ (b = 20 => Count = 3) /\ (b = 5 => Count = 2)
  BY CountNat DEF MissionBonus
<1>2. \/ Go(s, "focus") /\ MissionPosted >= b
      \/ b > 0 /\ base[5] = 0 /\ base[20] = 0 /\ Owes(s, b, "base", Count)
      \/ b = 20 /\ base[5] > 0 /\ Owes(s, 15, "extra", Count)
  <2>1. \/ b = 0 /\ Go(s, "focus")
        \/ b > 0 /\ (\A e \in {5, 20} : ~ base[e] > 0) /\ Owes(s, b, "base", Count)
        \/ \E e \in {5, 20} : base[e] > 0 /\ IF e < b THEN Owes(s, b - e, "extra", Count) ELSE Go(s, "focus")
    BY DEF MissionCountUp, Rest, Count
  <2> HIDE DEF b
  <2>2. CASE b = 0 /\ Go(s, "focus")
    BY <2>2, PostedNat
  <2>3. CASE b > 0 /\ (\A e \in {5, 20} : ~ base[e] > 0) /\ Owes(s, b, "base", Count)
    BY <2>3, PostedNat
  <2>4. ASSUME NEW e \in {5, 20}, base[e] > 0, IF e < b THEN Owes(s, b - e, "extra",
               Count) ELSE Go(s, "focus")
        PROVE  \/ Go(s, "focus") /\ MissionPosted >= b
               \/ b = 20 /\ base[5] > 0 /\ Owes(s, 15, "extra", Count)
    <3>1. CASE e < b
      <4>1. e = 5 /\ b = 20 /\ b - e = 15 BY <1>1, <3>1
      <4> QED BY <2>4, <3>1, <4>1
    <3>2. CASE ~ e < b
      <4>1. MissionPosted >= e /\ MissionPosted \in Nat BY <2>4, PostedNat
      <4> QED BY <1>1, <2>4, <3>2, <4>1
    <3> QED BY <3>1, <3>2
  <2> QED BY <2>1, <2>2, <2>3, <2>4
<1>3. CASE Go(s, "focus") /\ MissionPosted >= b
  <2>1. request'[s].at = "focus" /\ \A t \in Sessions \ {s} : request'[t] = request[t]
    BY <1>3, GoIs
  <2> QED BY <1>0, <1>3, <2>1, MissionRests DEF Completing
<1>4. ASSUME NEW n \in Nat, NEW k \in {"base", "extra"}, Owes(s, n, k, Count), n > 0,
             \/ k = "base" /\ n = b
             \/ k = "extra" /\ n = 15 /\ Count = 3 /\ base[5] > 0,
             "mission" \notin raced => MissionPosted + n <= Cap(Count)
      PROVE  MissionInv'
  <2>1. /\ request'[s].at = "payMission" /\ request'[s].amount = n /\ request'[s].kind = k /\ request'[s].count = Count
        /\ \A t \in Sessions \ {s} : request'[t] = request[t]
    <3> DEFINE q == [request[s] EXCEPT !.at = "payMission", !.amount = n, !.kind = k, !.count = Count]
    <3>1. q.at = "payMission" /\ q.amount = n /\ q.kind = k /\ q.count = Count
      BY DEF TypeOK
    <3> HIDE DEF q
    <3> QED BY <1>4, <3>1, BecomeIs DEF Owes, q
  <2>2. MissionRequests' /\ ExtraCompletes'
    BY <1>0, <1>1, <1>4, <2>1 DEF MissionInv, MissionRequests, ExtraCompletes
  <2>3. MissionOwed'
    BY <1>0, <2>1 DEF MissionOwed
  <2>4. OneCompletion'
    <3> SUFFICES ASSUME "mission" \notin raced' PROVE CompletionAlone'
      BY DEF OneCompletion
    <3>1. "mission" \notin raced /\ \A t \in Sessions \ {s} : request'[t].at \notin Completing
      BY <1>0, <2>1 DEF MissionInv, OneCompletion, CompletionAlone, Completing
    <3>2. MissionPosted' <= Cap(Count)' /\ MissionPosted' + n <= Cap(Count)'
      BY <1>0, <1>4, <3>1 DEF MissionInv, OneCompletion, CompletionAlone
    <3> QED BY <1>0, <2>1, <3>1, <3>2 DEF CompletionAlone, Completing
  <2> QED BY <2>2, <2>3, <2>4 DEF MissionInv
<1>5. "mission" \notin raced => Count >= 1 /\ MissionPosted <= Cap(Count - 1)
  BY <1>0 DEF MissionInv, OneCompletion, CompletionAlone
<1>6. CASE b > 0 /\ base[5] = 0 /\ base[20] = 0 /\ Owes(s, b, "base", Count)
  <2>1. MissionPosted = 0
    <3>1. extra = 0
      BY <1>6 DEF MissionInv, ExtraCompletes, TypeOK
    <3> QED BY <1>6, <3>1 DEF MissionPosted
  <2>2. b <= Cap(Count)
    BY <1>1, CapGrows
  <2>3. b \in Nat /\ MissionPosted + b <= Cap(Count)
    BY <1>1, <2>1, <2>2
  <2> HIDE DEF b
  <2> QED BY <1>4, <1>6, <2>3
<1>7. CASE b = 20 /\ base[5] > 0 /\ Owes(s, 15, "extra", Count)
  <2>1. Count = 3 /\ Cap(3) = 20 /\ Cap(2) = 5 /\ 3 - 1 = 2
    BY <1>1, <1>7 DEF Cap, MissionBonus
  <2>2. "mission" \notin raced => MissionPosted + 15 <= Cap(Count)
    BY <1>5, <2>1, PostedNat
  <2> QED BY <1>4, <1>7, <2>1, <2>2
<1> QED BY <1>2, <1>3, <1>6, <1>7

\* A completion posts what it found missing.
LEMMA PayMissionStep ==
  ASSUME TypeOK, TypeOK', ActNamed, MissionInv, NEW s \in Sessions, PayMission(s)
  PROVE  MissionInv'
<1> DEFINE q == request[s]
           n == q.amount
<1>0. /\ q.at = "payMission" /\ request'[s].at = "focus" /\ (\A t \in Sessions \ {s} : request'[t] = request[t])
      /\ UNCHANGED <<mission, raced, Done, Count>>
      /\ short' = IF q.count = Count THEN short \ {"mission"} ELSE short
  BY GoIs DEF PayMission, Done, Count
<1>1. n \in Nat /\ q.count \in Nat /\ Count \in Nat
  BY CountNat DEF TypeOK
<1>2. /\ q.count <= Count
      /\ \/ q.kind = "base" /\ n = MissionBonus(q.count) /\ n > 0
         \/ q.kind = "extra" /\ n = 15 /\ q.count = 3 /\ base[5] > 0
  BY <1>0 DEF MissionInv, MissionRequests
<1>3. \/ q.kind = "base" /\ base' = [base EXCEPT ![n] = @ + 1] /\ UNCHANGED extra
      \/ q.kind = "extra" /\ extra' = extra + n /\ UNCHANGED base
  BY <1>2 DEF PayMission
<1>4. n \in {5, 15, 20} /\ (q.kind = "base" => n \in {5, 20})
  BY <1>1, <1>2, BonusTables
<1> HIDE DEF n, q
<1>5. MissionPosted' = MissionPosted + n /\ (base[5] > 0 => base'[5] > 0) /\ (extra' > 0 => base'[5] > 0)
  <2>1. base[5] \in Nat /\ base[20] \in Nat /\ extra \in Nat /\ base \in [{5, 20} -> Nat]
    BY DEF TypeOK
  <2>2. extra > 0 => base[5] > 0
    BY DEF MissionInv, ExtraCompletes
  <2>3. CASE q.kind = "base"
    <3>1. CASE n = 5
      <4>1. base'[5] = base[5] + 1 /\ base'[20] = base[20] /\ extra' = extra
        BY <1>3, <2>1, <2>3, <3>1
      <4> QED BY <2>1, <2>2, <3>1, <4>1 DEF MissionPosted
    <3>2. CASE n = 20
      <4>1. base'[5] = base[5] /\ base'[20] = base[20] + 1 /\ extra' = extra
        BY <1>3, <2>1, <2>3, <3>2
      <4> QED BY <2>1, <2>2, <3>2, <4>1 DEF MissionPosted
    <3> QED BY <1>4, <2>3, <3>1, <3>2
  <2>4. CASE q.kind = "extra"
    <3>1. base' = base /\ extra' = extra + n BY <1>3, <2>4
    <3> QED BY <1>1, <1>2, <2>1, <2>2, <2>4, <3>1 DEF MissionPosted
  <2> QED BY <1>2, <2>3, <2>4
<1>6. MissionPosted \in Nat
  BY PostedNat
<1>7. MissionRequests' /\ ExtraCompletes'
  BY <1>0, <1>5 DEF MissionInv, MissionRequests, ExtraCompletes
<1>8. MissionOwed'
  <2>1. CASE q.count = Count
    <3>1. MissionPosted + n >= MissionBonus(Count)
      <4>1. CASE q.kind = "base" BY <1>1, <1>2, <1>6, <2>1, <4>1
      <4>2. CASE q.kind = "extra"
        <5>1. MissionPosted >= 5 /\ MissionBonus(3) = 20 BY <1>2, <4>2, PostedNat DEF MissionBonus
        <5> QED BY <1>2, <1>6, <2>1, <4>2, <5>1
      <4> QED BY <1>2, <4>1, <4>2
    <3> QED BY <1>0, <1>5, <3>1 DEF MissionOwed
  <2>2. CASE q.count # Count
    <3>1. MissionPosted >= MissionBonus(Count) => MissionPosted' >= MissionBonus(Count)'
      BY <1>0, <1>1, <1>5, <1>6, BonusTables
    <3> QED BY <1>0, <2>2, <3>1 DEF MissionInv, MissionOwed, q
  <2> QED BY <2>1, <2>2
<1>9. OneCompletion'
  <2> SUFFICES ASSUME "mission" \notin raced' PROVE CompletionAlone'
    BY DEF OneCompletion
  <2>1. MissionPosted + n <= Cap(Count) /\ \A t \in Sessions \ {s} : request'[t].at \notin Completing
    BY <1>0 DEF MissionInv, OneCompletion, CompletionAlone, Completing, n, q
  <2> QED BY <1>0, <1>5, <2>1 DEF CompletionAlone, Completing
<1> QED BY <1>7, <1>8, <1>9 DEF MissionInv

\* Every step keeps the invariant of the missions.
LEMMA MissionStep ==
  ASSUME TypeOK, TypeOK', ActNamed, MissionInv, [Next]_vars
  PROVE  MissionInv'
<1> USE DEF ledger, history
<1> DEFINE Same == UNCHANGED <<mission, base, extra, Done>> /\ ("mission" \in raced => "mission" \in raced')
<1>1. ASSUME NEW s \in Sessions, Same, request'[s].at \notin Completing,
             \A t \in Sessions \ {s} : request'[t] = request[t],
             "mission" \notin short' =>
                 /\ "mission" \notin short
                 /\ request[s].at \in {"count", "payMission"} => MissionPosted >= MissionBonus(Count)
      PROVE  MissionInv'
  BY <1>1, MissionRests
<1>2. ASSUME NEW s \in Sessions, ComboLook(s) PROVE MissionInv'
  <2>1. /\ request'[s].at \in {"payCombo", "mission"} /\ (\A t \in Sessions \ {s} : request'[t] = request[t])
        /\ request[s].at = "combo" /\ ("mission" \notin short' => "mission" \notin short)
    <3>1. Become(s, [request[s] EXCEPT !.at = "payCombo", !.amount = Missing(Desired[logs]), !.count = Desired[logs]])
             => request'[s].at = "payCombo" /\ (\A t \in Sessions \ {s} : request'[t] = request[t])
      <4> DEFINE q == [request[s] EXCEPT !.at = "payCombo", !.amount = Missing(Desired[logs]), !.count = Desired[logs]]
      <4>1. q.at = "payCombo"
        BY DEF TypeOK
      <4> HIDE DEF q
      <4> QED BY <4>1, BecomeIs DEF q
    <3> QED BY <1>2, <3>1, GoIs DEF ComboLook
  <2>2. Same
    BY <1>2 DEF ComboLook, Racing, Done
  <2> QED BY <1>1, <2>1, <2>2 DEF Completing
<1>3. ASSUME NEW s \in Sessions, PayCombo(s) PROVE MissionInv'
  BY <1>1, <1>3, GoIs DEF PayCombo, Done, Completing
<1>4. ASSUME NEW s \in Sessions, FocusLook(s) PROVE MissionInv'
  <2>1. Same
    BY <1>4 DEF FocusLook, Racing, Done
  <2> QED BY <1>1, <1>4, <2>1, GoIs, EndIs DEF FocusLook, Completing
<1>5. ASSUME NEW s \in Sessions, PayFocus(s) PROVE MissionInv'
  BY <1>1, <1>5, EndIs DEF PayFocus, Done, Completing
<1>6. ASSUME NEW s \in Sessions, Skip(s) \/ CutOff(s) PROVE MissionInv'
  <2>1. Same
    BY <1>6 DEF Skip, CutOff, Done
  <2>2. request'[s].at \notin Completing /\ \A t \in Sessions \ {s} : request'[t] = request[t]
    BY <1>6, GoIs, EndIs DEF Skip, CutOff, Completing
  <2>3. short \subseteq short' /\ (request[s].at \in {"count", "payMission"} /\ "mission" \notin short' => ~Unpaid("mission"))
    BY <1>6, OwingParts DEF Skip, CutOff, Parts
  <2>4. ~Unpaid("mission") => MissionPosted >= MissionBonus(Count)
    BY PostedNat, CountNat DEF Unpaid, Count
  <2> QED BY <1>1, <2>1, <2>2, <2>3, <2>4
<1>7. ASSUME NEW s \in Sessions, Load(s) PROVE MissionInv'
  <2>1. PICK acts \in Draws : Become(s, [Idle EXCEPT !.at = "draw", !.todo = acts])
    BY <1>7 DEF Load
  <2>2. request'[s].at = "draw" /\ \A t \in Sessions \ {s} : request'[t] = request[t]
    <3> DEFINE q == [Idle EXCEPT !.at = "draw", !.todo = acts]
    <3>1. q.at = "draw"
      BY DEF Idle
    <3> HIDE DEF q
    <3> QED BY <2>1, <3>1, BecomeIs DEF q
  <2>3. Same /\ UNCHANGED short /\ request[s].at = "idle"
    BY <1>7 DEF Load, Racing, Done
  <2> QED BY <1>1, <2>2, <2>3 DEF Completing
<1>8. ASSUME NEW s \in Sessions, Insert(s) PROVE MissionInv'
  <2>1. PICK a \in request[s].todo :
           /\ mission' = [mission EXCEPT ![a] = IF @ = "none" THEN "open" ELSE @]
           /\ End(s) \/ Become(s, [request[s] EXCEPT !.todo = @ \ {a}])
    BY <1>8 DEF Insert
  <2>2. Done' = Done /\ \A c \in Activities : mission[c] = "open" => mission'[c] = "open"
    BY <2>1 DEF Done, TypeOK
  <2>3. request[s].at = "draw" /\ UNCHANGED <<base, extra, raced, short>>
    BY <1>8 DEF Insert
  <2>4. request'[s].at \in {"draw", "idle"} /\ \A t \in Sessions \ {s} : request'[t] = request[t]
    <3>1. Become(s, [request[s] EXCEPT !.todo = @ \ {a}])
             => request'[s].at = "draw" /\ (\A t \in Sessions \ {s} : request'[t] = request[t])
      BY <2>3, BecomeIs DEF TypeOK
    <3> QED BY <2>1, <3>1, EndIs
  <2> QED BY <2>2, <2>3, <2>4, MissionRests DEF Completing
<1>9. ASSUME NEW s \in Sessions, NEW a \in Played, Record(s, a) PROVE MissionInv'
  <2>1. request'[s].at = "combo" /\ \A t \in Sessions \ {s} : request'[t] = request[t]
    <3> DEFINE q == [Idle EXCEPT !.at = "combo", !.act = a]
    <3>1. q.at = "combo"
      BY DEF Idle
    <3> HIDE DEF q
    <3> QED BY <1>9, <3>1, BecomeIs DEF Record, q
  <2> QED BY <1>1, <1>9, <2>1 DEF Record, Done, Completing
<1>10. ASSUME NEW a \in Cancelled, Cancel(a) PROVE MissionInv'
  BY <1>10, MissionStays DEF Cancel
<1>11. CASE UNCHANGED vars
  BY <1>11, MissionStays DEF vars
<1> QED BY <1>2, <1>3, <1>4, <1>5, <1>6, <1>7, <1>8, <1>9, <1>10, <1>11,
           MissionLookStep, MarkStep, CountUpStep, PayMissionStep DEF Next, Step

----------------------------------------------------------------------------
\* The combos.

\* What a day is worth is a number.
LEMMA DesiredNat ==
  ASSUME TypeOK
  PROVE  Desired[logs] \in Nat /\ Desired[ever] \in Nat /\ Desired[logs] <= Desired[ever]
<1>1. ever \in SUBSET Activities /\ logs \in SUBSET ever /\ ever \in SUBSET ever
  BY DEF TypeOK
<1> QED BY <1>1, DesiredGrows

\* A step that posts no combo and neither makes a record nor takes one back.
LEMMA ComboRests ==
  ASSUME TypeOK, ComboInv, NEW s \in Sessions,
         UNCHANGED <<logs, ever, combo>>,
         "combo" \in raced => "combo" \in raced',
         "combo" \notin short' =>
             /\ "combo" \notin short
             /\ request[s].at \in {"combo", "payCombo"} => combo >= Desired[logs],
         request'[s].at \notin {"combo", "payCombo"},
         \A t \in Sessions \ {s} : request'[t] = request[t]
  PROVE  ComboInv'
<1>1. UNCHANGED <<Desired[logs], Desired[ever]>>
  BY DEF Desired
<1>2. ComboOwed'
  BY <1>1 DEF ComboInv, ComboOwed
<1>3. OneCombo'
  BY <1>1 DEF ComboInv, OneCombo
<1> QED BY <1>2, <1>3 DEF ComboInv

\* A request looks up what is posted and what the records are worth.
LEMMA ComboLookStep ==
  ASSUME TypeOK, ComboInv, NEW s \in Sessions, ComboLook(s)
  PROVE  ComboInv'
<1> DEFINE d == Desired[logs]
           m == Missing(d)
<1>0. /\ request[s].at = "combo" /\ UNCHANGED <<logs, ever, combo>>
      /\ "combo" \notin raced' => "combo" \notin raced /\ Others(s, {"payCombo"}) = {}
  BY DEF ComboLook, ledger, Racing
<1>1. d \in Nat /\ combo \in Nat /\ Desired[ever] \in Nat /\ d <= Desired[ever]
  BY DesiredNat DEF TypeOK
<1>2. m = (IF d > combo THEN d - combo ELSE 0)
  BY DEF Missing
<1>3. UNCHANGED <<d, Desired[ever]>>
  BY <1>0 DEF Desired
<1>4. CASE m = 0
  <2>1. Go(s, "mission") /\ short' = short \ {"combo"}
    BY <1>4 DEF ComboLook
  <2>2. combo >= d
    BY <1>1, <1>2, <1>4
  <2>3. request'[s].at = "mission" /\ \A t \in Sessions \ {s} : request'[t] = request[t]
    BY <2>1, GoIs
  <2>4. ComboOwed'
    BY <1>0, <1>3, <2>2, <2>3 DEF ComboInv, ComboOwed
  <2>5. OneCombo'
    BY <1>0, <1>3, <2>3 DEF ComboInv, OneCombo
  <2> QED BY <2>4, <2>5 DEF ComboInv
<1>5. CASE m > 0
  <2> DEFINE q == [request[s] EXCEPT !.at = "payCombo", !.amount = m, !.count = d]
  <2>1. Become(s, q) /\ UNCHANGED short
    BY <1>5 DEF ComboLook
  <2>2. q.at = "payCombo" /\ q.amount = m /\ q.count = d
    BY DEF TypeOK
  <2> HIDE DEF q, d, m
  <2>3. request'[s] = q /\ \A t \in Sessions \ {s} : request'[t] = request[t]
    BY <2>1, BecomeIs
  <2>4. combo + m = d
    BY <1>1, <1>2, <1>5
  <2>5. ComboOwed'
    <3>1. request'[s].at = "payCombo" /\ request'[s].count >= d /\ combo' + request'[s].amount >= request'[s].count
      BY <1>0, <1>1, <2>2, <2>3, <2>4
    <3>2. \A t \in Sessions : request'[t].at = "payCombo" => combo' + request'[t].amount >= request'[t].count
      BY <1>0, <2>3, <3>1 DEF ComboInv, ComboOwed
    <3> QED BY <1>3, <3>1, <3>2 DEF ComboOwed, d
  <2>6. OneCombo'
    <3>1. "combo" \notin raced' => \A t \in Sessions \ {s} : request'[t].at # "payCombo"
      BY <1>0, <2>3 DEF Others
    <3>2. combo' + request'[s].amount <= Desired[ever]'
      BY <1>0, <1>1, <1>3, <2>2, <2>3, <2>4
    <3>3. "combo" \notin raced' => combo' <= Desired[ever]'
      BY <1>0, <1>3 DEF ComboInv, OneCombo
    <3> QED BY <2>2, <2>3, <3>1, <3>2, <3>3 DEF OneCombo
  <2> QED BY <2>5, <2>6 DEF ComboInv
<1> QED
  <2>1. m = 0 \/ m > 0 BY <1>1, <1>2
  <2> QED BY <1>4, <1>5, <2>1

\* It posts the rest.
LEMMA PayComboStep ==
  ASSUME TypeOK, ComboInv, NEW s \in Sessions, PayCombo(s)
  PROVE  ComboInv'
<1> DEFINE n == request[s].amount
           d == Desired[logs]
<1>0. /\ request[s].at = "payCombo" /\ combo' = combo + n /\ UNCHANGED <<logs, ever, raced>>
      /\ short' = IF d <= request[s].count THEN short \ {"combo"} ELSE short
      /\ request'[s].at = "mission" /\ \A t \in Sessions \ {s} : request'[t] = request[t]
  BY GoIs DEF PayCombo
<1>1. n \in Nat /\ combo \in Nat /\ d \in Nat /\ \A t \in Sessions : request[t].amount \in Nat /\ request[t].count \in Nat
  BY DesiredNat DEF TypeOK
<1>2. UNCHANGED <<d, Desired[ever]>>
  BY <1>0 DEF Desired
<1>3. combo + n >= request[s].count
  BY <1>0 DEF ComboInv, ComboOwed
<1> HIDE DEF n, d
<1>4. ComboOwed'
  <2>1. \A t \in Sessions : request'[t].at = "payCombo" => combo' + request'[t].amount >= request'[t].count
    BY <1>0, <1>1 DEF ComboInv, ComboOwed
  <2>2. CASE d <= request[s].count
    <3>1. combo' >= d
      BY <1>0, <1>1, <1>3, <2>2
    <3> QED BY <1>2, <2>1, <3>1 DEF ComboOwed, d
  <2>3. CASE ~ d <= request[s].count
    <3>1. combo >= d => combo' >= d
      BY <1>0, <1>1
    <3>2. ~ request[s].count >= d
      BY <1>1, <2>3
    <3> QED BY <1>0, <1>2, <2>1, <2>3, <3>1, <3>2 DEF ComboInv, ComboOwed, d
  <2> QED BY <2>2, <2>3
<1>5. OneCombo'
  <2> SUFFICES ASSUME "combo" \notin raced'
               PROVE  /\ combo' <= Desired[ever]'
                      /\ \A t \in Sessions : request'[t].at # "payCombo"
    BY DEF OneCombo
  <2> QED BY <1>0, <1>2 DEF ComboInv, OneCombo, n
<1> QED BY <1>4, <1>5 DEF ComboInv

\* A record makes a day worth more, and its request has yet to look.
LEMMA RecordCombo ==
  ASSUME TypeOK, TypeOK', ComboInv, NEW s \in Sessions, NEW a \in Played, Record(s, a)
  PROVE  ComboInv'
<1>1. request'[s].at = "combo" /\ \A t \in Sessions \ {s} : request'[t] = request[t]
  <2> DEFINE q == [Idle EXCEPT !.at = "combo", !.act = a]
  <2>1. q.at = "combo"
    BY DEF Idle
  <2> HIDE DEF q
  <2> QED BY <2>1, BecomeIs DEF Record, q
<1>2. UNCHANGED <<combo, raced>>
  BY DEF Record, ledger
<1>3. Desired[ever] \in Nat /\ Desired[ever'] \in Nat /\ Desired[ever] <= Desired[ever'] /\ Desired[ever]' = Desired[ever']
  <2>1. ever' \in SUBSET Activities /\ ever \in SUBSET ever' /\ ever' \in SUBSET ever'
    BY DEF TypeOK, Record
  <2> QED BY <2>1, DesiredGrows DEF Desired
<1>4. ComboOwed'
  BY <1>1, <1>2 DEF ComboInv, ComboOwed
<1>5. OneCombo'
  <2>1. combo \in Nat /\ \A t \in Sessions : request[t].amount \in Nat
    BY DEF TypeOK
  <2>2. \A t \in Sessions : request'[t].at = "payCombo" => t # s
    BY <1>1
  <2> QED BY <1>1, <1>2, <1>3, <2>1, <2>2 DEF ComboInv, OneCombo
<1> QED BY <1>4, <1>5 DEF ComboInv

\* A record that is taken back makes a day worth no more.
LEMMA CancelCombo ==
  ASSUME TypeOK, TypeOK', ComboInv, NEW a \in Cancelled, Cancel(a)
  PROVE  ComboInv'
<1>1. UNCHANGED <<combo, ever, request, raced, short>>
  BY DEF Cancel, ledger
<1>2. Desired[logs] \in Nat /\ Desired[logs'] \in Nat /\ Desired[logs'] <= Desired[logs]
        /\ Desired[logs]' = Desired[logs'] /\ UNCHANGED Desired[ever]
  <2>1. logs \in SUBSET Activities /\ logs' \in SUBSET logs /\ logs \in SUBSET logs
    BY DEF TypeOK, Cancel
  <2> QED BY <1>1, <2>1, DesiredGrows DEF Desired
<1>3. combo \in Nat /\ \A t \in Sessions : request[t].count \in Nat
  BY DEF TypeOK
<1>4. ComboOwed'
  <2>1. combo >= Desired[logs] => combo >= Desired[logs']
    BY <1>2, <1>3
  <2>2. \A t \in Sessions : request[t].count >= Desired[logs] => request[t].count >= Desired[logs']
    BY <1>2, <1>3
  <2> QED BY <1>1, <1>2, <2>1, <2>2 DEF ComboInv, ComboOwed
<1>5. OneCombo'
  BY <1>1, <1>2 DEF ComboInv, OneCombo
<1> QED BY <1>4, <1>5 DEF ComboInv

\* Every step keeps the invariant of the combos.
LEMMA ComboStep ==
  ASSUME TypeOK, TypeOK', ComboInv, [Next]_vars
  PROVE  ComboInv'
<1> USE DEF ledger, history
<1> DEFINE Same == UNCHANGED <<logs, ever, combo>> /\ ("combo" \in raced => "combo" \in raced')
           Left(s) == "combo" \notin short' =>
                         /\ "combo" \notin short
                         /\ request[s].at \in {"combo", "payCombo"} => combo >= Desired[logs]
           Moved(s) == /\ request'[s].at \notin {"combo", "payCombo"}
                       /\ \A t \in Sessions \ {s} : request'[t] = request[t]
<1>1. ASSUME NEW s \in Sessions, Same, Left(s), Moved(s) PROVE ComboInv'
  BY <1>1, ComboRests
<1>2. ASSUME NEW s \in Sessions,
             MissionLook(s) \/ Mark(s) \/ FocusLook(s) \/ PayFocus(s) \/ PayMission(s)
      PROVE  ComboInv'
  <2>1. Same
    BY <1>2 DEF MissionLook, Mark, FocusLook, PayFocus, PayMission, Racing
  <2>2. Left(s)
    BY <1>2 DEF MissionLook, Mark, FocusLook, PayFocus, PayMission
  <2>3. Moved(s)
    BY <1>2, GoIs, EndIs DEF MissionLook, Mark, FocusLook, PayFocus, PayMission
  <2> QED BY <1>1, <2>1, <2>2, <2>3
<1>3. ASSUME NEW s \in Sessions, MissionCountUp(s) PROVE ComboInv'
  <2>1. Same /\ Left(s)
    BY <1>3 DEF MissionCountUp
  <2>2. Go(s, "focus") \/ \E n, k, c : Owes(s, n, k, c)
    BY <1>3 DEF MissionCountUp
  <2>3. ASSUME NEW n, NEW k, NEW c, Owes(s, n, k, c) PROVE Moved(s)
    <3> DEFINE q == [request[s] EXCEPT !.at = "payMission", !.amount = n, !.kind = k, !.count = c]
    <3>1. q.at = "payMission"
      BY DEF TypeOK
    <3> HIDE DEF q
    <3> QED BY <2>3, <3>1, BecomeIs DEF Owes, q
  <2> QED BY <1>1, <2>1, <2>2, <2>3, GoIs
<1>4. ASSUME NEW s \in Sessions, Skip(s) \/ CutOff(s) PROVE ComboInv'
  <2>1. Same
    BY <1>4 DEF Skip, CutOff
  <2>2. Moved(s)
    BY <1>4, GoIs, EndIs DEF Skip, CutOff
  <2>3. short \subseteq short' /\ (request[s].at \in {"combo", "payCombo"} /\ "combo" \notin short' => ~Unpaid("combo"))
    BY <1>4, OwingParts DEF Skip, CutOff, Parts
  <2>4. ~Unpaid("combo") => combo >= Desired[logs]
    <3>1. combo \in Nat /\ Desired[logs] \in Nat
      BY DesiredNat DEF TypeOK
    <3> HIDE DEF Desired
    <3> QED BY <3>1 DEF Unpaid, Missing
  <2> QED BY <1>1, <2>1, <2>2, <2>3, <2>4
<1>5. ASSUME NEW s \in Sessions, Load(s) PROVE ComboInv'
  <2>1. PICK acts \in Draws : Become(s, [Idle EXCEPT !.at = "draw", !.todo = acts])
    BY <1>5 DEF Load
  <2>2. Moved(s)
    <3> DEFINE q == [Idle EXCEPT !.at = "draw", !.todo = acts]
    <3>1. q.at = "draw"
      BY DEF Idle
    <3> HIDE DEF q
    <3> QED BY <2>1, <3>1, BecomeIs DEF q
  <2>3. Same /\ Left(s)
    BY <1>5 DEF Load, Racing
  <2> QED BY <1>1, <2>2, <2>3
<1>6. ASSUME NEW s \in Sessions, Insert(s) PROVE ComboInv'
  <2>1. PICK a \in request[s].todo : End(s) \/ Become(s, [request[s] EXCEPT !.todo = @ \ {a}])
    BY <1>6 DEF Insert
  <2>2. Moved(s)
    <3> DEFINE q == [request[s] EXCEPT !.todo = @ \ {a}]
    <3>1. q.at = "draw"
      BY <1>6 DEF TypeOK, Insert
    <3> HIDE DEF q
    <3> QED BY <2>1, <3>1, BecomeIs, EndIs DEF q
  <2>3. Same /\ Left(s)
    BY <1>6 DEF Insert
  <2> QED BY <1>1, <2>2, <2>3
<1>7. CASE UNCHANGED vars
  <2>1. UNCHANGED <<logs, ever, combo, request, raced, short>>
    BY <1>7 DEF vars
  <2> QED BY <2>1 DEF ComboInv, ComboOwed, OneCombo, Desired
<1> QED
  BY <1>2, <1>3, <1>4, <1>5, <1>6, <1>7, ComboLookStep, PayComboStep, RecordCombo, CancelCombo
      DEF Next, Step

----------------------------------------------------------------------------
\* The focus bonus.

\* Every step keeps the invariant of the focus bonus.
LEMMA FocusStep ==
  ASSUME TypeOK, TypeOK', FocusInv, [Next]_vars
  PROVE  FocusInv'
<1> USE DEF ledger, history
<1> DEFINE Wanted == Recommended # {} /\ Recommended \subseteq logs
           Same == UNCHANGED <<logs, focus>> /\ ("focus" \in raced => "focus" \in raced')
           Left(s) == "focus" \notin short' =>
                         /\ "focus" \notin short
                         /\ request[s].at \in Following =>
                               request'[s].at \in Following \/ ~Wanted \/ focus >= 1
           Moved(s) == /\ request'[s].at # "payFocus"
                       /\ \A t \in Sessions \ {s} : request'[t] = request[t]
<1>0. focus \in Nat
  BY DEF TypeOK
<1>1. ASSUME NEW s \in Sessions, Same, Left(s), Moved(s) PROVE FocusInv'
  <2>1. FocusOwed'
    BY <1>1 DEF FocusInv, FocusOwed
  <2>2. OneFocus'
    BY <1>1 DEF FocusInv, OneFocus
  <2> QED BY <2>1, <2>2 DEF FocusInv
<1>2. ASSUME NEW s \in Sessions, MissionLook(s) \/ Mark(s) \/ PayCombo(s) \/ PayMission(s)
      PROVE  FocusInv'
  <2>1. Same
    BY <1>2 DEF MissionLook, Mark, PayCombo, PayMission, Racing
  <2>2. request'[s].at \in Following /\ Moved(s)
    BY <1>2, GoIs DEF MissionLook, Mark, PayCombo, PayMission, Following
  <2>3. Left(s)
    BY <1>2, <2>2 DEF MissionLook, Mark, PayCombo, PayMission
  <2> QED BY <1>1, <2>1, <2>2, <2>3
<1>3. ASSUME NEW s \in Sessions, MissionCountUp(s) PROVE FocusInv'
  <2>1. Go(s, "focus") \/ \E n, k, c : Owes(s, n, k, c)
    BY <1>3 DEF MissionCountUp
  <2>2. ASSUME NEW n, NEW k, NEW c, Owes(s, n, k, c) PROVE request'[s].at \in Following /\ Moved(s)
    <3> DEFINE q == [request[s] EXCEPT !.at = "payMission", !.amount = n, !.kind = k, !.count = c]
    <3>1. q.at = "payMission"
      BY DEF TypeOK
    <3> HIDE DEF q
    <3> QED BY <2>2, <3>1, BecomeIs DEF Owes, q, Following
  <2>3. request'[s].at \in Following /\ Moved(s)
    BY <2>1, <2>2, GoIs DEF Following
  <2>4. Same /\ Left(s)
    BY <1>3, <2>3 DEF MissionCountUp
  <2> QED BY <1>1, <2>3, <2>4
<1>4. ASSUME NEW s \in Sessions, ComboLook(s) PROVE FocusInv'
  <2>1. request'[s].at \in {"payCombo", "mission"} /\ \A t \in Sessions \ {s} : request'[t] = request[t]
    <3> DEFINE q == [request[s] EXCEPT !.at = "payCombo", !.amount = Missing(Desired[logs]), !.count = Desired[logs]]
    <3>1. q.at = "payCombo"
      BY DEF TypeOK
    <3>2. Become(s, q) \/ Go(s, "mission")
      BY <1>4 DEF ComboLook
    <3> HIDE DEF q
    <3> QED BY <3>1, <3>2, BecomeIs, GoIs
  <2>2. Same /\ ("focus" \notin short' => "focus" \notin short)
    BY <1>4 DEF ComboLook, Racing
  <2> QED BY <1>1, <2>1, <2>2 DEF Following
<1>5. ASSUME NEW s \in Sessions, Skip(s) \/ CutOff(s) PROVE FocusInv'
  <2>1. Same
    BY <1>5 DEF Skip, CutOff
  <2>2. Moved(s)
    BY <1>5, GoIs, EndIs DEF Skip, CutOff
  <2>3. ~Unpaid("focus") => ~Wanted \/ focus >= 1
    BY <1>0 DEF Unpaid, FocusOpen
  <2>4. CASE Skip(s)
    <3>1. short \subseteq short' /\ (request[s].at \in {"focus", "payFocus"} /\ "focus" \notin short' => ~Unpaid("focus"))
      BY <2>4, OwingParts DEF Skip, Parts
    <3>2. request[s].at \in {"focus", "payFocus"} \/ request'[s].at \in Following
      BY <2>4, GoIs DEF Skip, Following
    <3> QED BY <1>1, <2>1, <2>2, <2>3, <3>1, <3>2
  <2>5. CASE CutOff(s)
    <3>1. short \subseteq short' /\ (request[s].at \in Following /\ "focus" \notin short' => ~Unpaid("focus"))
      BY <2>5, OwingParts DEF CutOff, Parts, Following
    <3> QED BY <1>1, <2>1, <2>2, <2>3, <3>1
  <2> QED BY <1>5, <2>4, <2>5
<1>6. ASSUME NEW s \in Sessions, Load(s) PROVE FocusInv'
  <2>1. PICK acts \in Draws : Become(s, [Idle EXCEPT !.at = "draw", !.todo = acts])
    BY <1>6 DEF Load
  <2>2. Moved(s)
    <3> DEFINE q == [Idle EXCEPT !.at = "draw", !.todo = acts]
    <3>1. q.at = "draw"
      BY DEF Idle
    <3> HIDE DEF q
    <3> QED BY <2>1, <3>1, BecomeIs DEF q
  <2>3. Same /\ Left(s)
    BY <1>6 DEF Load, Racing, Following
  <2> QED BY <1>1, <2>2, <2>3
<1>7. ASSUME NEW s \in Sessions, Insert(s) PROVE FocusInv'
  <2>1. PICK a \in request[s].todo : End(s) \/ Become(s, [request[s] EXCEPT !.todo = @ \ {a}])
    BY <1>7 DEF Insert
  <2>2. Moved(s)
    <3> DEFINE q == [request[s] EXCEPT !.todo = @ \ {a}]
    <3>1. q.at = "draw"
      BY <1>7 DEF TypeOK, Insert
    <3> HIDE DEF q
    <3> QED BY <2>1, <3>1, BecomeIs, EndIs DEF q
  <2>3. Same /\ Left(s)
    BY <1>7 DEF Insert, Following
  <2> QED BY <1>1, <2>2, <2>3
<1>8. ASSUME NEW s \in Sessions, NEW a \in Played, Record(s, a) PROVE FocusInv'
  <2>1. request'[s].at = "combo" /\ \A t \in Sessions \ {s} : request'[t] = request[t]
    <3> DEFINE q == [Idle EXCEPT !.at = "combo", !.act = a]
    <3>1. q.at = "combo"
      BY DEF Idle
    <3> HIDE DEF q
    <3> QED BY <1>8, <3>1, BecomeIs DEF Record, q
  <2>2. UNCHANGED <<focus, raced>>
    BY <1>8 DEF Record
  <2>3. FocusOwed'
    BY <2>1 DEF FocusOwed, Following
  <2>4. OneFocus'
    BY <2>1, <2>2 DEF FocusInv, OneFocus
  <2> QED BY <2>3, <2>4 DEF FocusInv
<1>9. ASSUME NEW s \in Sessions, FocusLook(s) PROVE FocusInv'
  <2>1. /\ request[s].at = "focus" /\ UNCHANGED <<logs, focus, short>>
        /\ "focus" \notin raced' => "focus" \notin raced /\ Others(s, {"payFocus"}) = {}
    BY <1>9 DEF FocusLook, Racing
  <2>2. CASE ~FocusOpen
    <3>1. request'[s].at = "idle" /\ \A t \in Sessions \ {s} : request'[t] = request[t]
      BY <1>9, <2>2, EndIs DEF FocusLook
    <3>2. ~Wanted \/ focus >= 1
      BY <1>0, <2>2 DEF FocusOpen
    <3> QED BY <1>1, <2>1, <3>1, <3>2
  <2>3. CASE FocusOpen
    <3>1. request'[s].at = "payFocus" /\ \A t \in Sessions \ {s} : request'[t] = request[t]
      BY <1>9, <2>3, GoIs DEF FocusLook
    <3>2. focus = 0
      BY <2>3 DEF FocusOpen
    <3>3. FocusOwed'
      BY <3>1 DEF FocusOwed, Following
    <3>4. OneFocus'
      BY <2>1, <3>1, <3>2 DEF FocusInv, OneFocus, Others
    <3> QED BY <3>3, <3>4 DEF FocusInv
  <2> QED BY <2>2, <2>3
<1>10. ASSUME NEW s \in Sessions, PayFocus(s) PROVE FocusInv'
  <2>1. /\ request[s].at = "payFocus" /\ focus' = focus + 1 /\ UNCHANGED raced
        /\ request'[s].at = "idle" /\ \A t \in Sessions \ {s} : request'[t] = request[t]
    BY <1>10, EndIs DEF PayFocus
  <2>2. FocusOwed'
    BY <1>0, <2>1 DEF FocusOwed
  <2>3. OneFocus'
    BY <1>0, <2>1 DEF FocusInv, OneFocus
  <2> QED BY <2>2, <2>3 DEF FocusInv
<1>11. ASSUME NEW a \in Cancelled, Cancel(a) PROVE FocusInv'
  <2>1. logs' \subseteq logs /\ UNCHANGED <<focus, request, raced, short>>
    BY <1>11 DEF Cancel
  <2> QED BY <2>1 DEF FocusInv, FocusOwed, OneFocus
<1>12. CASE UNCHANGED vars
  <2>1. UNCHANGED <<logs, focus, request, raced, short>>
    BY <1>12 DEF vars
  <2> QED BY <2>1 DEF FocusInv, FocusOwed, OneFocus
<1> QED BY <1>2, <1>3, <1>4, <1>5, <1>6, <1>7, <1>8, <1>9, <1>10, <1>11, <1>12 DEF Next, Step

----------------------------------------------------------------------------
\* The amounts of the requests at one place, as ToCome adds them up.

Owed == [s \in Sessions |-> request[s].amount]

OwedSums(T, g) ==
    g = [u \in SUBSET T |-> IF u = {} THEN 0 ELSE request[First(u)].amount + g[u \ {First(u)}]]

\* The sum in the model is the recursion over the requests at that place.
LEMMA ToComeUnfolded ==
  ASSUME NEW at
  PROVE  ToCome(at) = (CHOOSE g : OwedSums({s \in Sessions : request[s].at = at}, g))[{s \in Sessions : request[s].at = at}]
BY Zenon DEF ToCome, MapThenSumSet, MapThenFoldSet, OwedSums, First

\* So it is a sum of amounts.
LEMMA ToComeIsSum ==
  ASSUME NEW at, IsFiniteSet({s \in Sessions : request[s].at = at})
  PROVE  ToCome(at) = SumOf(Owed, {s \in Sessions : request[s].at = at})
<1> DEFINE T == {s \in Sessions : request[s].at = at}
           g == CHOOSE gg : OwedSums(T, gg)
           h == CHOOSE gg : Sums(Owed, T, gg)
<1>1. ASSUME NEW gg PROVE OwedSums(T, gg) <=> Sums(Owed, T, gg)
  <2> DEFINE F == [u \in SUBSET T |-> IF u = {} THEN 0 ELSE Owed[First(u)] + gg[u \ {First(u)}]]
             G == [u \in SUBSET T |-> IF u = {} THEN 0 ELSE request[First(u)].amount + gg[u \ {First(u)}]]
  <2>1. \A u \in SUBSET T : u # {} => Owed[First(u)] = request[First(u)].amount
    BY FirstIn DEF Owed
  <2>2. F = G
    BY <2>1
  <2> QED BY <2>2 DEF OwedSums, Sums
<1>2. Sums(Owed, T, h)
  BY SumsExist
<1>3. Sums(Owed, T, g)
  BY <1>1, <1>2
<1>4. SumOf(Owed, T) = h[T] /\ T \in SUBSET T /\ ToCome(at) = g[T]
  BY ToComeUnfolded DEF SumOf
<1>5. IsFiniteSet(T)
  OBVIOUS
<1> HIDE DEF g, h, T
<1>6. g[T] = h[T]
  <2>1. \A V \in SUBSET T : (\A x \in V : Owed[x] = Owed[x]) => g[V] = h[V]
    BY <1>2, <1>3, <1>5, SumsUnique
  <2> QED BY <1>4, <2>1
<1> QED BY <1>4, <1>6 DEF T

\* With at most one request there, it is the amount of that one.
LEMMA ToComeOfOne ==
  ASSUME TypeOK, NEW at,
         \A s, t \in Sessions : request[s].at = at /\ request[t].at = at => s = t
  PROVE  \/ ToCome(at) = 0 /\ \A s \in Sessions : request[s].at # at
         \/ \E s \in Sessions : request[s].at = at /\ ToCome(at) = request[s].amount
<1> DEFINE T == {s \in Sessions : request[s].at = at}
<1>1. CASE T = {}
  <2>1. IsFiniteSet(T)
    BY <1>1, FS_EmptySet
  <2> QED BY <1>1, <2>1, ToComeIsSum, SumOfEmpty
<1>2. ASSUME NEW s \in T PROVE request[s].at = at /\ ToCome(at) = request[s].amount
  <2>1. T = {s} /\ T = {} \cup {s}
    BY <1>2
  <2>2. IsFiniteSet(T)
    <3>1. IsFiniteSet({s})
      BY FS_Singleton
    <3> HIDE DEF T
    <3> QED BY <2>1, <3>1
  <2>3. ToCome(at) = SumOf(Owed, T)
    BY <2>2, ToComeIsSum
  <2>4. Owed[s] = request[s].amount /\ Owed[s] \in Int
    BY DEF TypeOK, Owed
  <2>5. SumOf(Owed, {} \cup {s}) = SumOf(Owed, {}) + Owed[s]
    BY <2>4, FS_EmptySet, SumOfAdds
  <2> HIDE DEF T
  <2>6. SumOf(Owed, {}) = 0
    BY SumOfEmpty
  <2>7. ToCome(at) = request[s].amount
    BY <2>1, <2>3, <2>4, <2>5, <2>6
  <2> QED BY <2>7 DEF T
<1> QED BY <1>1, <1>2

----------------------------------------------------------------------------
\* The invariant holds in every reachable state.
LEMMA BonusInvariant == Spec => [](TypeOK /\ ActNamed /\ MissionInv /\ ComboInv /\ FocusInv)
<1>1. TypeOK /\ ActNamed /\ MissionInv /\ ComboInv /\ FocusInv /\ [Next]_vars
        => (TypeOK /\ ActNamed /\ MissionInv /\ ComboInv /\ FocusInv)'
  BY TypeStep, MissionStep, ComboStep, FocusStep
<1> QED BY InitHolds, <1>1, PTL DEF Spec

\* Types, whatever the requests do.
THEOREM BonusTyped == Spec => []TypeOK
BY BonusInvariant, PTL

\* The missions of a day bring their bonus: all of it once no completion is under way and none
\* failed, and no more of it if no two completions overlapped.
THEOREM MissionBonusIsPaid == Spec => []MissionPaid
<1>1. TypeOK /\ MissionInv => MissionPaid
  <2> SUFFICES ASSUME TypeOK, MissionInv PROVE MissionPaidUp /\ MissionPaidOnce
    BY DEF MissionPaid
  <2>1. MissionPaidUp
    BY DEF MissionInv, MissionOwed, MissionPaidUp, Nobody, Count
  <2>2. ASSUME "mission" \notin raced PROVE MissionPosted + ToCome("payMission") <= Cap(Count)
    <3>1. MissionPosted \in Nat /\ Cap(Count) \in Nat
      BY PostedNat, CountNat, CapGrows
    <3>2. CompletionAlone
      BY <2>2 DEF MissionInv, OneCompletion
    <3>3. \A s, t \in Sessions : request[s].at = "payMission" /\ request[t].at = "payMission" => s = t
      BY <3>2 DEF CompletionAlone, Completing
    <3>4. CASE ToCome("payMission") = 0
      BY <3>1, <3>2, <3>4 DEF CompletionAlone
    <3>5. CASE \E s \in Sessions : request[s].at = "payMission" /\ ToCome("payMission") = request[s].amount
      BY <3>2, <3>5 DEF CompletionAlone
    <3> QED BY <3>3, <3>4, <3>5, ToComeOfOne
  <2> QED BY <2>1, <2>2 DEF MissionPaidOnce, Cap, Count
<1> QED BY BonusInvariant, <1>1, PTL

\* The combos of a day bring what its records are worth: all of it once nobody is about to post,
\* and no more of it if nobody looked while another was about to post.
THEOREM ComboIsPaid == Spec => []ComboPaid
<1>1. TypeOK /\ ComboInv => ComboPaid
  <2> SUFFICES ASSUME TypeOK, ComboInv PROVE ComboPaidUp /\ ComboPaidOnce
    BY DEF ComboPaid
  <2>1. ComboPaidUp
    BY DEF ComboInv, ComboOwed, ComboPaidUp, Nobody
  <2>2. ASSUME "combo" \notin raced PROVE combo + ToCome("payCombo") <= Desired[ever]
    <3>1. combo \in Nat /\ Desired[ever] \in Nat
      BY DesiredNat DEF TypeOK
    <3>2. combo <= Desired[ever] /\ \A s \in Sessions : request[s].at = "payCombo" => combo + request[s].amount <= Desired[ever]
      BY <2>2 DEF ComboInv, OneCombo
    <3>3. \A s, t \in Sessions : request[s].at = "payCombo" /\ request[t].at = "payCombo" => s = t
      BY <2>2 DEF ComboInv, OneCombo
    <3>4. CASE ToCome("payCombo") = 0
      BY <3>1, <3>2, <3>4
    <3>5. CASE \E s \in Sessions : request[s].at = "payCombo" /\ ToCome("payCombo") = request[s].amount
      BY <3>2, <3>5
    <3> QED BY <3>3, <3>4, <3>5, ToComeOfOne
  <2> QED BY <2>1, <2>2 DEF ComboPaidOnce
<1> QED BY BonusInvariant, <1>1, PTL

\* The focus bonus comes with the last recommended activity and, if nobody looked while another
\* was about to post it, once.
THEOREM FocusIsPaid == Spec => []FocusPaid
<1>1. TypeOK /\ FocusInv => FocusPaid
  <2> SUFFICES ASSUME TypeOK, FocusInv PROVE FocusPaid
    OBVIOUS
  <2> DEFINE T == {s \in Sessions : request[s].at = "payFocus"}
  <2>1. ASSUME "focus" \notin raced PROVE focus + Cardinality(T) <= 1
    <3>1. focus \in Nat /\ focus <= 1
      BY <2>1 DEF TypeOK, FocusInv, OneFocus
    <3>2. CASE T = {}
      BY <3>1, <3>2, FS_EmptySet
    <3>3. ASSUME NEW s \in T PROVE focus + Cardinality(T) <= 1
      <4>1. focus = 0 /\ T = {s}
        BY <2>1, <3>3 DEF FocusInv, OneFocus
      <4>2. Cardinality(T) = 1
        BY <4>1, FS_Singleton
      <4> QED BY <4>1, <4>2
    <3> QED BY <3>2, <3>3
  <2>2. Recommended # {} /\ Recommended \subseteq logs /\ "focus" \notin short /\ Nobody(Following) => focus >= 1
    BY DEF FocusInv, FocusOwed, Nobody
  <2> QED BY <2>1, <2>2 DEF FocusPaid, Following
<1> QED BY BonusInvariant, <1>1, PTL
=============================================================================
