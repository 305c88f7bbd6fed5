----------------------------- MODULE DailyProofs -----------------------------
(***************************************************************************)
(* The three small parts of a child's day that MCDaily runs.  A challenge  *)
(* is paid once and only when earned, and records which do not overlap all *)
(* count; a checklist's ledger agrees with its log; the mastery bonus of a *)
(* record is given back exactly and the announced number of records is     *)
(* right: for any constants, and for every count there is, not the         *)
(* sampled ones.                                                           *)
(***************************************************************************)
EXTENDS MCDaily, SumTheorems, SequenceTheorems

\* A behaviour of the run is one of each part, the others at rest.
LEMMA RunHasParts == MCSpec => Spec /\ List!Spec /\ Skill!Spec
<1>1. [MCNext]_<<vars, listVars, skillVars>>
        => [Next]_vars /\ [List!Next]_(List!vars) /\ [Skill!Next]_(Skill!vars)
  BY DEF MCNext, listVars, skillVars, List!vars, Skill!vars
<1> QED BY <1>1, PTL DEF MCSpec, MCInit, Spec, List!Spec, Skill!Spec

-----------------------------------------------------------------------------
\* Challenges.

Rows   == [value : Nat, completed : BOOLEAN, claimed : BOOLEAN]
Places == {"idle", "write", "mark", "claim"}

\* A request that is at something names a challenge.
RequestsTyped == /\ request \in [Sessions -> [at : Places, id : Nat, value : Nat]]
                 /\ \A s \in Sessions : request[s].at # "idle" => request[s].id \in Ids

RowsTyped == /\ made \in 0 .. MaxMade /\ live \subseteq Ids
             /\ row \in [Ids -> Rows] /\ reward \in [Ids -> Nat]

TypeOK == /\ RequestsTyped /\ RowsTyped
          /\ counted \in [Ids -> Nat] /\ missed \in [Ids -> Nat]
          /\ unmarked \subseteq Ids /\ raced \subseteq Ids

\* No value, written or about to be, exceeds the records that were counted.
ValueCounted ==
    /\ \A c \in Ids : row[c].value <= counted[c]
    /\ \A s \in Sessions : request[s].at \in {"write", "mark"}
                               => request[s].value <= counted[request[s].id]

\* Who is about to mark a challenge has reached the target.
MarkReached == \A s \in Sessions : At(s, "mark") => Reached(request[s].value)

\* A challenge that was not made yet is as in the beginning.
Unmade == \A c \in Ids : c > made =>
    /\ c \notin live
    /\ row[c].value = 0 /\ ~row[c].completed /\ counted[c] = 0 /\ missed[c] = 0
    /\ \A s \in Sessions : request[s].at # "idle" => request[s].id # c

\* Without a race there is one writer, who has seen the row as it is.
OneWriter == \A c \in live \ raced :
    \/ /\ Writing(c) = {}
       /\ row[c].value + missed[c] = counted[c]
    \/ \E s \in Sessions : /\ Writing(c) = {s}
                           /\ request[s].value = row[c].value + 1
                           /\ row[c].value + missed[c] + 1 = counted[c]

\* Whoever reaches the target marks the challenge, unless it is cut off.
ReachedIsMarked == \A c \in live \ raced :
    Reached(row[c].value) /\ ~row[c].completed
        => c \in unmarked \/ \E s \in Sessions : At(s, "mark") /\ request[s].id = c

EarnedInv == ValueCounted /\ MarkReached /\ RewardEarned
CountInv  == Unmade /\ OneWriter /\ ReachedIsMarked

----------------------------------------------------------------------------
\* The initial state has the types and every part of the invariant.
LEMMA InitHolds == Init => TypeOK /\ EarnedInv /\ CountInv
BY ChallengeAssumption
   DEF ChallengeAssumption, Init, TypeOK, RequestsTyped, RowsTyped, EarnedInv, CountInv,
         ValueCounted, MarkReached, RewardEarned, Unmade, OneWriter, ReachedIsMarked, Ids, Rows, Places, Idle, At, Reached

\* Every step keeps the types.
LEMMA TypeStep == TypeOK /\ [Next]_vars => TypeOK'
<1> SUFFICES ASSUME TypeOK, [Next]_vars PROVE TypeOK'
  OBVIOUS
<1>0. Ids \subseteq Nat
  BY DEF Ids
<1> USE <1>0 DEF TypeOK, RequestsTyped, RowsTyped, Rows, Places, Idle
<1>1. CASE Load
  <2>. USE <1>1, ChallengeAssumption DEF ChallengeAssumption, Ids, Load, history
  <2>1. RequestsTyped' OBVIOUS
  <2>2. RowsTyped' OBVIOUS
  <2>3. /\ counted' \in [Ids -> Nat] /\ missed' \in [Ids -> Nat]
        /\ unmarked' \subseteq Ids /\ raced' \subseteq Ids
    OBVIOUS
  <2> QED BY <2>1, <2>2, <2>3
<1>2. ASSUME NEW s \in Sessions, Write(s) PROVE TypeOK'
  <2>0. request[s].id \in Ids /\ request[s].value \in Nat
    BY <1>2 DEF Write, At
  <2>. USE <2>0, <1>2 DEF Write, At, Become, End, history
  <2>1. RequestsTyped' OBVIOUS
  <2>2. RowsTyped' OBVIOUS
  <2>3. /\ counted' \in [Ids -> Nat] /\ missed' \in [Ids -> Nat]
        /\ unmarked' \subseteq Ids /\ raced' \subseteq Ids
    OBVIOUS
  <2> QED BY <2>1, <2>2, <2>3
<1>3. ASSUME NEW s \in Sessions, Mark(s) PROVE TypeOK'
  <2>0. request[s].id \in Ids /\ request[s].value \in Nat
    BY <1>3 DEF Mark, At
  <2>. USE <2>0, <1>3 DEF Mark, At, End
  <2>1. RequestsTyped' OBVIOUS
  <2>2. RowsTyped' OBVIOUS
  <2>3. /\ counted' \in [Ids -> Nat] /\ missed' \in [Ids -> Nat]
        /\ unmarked' \subseteq Ids /\ raced' \subseteq Ids
    OBVIOUS
  <2> QED BY <2>1, <2>2, <2>3
<1>4. ASSUME NEW s \in Sessions, CutOff(s) PROVE TypeOK'
  <2>0. request[s].id \in Ids /\ request[s].value \in Nat
    BY <1>4 DEF CutOff, At
  <2>. USE <2>0, <1>4 DEF CutOff, At, End
  <2>1. RequestsTyped' OBVIOUS
  <2>2. RowsTyped' OBVIOUS
  <2>3. /\ counted' \in [Ids -> Nat] /\ missed' \in [Ids -> Nat]
        /\ unmarked' \subseteq Ids /\ raced' \subseteq Ids
    <3>1. CASE missed' = missed /\ unmarked' = unmarked \cup {request[s].id}
      BY <3>1
    <3>2. CASE missed' = [missed EXCEPT ![request[s].id] = @ + 1] /\ unmarked' = unmarked
      BY <3>2
    <3> QED BY <3>1, <3>2
  <2> QED BY <2>1, <2>2, <2>3
<1>5. ASSUME NEW s \in Sessions, Claim(s) PROVE TypeOK'
  <2>0. request[s].id \in Ids /\ request[s].value \in Nat
    BY <1>5 DEF Claim, At
  <2>. USE <2>0, <1>5 DEF Claim, At, End, history
  <2>1. RequestsTyped' OBVIOUS
  <2>2. RowsTyped'
    <3>1. CASE ~Claimable(request[s].id) BY <3>1
    <3>2. CASE Claimable(request[s].id)
      <4>1. [row[request[s].id] EXCEPT !.claimed = TRUE] \in Rows OBVIOUS
      <4>2. row' \in [Ids -> Rows] BY <3>2, <4>1
      <4>3. reward' \in [Ids -> Nat] BY <3>2
      <4> QED BY <4>2, <4>3
    <3> QED BY <3>1, <3>2
  <2>3. /\ counted' \in [Ids -> Nat] /\ missed' \in [Ids -> Nat]
        /\ unmarked' \subseteq Ids /\ raced' \subseteq Ids
    OBVIOUS
  <2> QED BY <2>1, <2>2, <2>3
<1>6. ASSUME NEW s \in Sessions, NEW c \in Ids, Look(s, c) PROVE TypeOK'
  <2>. USE <1>6 DEF Look, Become
  <2>1. RequestsTyped' OBVIOUS
  <2>2. RowsTyped' OBVIOUS
  <2>3. /\ counted' \in [Ids -> Nat] /\ missed' \in [Ids -> Nat]
        /\ unmarked' \subseteq Ids /\ raced' \subseteq Ids
    OBVIOUS
  <2> QED BY <2>1, <2>2, <2>3
<1>7. ASSUME NEW s \in Sessions, NEW c \in Ids, Ask(s, c) PROVE TypeOK'
  <2>. USE <1>7 DEF Ask, Become, history
  <2>1. RequestsTyped' OBVIOUS
  <2>2. RowsTyped' OBVIOUS
  <2>3. /\ counted' \in [Ids -> Nat] /\ missed' \in [Ids -> Nat]
        /\ unmarked' \subseteq Ids /\ raced' \subseteq Ids
    OBVIOUS
  <2> QED BY <2>1, <2>2, <2>3
<1>8. ASSUME NEW c \in Ids, Delete(c) PROVE TypeOK'
  <2>. USE <1>8 DEF Delete, history
  <2>1. RequestsTyped' OBVIOUS
  <2>2. RowsTyped' OBVIOUS
  <2>3. /\ counted' \in [Ids -> Nat] /\ missed' \in [Ids -> Nat]
        /\ unmarked' \subseteq Ids /\ raced' \subseteq Ids
    OBVIOUS
  <2> QED BY <2>1, <2>2, <2>3
<1>9. CASE UNCHANGED vars
  BY <1>9 DEF vars
<1> QED
  BY <1>1, <1>2, <1>3, <1>4, <1>5, <1>6, <1>7, <1>8, <1>9 DEF Next, Step

\* Every step keeps what makes a reward earned: values never run ahead of the records counted,
\* and only the flip posts.
LEMMA EarnedStep == TypeOK /\ EarnedInv /\ [Next]_vars => EarnedInv'
<1> SUFFICES ASSUME TypeOK, EarnedInv, [Next]_vars PROVE EarnedInv'
  OBVIOUS
<1> USE DEF TypeOK, RequestsTyped, RowsTyped, EarnedInv, ValueCounted, MarkReached, RewardEarned,
            Rows, Places, Idle, At, Reached
<1>1. CASE Load
  BY <1>1 DEF Load, history
<1>2. ASSUME NEW s \in Sessions, Write(s) PROVE EarnedInv'
  <2>1. request[s].id \in Ids /\ request[s].value \in Nat
    BY <1>2 DEF Write
  <2>2. UNCHANGED <<reward, counted>> BY <1>2 DEF Write, history
  <2>3. \A d \in Ids : /\ row'[d].value \in {row[d].value, request[s].value}
                       /\ row'[d].value = request[s].value => d = request[s].id \/ row'[d] = row[d]
                       /\ row'[d].completed = row[d].completed /\ row'[d].claimed = row[d].claimed
    BY <1>2, <2>1 DEF Write
  <2>4. \A t \in Sessions : \/ request'[t] = request[t]
                            \/ request'[t].at = "idle"
                            \/ /\ request'[t] = [at |-> "mark", id |-> request[s].id, value |-> request[s].value]
                               /\ request[s].value >= Target
    BY <1>2, <2>1 DEF Write, Become, End
  <2> QED BY <1>2, <2>1, <2>2, <2>3, <2>4 DEF Write
<1>3. ASSUME NEW s \in Sessions, Mark(s) PROVE EarnedInv'
  <2>1. request[s].id \in Ids /\ request[s].value \in Nat
    BY <1>3 DEF Mark
  <2>2. UNCHANGED <<reward, counted>> BY <1>3 DEF Mark
  <2>3. \A d \in Ids : /\ row'[d].value = row[d].value /\ row'[d].claimed = row[d].claimed
                       /\ row'[d].completed => row[d].completed \/ d = request[s].id
                       /\ row[d].completed => row'[d].completed
    BY <1>3, <2>1 DEF Mark
  <2>4. request[s].value >= Target /\ request[s].value <= counted[request[s].id]
    BY <1>3 DEF Mark
  <2>5. \A t \in Sessions : request'[t] = request[t] \/ request'[t].at = "idle"
    BY <1>3 DEF Mark, End
  <2> QED BY <2>1, <2>2, <2>3, <2>4, <2>5, ChallengeAssumption DEF ChallengeAssumption
<1>4. ASSUME NEW s \in Sessions, CutOff(s) PROVE EarnedInv'
  <2>1. request[s].id \in Ids /\ request[s].value \in Nat
    BY <1>4 DEF CutOff
  <2> QED BY <1>4, <2>1 DEF CutOff, End
<1>5. ASSUME NEW s \in Sessions, Claim(s) PROVE EarnedInv'
  <2>1. request[s].id \in Ids /\ request[s].value \in Nat
    BY <1>5 DEF Claim
  <2> QED BY <1>5, <2>1 DEF Claim, Claimable, End, history
<1>6. ASSUME NEW s \in Sessions, NEW c \in Ids, Look(s, c) PROVE EarnedInv'
  BY <1>6 DEF Look, Become
<1>7. ASSUME NEW s \in Sessions, NEW c \in Ids, Ask(s, c) PROVE EarnedInv'
  BY <1>7 DEF Ask, Become, history
<1>8. ASSUME NEW c \in Ids, Delete(c) PROVE EarnedInv'
  BY <1>8 DEF Delete, history
<1>9. CASE UNCHANGED vars
  BY <1>9 DEF vars
<1> QED
  BY <1>1, <1>2, <1>3, <1>4, <1>5, <1>6, <1>7, <1>8, <1>9 DEF Next, Step

\* Every step leaves challenges alone that were not made yet.
LEMMA UnmadeStep == TypeOK /\ Unmade /\ [Next]_vars => Unmade'
<1> SUFFICES ASSUME TypeOK, Unmade, [Next]_vars PROVE Unmade'
  OBVIOUS
<1> USE DEF TypeOK, RequestsTyped, RowsTyped, Unmade, Rows, Places, Idle, At
<1>1. CASE Load
  <2>1. made' = made + 1 /\ live' = {made'} /\ UNCHANGED <<row, request, counted, missed>>
    BY <1>1 DEF Load, history
  <2>2. ASSUME NEW c \in Ids, c > made' PROVE c > made /\ c \notin live'
    BY <2>1, <2>2 DEF Ids
  <2> QED BY <2>1, <2>2
<1>2. ASSUME NEW s \in Sessions, Write(s) PROVE Unmade'
  <2>1. request[s].id \in Ids /\ request[s].value \in Nat
    BY <1>2 DEF Write
  <2> QED BY <1>2, <2>1 DEF Write, Become, End, history
<1>3. ASSUME NEW s \in Sessions, Mark(s) PROVE Unmade'
  <2>1. request[s].id \in Ids /\ request[s].value \in Nat
    BY <1>3 DEF Mark
  <2> QED BY <1>3, <2>1 DEF Mark, End
<1>4. ASSUME NEW s \in Sessions, CutOff(s) PROVE Unmade'
  <2>1. request[s].id \in Ids /\ request[s].value \in Nat
    BY <1>4 DEF CutOff
  <2> QED BY <1>4, <2>1 DEF CutOff, End
<1>5. ASSUME NEW s \in Sessions, Claim(s) PROVE Unmade'
  <2>1. request[s].id \in Ids /\ request[s].value \in Nat
    BY <1>5 DEF Claim
  <2> QED BY <1>5, <2>1 DEF Claim, End, history
<1>6. ASSUME NEW s \in Sessions, NEW c \in Ids, Look(s, c) PROVE Unmade'
  BY <1>6 DEF Look, Become
<1>7. ASSUME NEW s \in Sessions, NEW c \in Ids, Ask(s, c) PROVE Unmade'
  BY <1>7 DEF Ask, Become, history
<1>8. ASSUME NEW c \in Ids, Delete(c) PROVE Unmade'
  BY <1>8 DEF Delete, history
<1>9. CASE UNCHANGED vars
  BY <1>9 DEF vars
<1> QED
  BY <1>1, <1>2, <1>3, <1>4, <1>5, <1>6, <1>7, <1>8, <1>9 DEF Next, Step

\* Records that do not overlap at a challenge keep its count; one that overlaps takes the
\* challenge out of the claim.
LEMMA CountStep == TypeOK /\ MarkReached /\ CountInv /\ [Next]_vars => OneWriter' /\ ReachedIsMarked'
<1> SUFFICES ASSUME TypeOK, MarkReached, CountInv, [Next]_vars PROVE OneWriter' /\ ReachedIsMarked'
  OBVIOUS
<1> USE DEF TypeOK, RequestsTyped, RowsTyped, CountInv, Rows, Places, Idle, At
<1> DEFINE Kept == OneWriter' /\ ReachedIsMarked'
<1>1. CASE Load
  <2>1. /\ live = {} /\ live' = {made + 1} /\ made' = made + 1
        /\ UNCHANGED <<row, request, counted, missed, unmarked, raced>>
    BY <1>1 DEF Load, history
  <2>2. made + 1 \in Ids /\ made + 1 > made
    BY <1>1, ChallengeAssumption DEF Load, Ids, ChallengeAssumption
  <2>3. /\ row[made + 1].value = 0 /\ counted[made + 1] = 0 /\ missed[made + 1] = 0
        /\ \A s \in Sessions : request[s].at # "idle" => request[s].id # made + 1
    BY <2>2 DEF Unmade
  <2>4. OneWriter'
    BY <2>1, <2>2, <2>3 DEF OneWriter, Writing
  <2>5. ReachedIsMarked'
    BY <2>1, <2>2, <2>3, ChallengeAssumption DEF ReachedIsMarked, Reached, ChallengeAssumption
  <2> QED BY <2>4, <2>5
<1>2. ASSUME NEW s \in Sessions, Write(s) PROVE Kept
  <2>1. request[s].id \in Ids /\ request[s].value \in Nat /\ request[s].at = "write"
    BY <1>2 DEF Write
  <2>2. UNCHANGED <<live, counted, missed, unmarked, raced>>
    BY <1>2 DEF Write, history
  <2>3. ASSUME NEW d \in live
        PROVE  /\ d # request[s].id => row'[d] = row[d]
               /\ d = request[s].id => row'[d].value = request[s].value
               /\ row'[d].completed = row[d].completed
    BY <1>2, <2>1 DEF Write
  <2>4. /\ \A t \in Sessions \ {s} : request'[t] = request[t]
        /\ request'[s].at # "write"
        /\ Reached(request[s].value) => request'[s].at = "mark" /\ request'[s].id = request[s].id
    BY <1>2, <2>1 DEF Write, Become, End
  <2>5. ASSUME NEW d \in live \ raced
        PROVE  \/ /\ Writing(d)' = {}
                  /\ row'[d].value + missed[d] = counted[d]
               \/ \E t \in Sessions : /\ Writing(d)' = {t}
                                      /\ request'[t].value = row'[d].value + 1
                                      /\ row'[d].value + missed[d] + 1 = counted[d]
    <3>1. CASE d = request[s].id
      <4>1. Writing(d) = {s} /\ request[s].value = row[d].value + 1
            /\ row[d].value + missed[d] + 1 = counted[d]
        BY <2>1, <3>1 DEF OneWriter, Writing
      <4>2. Writing(d)' = {}
        BY <2>4, <4>1 DEF Writing
      <4>3. row'[d].value = row[d].value + 1 /\ row[d].value \in Nat BY <2>3, <3>1, <4>1
      <4>4. missed[d] \in Nat /\ counted[d] \in Nat OBVIOUS
      <4>5. row'[d].value + missed[d] = counted[d] BY <4>1, <4>3, <4>4
      <4> QED BY <4>2, <4>5
    <3>2. CASE d # request[s].id
      <4>1. Writing(d)' = Writing(d)
        BY <2>1, <2>4, <3>2 DEF Writing
      <4>2. row'[d] = row[d] BY <2>3, <3>2
      <4>3. \A t \in Writing(d) : request'[t] = request[t]
        BY <2>4, <3>2 DEF Writing
      <4> QED BY <4>1, <4>2, <4>3 DEF OneWriter
    <3> QED BY <3>1, <3>2
  <2>6. OneWriter' BY <2>2, <2>5 DEF OneWriter
  <2>7. ReachedIsMarked'
    <3>1. ASSUME NEW d \in live \ raced, Reached(row'[d].value), ~row'[d].completed
          PROVE  d \in unmarked \/ \E t \in Sessions : request'[t].at = "mark" /\ request'[t].id = d
      <4>1. CASE d = request[s].id BY <2>3, <2>4, <3>1, <4>1
      <4>2. CASE d # request[s].id
        <5>1. row'[d] = row[d] BY <2>3, <4>2
        <5>2. d \in unmarked \/ \E t \in Sessions : request[t].at = "mark" /\ request[t].id = d
          BY <3>1, <5>1 DEF ReachedIsMarked
        <5> QED BY <2>1, <2>4, <5>2
      <4> QED BY <4>1, <4>2
    <3> QED BY <2>2, <3>1 DEF ReachedIsMarked, Reached
  <2> QED BY <2>6, <2>7
<1>3. ASSUME NEW s \in Sessions, Mark(s) PROVE Kept
  <2>1. /\ request[s].id \in Ids /\ request[s].at = "mark"
        /\ UNCHANGED <<live, counted, missed, raced>> /\ unmarked' = unmarked \ {request[s].id}
    BY <1>3 DEF Mark
  <2>2. ASSUME NEW d \in live
        PROVE  /\ d # request[s].id => row'[d] = row[d]
               /\ d = request[s].id => row'[d].completed
               /\ row'[d].value = row[d].value
    BY <1>3, <2>1 DEF Mark
  <2>3. (\A t \in Sessions \ {s} : request'[t] = request[t]) /\ request'[s].at = "idle"
    BY <1>3, <2>1 DEF Mark, End
  <2>4. \A d \in live : Writing(d)' = Writing(d) /\ \A t \in Writing(d) : request'[t] = request[t]
    BY <2>1, <2>3 DEF Writing
  <2>5. OneWriter' BY <2>1, <2>2, <2>4 DEF OneWriter
  <2>6. ReachedIsMarked' BY <2>1, <2>2, <2>3 DEF ReachedIsMarked, Reached
  <2> QED BY <2>5, <2>6
<1>4. ASSUME NEW s \in Sessions, CutOff(s) PROVE Kept
  <2>1. /\ request[s].id \in Ids /\ request[s].at \in {"write", "mark"}
        /\ UNCHANGED <<live, row, counted, raced>>
    BY <1>4 DEF CutOff
  <2>2. (\A t \in Sessions \ {s} : request'[t] = request[t]) /\ request'[s].at = "idle"
    BY <1>4, <2>1 DEF CutOff, End
  <2>3. CASE request[s].at = "mark"
    <3>1. missed' = missed /\ unmarked' = unmarked \cup {request[s].id} BY <1>4, <2>3 DEF CutOff
    <3>2. \A d \in live : Writing(d)' = Writing(d) /\ \A t \in Writing(d) : request'[t] = request[t]
      BY <2>1, <2>2, <2>3 DEF Writing
    <3>3. OneWriter' BY <2>1, <3>1, <3>2 DEF OneWriter
    <3>4. ReachedIsMarked' BY <2>1, <2>2, <3>1 DEF ReachedIsMarked, Reached
    <3> QED BY <3>3, <3>4
  <2>4. CASE request[s].at = "write"
    <3>1. unmarked' = unmarked /\ missed' = [missed EXCEPT ![request[s].id] = @ + 1]
      BY <1>4, <2>4 DEF CutOff
    <3>2. ASSUME NEW d \in live \ raced
          PROVE  \/ /\ Writing(d)' = {}
                    /\ row[d].value + missed'[d] = counted[d]
                 \/ \E t \in Sessions : /\ Writing(d)' = {t}
                                        /\ request'[t].value = row[d].value + 1
                                        /\ row[d].value + missed'[d] + 1 = counted[d]
      <4>1. CASE d = request[s].id
        <5>1. Writing(d) = {s} /\ row[d].value + missed[d] + 1 = counted[d]
          BY <2>1, <2>4, <4>1 DEF OneWriter, Writing
        <5>2. Writing(d)' = {} BY <2>2, <5>1 DEF Writing
        <5>3. missed'[d] = missed[d] + 1 BY <2>1, <3>1, <4>1
        <5> QED BY <5>1, <5>2, <5>3
      <4>2. CASE d # request[s].id
        <5>1. Writing(d)' = Writing(d) /\ \A t \in Writing(d) : request'[t] = request[t]
          BY <2>2, <4>2 DEF Writing
        <5>2. missed'[d] = missed[d] BY <3>1, <4>2
        <5> QED BY <5>1, <5>2 DEF OneWriter
      <4> QED BY <4>1, <4>2
    <3>3. OneWriter' BY <2>1, <3>2 DEF OneWriter
    <3>4. ReachedIsMarked' BY <2>1, <2>2, <2>4, <3>1 DEF ReachedIsMarked, Reached
    <3> QED BY <3>3, <3>4
  <2> QED BY <2>1, <2>3, <2>4
<1>5. ASSUME NEW s \in Sessions, Claim(s) PROVE Kept
  <2>1. /\ request[s].id \in Ids /\ request[s].at = "claim"
        /\ UNCHANGED <<live, counted, missed, unmarked, raced>>
    BY <1>5 DEF Claim, history
  <2>2. \A d \in Ids : row'[d].value = row[d].value /\ row'[d].completed = row[d].completed
    BY <1>5, <2>1 DEF Claim
  <2>3. (\A t \in Sessions \ {s} : request'[t] = request[t]) /\ request'[s].at = "idle"
    BY <1>5, <2>1 DEF Claim, End
  <2>4. \A d \in live : Writing(d)' = Writing(d) /\ \A t \in Writing(d) : request'[t] = request[t]
    BY <2>1, <2>3 DEF Writing
  <2>5. OneWriter'
    <3>1. ASSUME NEW d \in live \ raced
          PROVE  row'[d].value = row[d].value /\ Writing(d)' = Writing(d)
                 /\ \A t \in Writing(d) : request'[t] = request[t]
      BY <2>2, <2>4
    <3>2. ASSUME NEW d \in live \ raced
          PROVE  \/ /\ Writing(d)' = {}
                    /\ row'[d].value + missed[d] = counted[d]
                 \/ \E t \in Sessions : /\ Writing(d)' = {t}
                                        /\ request'[t].value = row'[d].value + 1
                                        /\ row'[d].value + missed[d] + 1 = counted[d]
      <4>1. CASE Writing(d) = {} BY <3>1, <3>2, <4>1 DEF OneWriter
      <4>2. CASE Writing(d) # {}
        <5>1. PICK t \in Sessions : /\ Writing(d) = {t} /\ request[t].value = row[d].value + 1
                                    /\ row[d].value + missed[d] + 1 = counted[d]
          BY <4>2 DEF OneWriter
        <5> QED BY <3>1, <3>2, <5>1
      <4> QED BY <4>1, <4>2
    <3> QED BY <2>1, <3>2 DEF OneWriter
  <2>6. ReachedIsMarked' BY <2>1, <2>2, <2>3 DEF ReachedIsMarked, Reached
  <2> QED BY <2>5, <2>6
<1>6. ASSUME NEW s \in Sessions, NEW c \in Ids, Look(s, c) PROVE Kept
  <2>1. /\ c \in live /\ request[s].at = "idle"
        /\ UNCHANGED <<live, row, missed, unmarked>>
        /\ counted' = [counted EXCEPT ![c] = @ + 1]
        /\ raced' = IF Writing(c) = {} THEN raced ELSE raced \cup {c}
    BY <1>6 DEF Look
  <2>2. /\ \A t \in Sessions \ {s} : request'[t] = request[t]
        /\ request'[s] = [at |-> "write", id |-> c, value |-> row[c].value + 1]
    BY <1>6 DEF Look, Become
  <2>3. ASSUME NEW d \in live \ raced'
        PROVE  \/ /\ Writing(d)' = {}
                  /\ row[d].value + missed[d] = counted'[d]
               \/ \E t \in Sessions : /\ Writing(d)' = {t}
                                      /\ request'[t].value = row[d].value + 1
                                      /\ row[d].value + missed[d] + 1 = counted'[d]
    <3>1. d \in live \ raced BY <2>1, <2>3
    <3>2. CASE d = c
      <4>1. Writing(d) = {} /\ row[d].value + missed[d] = counted[d]
        BY <2>1, <2>3, <3>1, <3>2 DEF OneWriter
      <4>2. Writing(d)' = {s} BY <2>2, <3>2, <4>1 DEF Writing
      <4>3. counted'[d] = counted[d] + 1 BY <2>1, <3>2
      <4> QED BY <2>2, <3>2, <4>1, <4>2, <4>3
    <3>3. CASE d # c
      <4>0. request'[s].id = c /\ s \notin Writing(d) BY <2>1, <2>2 DEF Writing
      <4>1. Writing(d)' = Writing(d) /\ \A t \in Writing(d) : request'[t] = request[t]
        BY <2>2, <3>3, <4>0 DEF Writing
      <4>2. counted'[d] = counted[d] BY <2>1, <3>3
      <4> QED BY <3>1, <4>1, <4>2 DEF OneWriter
    <3> QED BY <3>2, <3>3
  <2>4. OneWriter' BY <2>1, <2>3 DEF OneWriter
  <2>5. ReachedIsMarked' BY <2>1, <2>2 DEF ReachedIsMarked, Reached
  <2> QED BY <2>4, <2>5
<1>7. ASSUME NEW s \in Sessions, NEW c \in Ids, Ask(s, c) PROVE Kept
  <2>1. request[s].at = "idle" /\ UNCHANGED <<live, row, counted, missed, unmarked, raced>>
    BY <1>7 DEF Ask, history
  <2>2. (\A t \in Sessions \ {s} : request'[t] = request[t]) /\ request'[s].at = "claim"
    BY <1>7 DEF Ask, Become
  <2>3. \A d \in live : Writing(d)' = Writing(d) /\ \A t \in Writing(d) : request'[t] = request[t]
    BY <2>1, <2>2 DEF Writing
  <2>4. OneWriter' BY <2>1, <2>3 DEF OneWriter
  <2>5. ReachedIsMarked' BY <2>1, <2>2 DEF ReachedIsMarked, Reached
  <2> QED BY <2>4, <2>5
<1>8. ASSUME NEW c \in Ids, Delete(c) PROVE Kept
  <2>1. live' = live \ {c} /\ UNCHANGED <<row, request, counted, missed, unmarked, raced>>
    BY <1>8 DEF Delete, history
  <2> QED BY <2>1 DEF OneWriter, Writing, ReachedIsMarked, Reached
<1>9. CASE UNCHANGED vars
  BY <1>9 DEF vars, OneWriter, Writing, ReachedIsMarked, Reached
<1> QED
  BY <1>1, <1>2, <1>3, <1>4, <1>5, <1>6, <1>7, <1>8, <1>9 DEF Next, Step

----------------------------------------------------------------------------
\* The invariant holds in every reachable state.
LEMMA Invariant == Spec => [](TypeOK /\ EarnedInv /\ CountInv)
<1>1. TypeOK /\ EarnedInv /\ CountInv /\ [Next]_vars => (TypeOK /\ EarnedInv /\ CountInv)'
  BY TypeStep, EarnedStep, UnmadeStep, CountStep DEF EarnedInv, CountInv
<1> QED
  BY InitHolds, <1>1, PTL DEF Spec

\* A challenge's reward is posted once at most, and not before as many records of the category
\* were made as its target asks for, for any number of overlapping requests.
THEOREM RewardIsEarned == Spec => []RewardEarned
<1>1. EarnedInv => RewardEarned
  BY DEF EarnedInv
<1> QED
  BY Invariant, <1>1, PTL

\* Every record counts that did not overlap another, and the challenge is completed with the
\* last; what it brings is earned.
THEOREM ChallengeIsPaid == Spec => []ChallengePaid
<1>1. TypeOK /\ CountInv => RecordsCount
  <2> SUFFICES ASSUME TypeOK, CountInv, NEW c \in live \ raced
               PROVE  row[c].value + missed[c] + Cardinality(Writing(c)) = counted[c]
    BY DEF RecordsCount, CountInv, ReachedIsMarked
  <2>1. row[c].value \in Nat /\ missed[c] \in Nat
    BY DEF TypeOK, RowsTyped, Rows
  <2>2. CASE Writing(c) = {}
    <3>1. row[c].value + missed[c] = counted[c] BY <2>2 DEF CountInv, OneWriter
    <3> QED BY <2>1, <2>2, <3>1, FS_EmptySet
  <2>3. CASE Writing(c) # {}
    <3>1. PICK t \in Sessions : Writing(c) = {t} /\ row[c].value + missed[c] + 1 = counted[c]
      BY <2>3 DEF CountInv, OneWriter
    <3>2. Cardinality(Writing(c)) = 1 BY <3>1, FS_Singleton
    <3> QED BY <2>1, <3>1, <3>2
  <2> QED BY <2>2, <2>3
<1>2. TypeOK /\ EarnedInv /\ CountInv => ChallengePaid
  BY <1>1 DEF EarnedInv, ChallengePaid
<1> QED
  BY Invariant, <1>2, PTL

-----------------------------------------------------------------------------
\* Finiteness and cardinality in the instances are those of this module.
LEMMA ListFinite == \A S : List!IsFiniteSet(S) <=> IsFiniteSet(S)
BY DEF List!IsFiniteSet, IsFiniteSet

\* Cardinality in the checklist is that of this module.
LEMMA ListCardinality == \A S : List!Cardinality(S) = Cardinality(S)
BY ListFinite DEF List!Cardinality, Cardinality

----------------------------------------------------------------------------
\* Sums in the checklist are those of SumTheorems.

Entries == [s \in Sessions |-> tick[s].entry]
Posting == {s \in Sessions : tick[s].at = "post"}

EntrySums(T, g) ==
    g = [u \in SUBSET T |-> IF u = {} THEN 0 ELSE tick[First(u)].entry + g[u \ {First(u)}]]

\* The entries to come, and those that were lost, as recursions.
LEMMA ListSumsUnfolded ==
  /\ List!ToCome = (CHOOSE g : EntrySums(Posting, g))[Posting]
  /\ List!Missing = (CHOOSE g : Sums(lost, DOMAIN lost, g))[DOMAIN lost]
BY Zenon DEF List!ToCome, List!Missing, List!MapThenSumSet, List!MapThenFoldSet, EntrySums,
    Posting, Sums,
             First

\* So they are sums.
LEMMA ListSums ==
  ASSUME IsFiniteSet(Sessions)
  PROVE  List!ToCome = SumOf(Entries, Posting) /\ List!Missing = SumOf(lost, DOMAIN lost)
<1> DEFINE T == Posting
           g == CHOOSE gg : EntrySums(T, gg)
           h == CHOOSE gg : Sums(Entries, T, gg)
<1>0. T \in SUBSET Sessions /\ IsFiniteSet(T)
  <2>1. T \in SUBSET Sessions BY DEF Posting
  <2> QED BY <2>1, FS_Subset
<1>1. ASSUME NEW gg PROVE EntrySums(T, gg) <=> Sums(Entries, T, gg)
  <2> DEFINE F == [u \in SUBSET T |-> IF u = {} THEN 0 ELSE Entries[First(u)] + gg[u \ {First(u)}]]
             G == [u \in SUBSET T |-> IF u = {} THEN 0 ELSE tick[First(u)].entry + gg[u \ {First(u)}]]
  <2>1. \A u \in SUBSET T : u # {} => Entries[First(u)] = tick[First(u)].entry
    BY <1>0, FirstIn DEF Entries
  <2>2. F = G
    BY <2>1
  <2> QED BY <2>2 DEF EntrySums, Sums
<1>2. Sums(Entries, T, h)
  BY <1>0, SumsExist
<1>3. Sums(Entries, T, g)
  BY <1>1, <1>2
<1>4. SumOf(Entries, T) = h[T] /\ T \in SUBSET T /\ List!ToCome = g[T]
  BY ListSumsUnfolded DEF SumOf
<1> HIDE DEF g, h, T
<1>5. g[T] = h[T]
  <2>1. \A V \in SUBSET T : (\A x \in V : Entries[x] = Entries[x]) => g[V] = h[V]
    BY <1>0, <1>2, <1>3, SumsUnique
  <2> QED BY <1>4, <2>1
<1> QED BY <1>4, <1>5, ListSumsUnfolded DEF T, SumOf

----------------------------------------------------------------------------
\* The checklist: types, one tick at a time, and the equation.

Tick == [at : {"idle", "write", "post"}, ticked : SUBSET Items, points : Nat, entry : Int]

ListTyped ==
    /\ items \subseteq Items /\ posted \in Int
    /\ log \in [ticked : SUBSET Items, points : Nat]
    /\ tick \in [Sessions -> Tick]
    /\ lost \in Seq(Int)
    /\ crossed \in BOOLEAN /\ shifted \in BOOLEAN

\* Who is about to write is alone and writes what follows from the list as it is.
OneTick == ~crossed => \A s \in Sessions : tick[s].at = "write" =>
    /\ \A t \in Sessions : tick[t].at = "write" => t = s
    /\ tick[s].ticked \subseteq items
    /\ tick[s].points = List!Award(tick[s].ticked) /\ tick[s].entry = List!Entry(tick[s].ticked)

\* The log of a completed list has the points of all its items.
LogIsAward == ~crossed /\ ~shifted /\ List!Complete => log.points = List!Award(items)

\* The ledger agrees with the log.
Agrees == ~crossed /\ ~shifted =>
    posted + SumOf(Entries, Posting) + SumOf(lost, DOMAIN lost)
        = (IF List!Complete THEN log.points ELSE 0)

ListInv == ListTyped /\ OneTick /\ LogIsAward /\ Agrees

\* Points are natural numbers.
LEMMA AwardNat ==
  ASSUME List!ChecklistAssumption, NEW ticks \in SUBSET Items
  PROVE  List!Award(ticks) \in Nat
<1>1. IsFiniteSet(Items) BY ListFinite DEF List!ChecklistAssumption
<1>2. Cardinality(ticks) \in Nat BY <1>1, FS_Subset, FS_CardinalityType
<1>3. \A m, n \in Nat : m * n \in Nat OBVIOUS
<1>4. Cardinality(ticks) * PerItem \in Nat BY <1>2, <1>3 DEF List!ChecklistAssumption
<1> QED BY <1>4, ListCardinality DEF List!Award, List!ChecklistAssumption

----------------------------------------------------------------------------
\* A completed list has all its items ticked and no other.
LEMMA AllTicked ==
  ASSUME NEW ticks, ticks \subseteq items, List!CompletedAll(items, ticks)
  PROVE  ticks = items
BY DEF List!CompletedAll

\* A tick that changes keeps the others, and what they are about to post.
LEMMA ListTypedStep ==
  ASSUME List!ChecklistAssumption, ListTyped, [List!Next]_(List!vars)
  PROVE  ListTyped'
<1> USE DEF ListTyped, Tick
<1>1. ASSUME NEW s \in Sessions, NEW i \in Items, NEW checked \in BOOLEAN, List!Read(s, i, checked)
      PROVE  ListTyped'
  <2> DEFINE ticks == IF checked THEN (log.ticked \cap items) \cup {i}
                                 ELSE (log.ticked \cap items) \ {i}
  <2>1. ticks \in SUBSET Items OBVIOUS
  <2>2. tick' = [tick EXCEPT ![s] = [at |-> "write", ticked |-> ticks,
                                     points |-> List!Award(ticks), entry |-> List!Entry(ticks)]]
    BY <1>1 DEF List!Read
  <2>3. List!Award(ticks) \in Nat BY <2>1, AwardNat
  <2>4. List!Entry(ticks) \in Int BY <2>1, <2>3 DEF List!Entry
  <2> HIDE DEF ticks
  <2>5. tick' \in [Sessions -> Tick] BY <2>1, <2>2, <2>3, <2>4
  <2> QED BY <1>1, <2>5 DEF List!Read
<1>2. ASSUME NEW s \in Sessions, List!Write(s) PROVE ListTyped'
  <2>1. tick[s] \in Tick OBVIOUS
  <2>2. log' \in [ticked : SUBSET Items, points : Nat] BY <1>2, <2>1 DEF List!Write
  <2>3. tick' = [tick EXCEPT ![s].at = "post"] \/ tick' = [tick EXCEPT ![s] = List!Idle]
    BY <1>2 DEF List!Write, List!End
  <2>4. tick' \in [Sessions -> Tick]
    <3>1. CASE tick' = [tick EXCEPT ![s].at = "post"] BY <3>1
    <3>2. CASE tick' = [tick EXCEPT ![s] = List!Idle] BY <3>2 DEF List!Idle
    <3> QED BY <2>3, <3>1, <3>2
  <2> QED BY <1>2, <2>2, <2>4 DEF List!Write
<1>3. ASSUME NEW s \in Sessions, List!Post(s) PROVE ListTyped'
  <2>1. tick[s].entry \in Int OBVIOUS
  <2>2. tick' \in [Sessions -> Tick] BY <1>3 DEF List!Post, List!End, List!Idle
  <2> QED BY <1>3, <2>1, <2>2 DEF List!Post
<1>4. ASSUME NEW s \in Sessions, List!CutOff(s) PROVE ListTyped'
  <2>1. tick[s].entry \in Int OBVIOUS
  <2>2. tick' \in [Sessions -> Tick] BY <1>4 DEF List!CutOff, List!End, List!Idle
  <2>3. lost' = lost \/ lost' = Append(lost, tick[s].entry)
    BY <1>4 DEF List!CutOff
  <2>4. lost' \in Seq(Int)
    <3>1. ASSUME NEW q \in Seq(Int), NEW n \in Int PROVE Append(q, n) \in Seq(Int) OBVIOUS
    <3> QED BY <2>1, <2>3, <3>1
  <2> QED BY <1>4, <2>2, <2>4 DEF List!CutOff
<1>5. ASSUME NEW list \in SUBSET Items, List!Change(list) PROVE ListTyped'
  BY <1>5 DEF List!Change, List!Complete, List!CompletedAll
<1>6. CASE UNCHANGED List!vars
  BY <1>6 DEF List!vars
<1>7. ASSUME NEW i \in Items
      PROVE  items \cup {i} \in SUBSET Items /\ items \ {i} \in SUBSET Items
  OBVIOUS
<1> QED
  <2> HIDE DEF ListTyped
  <2>1. items \subseteq Items BY DEF ListTyped
  <2> QED BY <1>1, <1>2, <1>3, <1>4, <1>5, <1>6, <1>7, <2>1 DEF List!Next, List!Step

\* While nothing crosses, only a read begins a tick, and it is alone.
LEMMA OneTickStep ==
  ASSUME ListTyped, ListTyped', OneTick, [List!Next]_(List!vars)
  PROVE  OneTick'
<1> USE DEF ListTyped, Tick, OneTick
<1>0. ASSUME UNCHANGED <<items, log, crossed>>,
             \A s \in Sessions : tick'[s].at = "write" => tick'[s] = tick[s]
      PROVE  OneTick'
  BY <1>0 DEF List!Award, List!Entry, List!Complete, List!CompletedAll
<1>1. ASSUME NEW s \in Sessions, NEW i \in Items, NEW checked \in BOOLEAN, List!Read(s, i, checked)
      PROVE  OneTick'
  <2> DEFINE ticks == IF checked THEN (log.ticked \cap items) \cup {i}
                                 ELSE (log.ticked \cap items) \ {i}
  <2>1. /\ i \in items /\ UNCHANGED <<items, log>>
        /\ crossed' = (crossed \/ List!Writing # {})
        /\ tick' = [tick EXCEPT ![s] = [at |-> "write", ticked |-> ticks,
                                        points |-> List!Award(ticks), entry |-> List!Entry(ticks)]]
    BY <1>1 DEF List!Read
  <2>2. ticks \subseteq items BY <2>1
  <2>3. List!Award(ticks)' = List!Award(ticks) /\ List!Entry(ticks)' = List!Entry(ticks)
    BY <2>1 DEF List!Award, List!Entry, List!Complete, List!CompletedAll
  <2>4. ~crossed' => \A t \in Sessions : tick'[t].at = "write" => t = s
    BY <2>1 DEF List!Writing
  <2> HIDE DEF ticks
  <2>5. tick'[s] = [at |-> "write", ticked |-> ticks,
                    points |-> List!Award(ticks), entry |-> List!Entry(ticks)]
    BY <2>1
  <2>6. ASSUME ~crossed', NEW t \in Sessions, tick'[t].at = "write"
        PROVE  /\ t = s /\ tick'[t].ticked = ticks /\ items' = items
               /\ tick'[t].points = List!Award(ticks) /\ tick'[t].entry = List!Entry(ticks)
    BY <2>1, <2>4, <2>5, <2>6
  <2>7. ASSUME ~crossed', NEW t \in Sessions, tick'[t].at = "write"
        PROVE  (/\ tick[t].points = List!Award(tick[t].ticked)
                /\ tick[t].entry = List!Entry(tick[t].ticked))'
    <3>1. /\ tick'[t].ticked = ticks /\ items' = items /\ log' = log
          /\ tick'[t].points = List!Award(ticks) /\ tick'[t].entry = List!Entry(ticks)
      BY <2>1, <2>6, <2>7
    <3> QED BY ONLY <3>1 DEF List!Award, List!Entry, List!Complete, List!CompletedAll
  <2> QED BY <2>2, <2>4, <2>6, <2>7
<1>2. ASSUME NEW s \in Sessions, List!Write(s) PROVE OneTick'
  <2>1. crossed' = crossed /\ tick[s].at = "write" /\ \A t \in Sessions : t # s => tick'[t] = tick[t]
    BY <1>2 DEF List!Write, List!End
  <2>2. tick'[s].at # "write" BY <1>2 DEF List!Write, List!End, List!Idle
  <2>3. ~crossed => \A t \in Sessions : tick'[t].at # "write" BY <2>1, <2>2
  <2> QED BY <2>1, <2>3
<1>3. ASSUME NEW s \in Sessions, List!Post(s) \/ List!CutOff(s) PROVE OneTick'
  BY <1>0, <1>3 DEF List!Post, List!CutOff, List!End, List!Idle
<1>4. ASSUME NEW list \in SUBSET Items, List!Change(list) PROVE OneTick'
  BY <1>4 DEF List!Change, List!Writing
<1>5. CASE UNCHANGED List!vars
  BY <1>0, <1>5 DEF List!vars
<1>6. ASSUME NEW i \in Items
      PROVE  items \cup {i} \in SUBSET Items /\ items \ {i} \in SUBSET Items
  OBVIOUS
<1> QED
  <2> HIDE DEF ListTyped, OneTick
  <2>1. items \subseteq Items BY DEF ListTyped
  <2> QED BY <1>1, <1>2, <1>3, <1>4, <1>5, <1>6, <2>1 DEF List!Next, List!Step

\* What a tick writes makes the list complete with the points of all its items; what it is about
\* to post is the difference.
LEMMA TickMakesUp ==
  ASSUME List!ChecklistAssumption, ListTyped, OneTick, LogIsAward, ~crossed, ~shifted,
         NEW s \in Sessions, tick[s].at = "write"
  PROVE  /\ List!CompletedAll(items, tick[s].ticked) => tick[s].points = List!Award(items)
         /\ tick[s].entry = (IF List!CompletedAll(items, tick[s].ticked) THEN tick[s].points ELSE 0)
                            - (IF List!Complete THEN log.points ELSE 0)
<1> DEFINE full == List!CompletedAll(items, tick[s].ticked)
<1>1. /\ tick[s].ticked \subseteq items /\ tick[s].points = List!Award(tick[s].ticked)
      /\ tick[s].entry = List!Entry(tick[s].ticked)
  BY DEF OneTick
<1>2. full => tick[s].ticked = items BY <1>1, AllTicked
<1>3. tick[s].points \in Nat /\ log.points \in Nat /\ tick[s].entry \in Int BY DEF ListTyped, Tick
<1>4. CASE full /\ ~List!Complete
  <2>1. tick[s].entry = List!Award(tick[s].ticked) BY <1>1, <1>4 DEF List!Entry
  <2> QED BY <1>1, <1>2, <1>3, <1>4, <2>1
<1>5. CASE ~full /\ List!Complete
  <2>1. tick[s].entry = -log.points BY <1>1, <1>5 DEF List!Entry
  <2> QED BY <1>3, <1>5, <2>1
<1>6. CASE full /\ List!Complete
  <2>1. tick[s].entry = 0 BY <1>1, <1>6 DEF List!Entry
  <2>2. log.points = List!Award(items) BY <1>6 DEF LogIsAward
  <2> QED BY <1>1, <1>2, <1>3, <1>6, <2>1, <2>2
<1>7. CASE ~full /\ ~List!Complete
  <2>1. tick[s].entry = 0 BY <1>1, <1>7 DEF List!Entry
  <2> QED BY <1>3, <1>7, <2>1
<1> QED BY <1>4, <1>5, <1>6, <1>7

\* Only a written tick and a changed list touch what a completed list was given.
LEMMA AwardStep ==
  ASSUME List!ChecklistAssumption, ListTyped, OneTick, LogIsAward, [List!Next]_(List!vars)
  PROVE  LogIsAward'
<1> USE DEF LogIsAward
<1>1. ASSUME UNCHANGED <<items, log, shifted>>, crossed => crossed' PROVE LogIsAward'
  BY <1>1 DEF List!Complete, List!CompletedAll, List!Award, ListTyped
<1>2. ASSUME NEW s \in Sessions, List!Write(s) PROVE LogIsAward'
  <2>1. /\ tick[s].at = "write" /\ UNCHANGED <<items, crossed, shifted>>
        /\ log' = [ticked |-> tick[s].ticked, points |-> tick[s].points]
    BY <1>2 DEF List!Write
  <2>2. ASSUME ~crossed, ~shifted, List!Complete' PROVE log'.points = List!Award(items)
    <3>1. List!CompletedAll(items, tick[s].ticked)
      BY <2>1, <2>2 DEF List!Complete, List!CompletedAll
    <3> QED BY <2>1, <2>2, <3>1, TickMakesUp
  <2>3. ASSUME ~crossed', ~shifted', List!Complete' PROVE (log.points = List!Award(items))'
    <3>1. log'.points = List!Award(items) BY <2>1, <2>2, <2>3
    <3> QED BY ONLY <2>1, <3>1 DEF List!Award, List!CompletedAll
  <2> QED BY <2>3
<1>3. ASSUME NEW s \in Sessions, NEW i \in Items, NEW checked \in BOOLEAN, List!Read(s, i, checked)
      PROVE  LogIsAward'
  BY <1>1, <1>3 DEF List!Read
<1>4. ASSUME NEW s \in Sessions, List!Post(s) \/ List!CutOff(s) PROVE LogIsAward'
  BY <1>1, <1>4 DEF List!Post, List!CutOff
<1>5. ASSUME NEW list, List!Change(list) PROVE LogIsAward'
  BY <1>5 DEF List!Change, List!Complete
<1>6. CASE UNCHANGED List!vars
  BY <1>1, <1>6 DEF List!vars
<1> QED BY <1>2, <1>3, <1>4, <1>5, <1>6 DEF List!Next, List!Step

\* The entries to come when one tick changes.
LEMMA EntriesChange ==
  ASSUME IsFiniteSet(Sessions), ListTyped, ListTyped', NEW s \in Sessions,
         \A t \in Sessions : t # s => tick'[t] = tick[t]
  PROVE  /\ SumOf(Entries, Posting) \in Int /\ SumOf(Entries, Posting)' \in Int
         /\ SumOf(Entries, Posting)' + (IF s \in Posting THEN tick[s].entry ELSE 0)
              = SumOf(Entries, Posting) + (IF s \in Posting' THEN tick'[s].entry ELSE 0)
<1> DEFINE T == Posting \ {s}
           f == Entries
           g == Entries'
<1>1. /\ IsFiniteSet(T) /\ IsFiniteSet(Posting) /\ IsFiniteSet(Posting') /\ s \notin T
  <2>1. Posting \in SUBSET Sessions /\ Posting' \in SUBSET Sessions /\ T \in SUBSET Sessions
    BY DEF Posting
  <2> QED BY <2>1, FS_Subset
<1>2. Posting = (IF s \in Posting THEN T \cup {s} ELSE T) OBVIOUS
<1>3. Posting' = (IF s \in Posting' THEN T \cup {s} ELSE T) BY DEF Posting
<1>4. \A t \in Sessions : f[t] = tick[t].entry /\ f[t] \in Int /\ g[t] = tick'[t].entry /\ g[t] \in Int
  BY DEF Entries, ListTyped, Tick
<1>5. \A t \in T : f[t] = g[t] BY <1>4 DEF Posting
<1>6. T \subseteq Sessions BY DEF Posting
<1> HIDE DEF T, f, g
<1>7. SumOf(f, T) = SumOf(g, T) BY <1>1, <1>5, SumOfAgrees
<1>8. SumOf(f, T) \in Int BY <1>1, <1>4, <1>6, SumOfIsInt
<1>9. SumOf(f, T \cup {s}) = SumOf(f, T) + f[s]
  <2>1. \A x \in T \cup {s} : f[x] \in Int BY <1>4, <1>6
  <2> QED BY <1>1, <2>1, SumOfAdds
<1>10. SumOf(g, T \cup {s}) = SumOf(g, T) + g[s]
  <2>1. \A x \in T \cup {s} : g[x] \in Int BY <1>4, <1>6
  <2> QED BY <1>1, <2>1, SumOfAdds
<1>11. SumOf(f, Posting) = SumOf(f, T) + (IF s \in Posting THEN f[s] ELSE 0)
  <2>1. CASE s \in Posting BY <1>2, <1>9, <2>1
  <2>2. CASE s \notin Posting BY <1>2, <1>8, <2>2
  <2> QED BY <2>1, <2>2
<1>12. SumOf(g, Posting') = SumOf(f, T) + (IF s \in Posting' THEN g[s] ELSE 0)
  <2>1. CASE s \in Posting' BY <1>3, <1>7, <1>10, <2>1
  <2>2. CASE s \notin Posting' BY <1>3, <1>7, <1>8, <2>2
  <2> QED BY <2>1, <2>2
<1>13. SumOf(Entries, Posting) = SumOf(f, Posting) /\ SumOf(Entries, Posting)' = SumOf(g, Posting')
  BY DEF f, g, SumOf, Sums
<1> QED BY <1>4, <1>8, <1>11, <1>12, <1>13

\* The entries that were lost, with one more.
LEMMA LostGrows ==
  ASSUME NEW q \in Seq(Int), NEW n \in Int
  PROVE  /\ SumOf(q, DOMAIN q) \in Int
         /\ SumOf(Append(q, n), DOMAIN Append(q, n)) = SumOf(q, DOMAIN q) + n
<1> DEFINE r == Append(q, n)
           T == 1 .. Len(q)
<1>1. /\ DOMAIN q = T /\ DOMAIN r = T \cup {Len(q) + 1} /\ Len(q) + 1 \notin T
      /\ r[Len(q) + 1] = n /\ \A i \in T : r[i] = q[i] /\ q[i] \in Int
  OBVIOUS
<1>2. IsFiniteSet(T) BY FS_Interval
<1>3. \A x \in T \cup {Len(q) + 1} : r[x] \in Int BY <1>1
<1> HIDE DEF r, T
<1>4. SumOf(q, T) \in Int BY <1>1, <1>2, SumOfIsInt
<1>5. SumOf(r, T \cup {Len(q) + 1}) = SumOf(r, T) + n BY <1>1, <1>2, <1>3, SumOfAdds
<1>6. SumOf(r, T) = SumOf(q, T) BY <1>1, <1>2, SumOfAgrees
<1> QED BY <1>1, <1>4, <1>5, <1>6 DEF r

\* What moves between the log, the entries to come, the entries lost and the ledger adds up.
LEMMA AgreesStep ==
  ASSUME List!ChecklistAssumption, ListTyped, ListTyped', OneTick, LogIsAward, Agrees,
         [List!Next]_(List!vars)
  PROVE  Agrees'
<1> DEFINE E == SumOf(Entries, Posting)
           L == SumOf(lost, DOMAIN lost)
           P == IF List!Complete THEN log.points ELSE 0
<1>0. IsFiniteSet(Sessions) BY ListFinite DEF List!ChecklistAssumption
<1>1. L \in Int BY LostGrows DEF ListTyped
<1>2. posted \in Int /\ P \in Int BY DEF ListTyped
<1>3. Agrees <=> (~crossed /\ ~shifted => posted + E + L = P) BY DEF Agrees
<1>4. Agrees' <=> (~crossed' /\ ~shifted' => posted' + E' + L' = P') BY DEF Agrees
<1>5. ASSUME lost' = lost PROVE L' = L BY <1>5 DEF SumOf, Sums
<1>6. ASSUME NEW s \in Sessions, \A t \in Sessions : t # s => tick'[t] = tick[t]
      PROVE  /\ E \in Int /\ E' \in Int
             /\ E' + (IF s \in Posting THEN tick[s].entry ELSE 0)
                  = E + (IF s \in Posting' THEN tick'[s].entry ELSE 0)
  BY <1>0, <1>6, EntriesChange
<1>7. ASSUME UNCHANGED <<items, log>> PROVE P' = P BY <1>7 DEF List!Complete, List!CompletedAll
<1>8. \A s \in Sessions : tick[s].entry \in Int /\ tick'[s].entry \in Int BY DEF ListTyped, Tick
<1> HIDE DEF E, L, P
<1>a. ASSUME NEW s \in Sessions, NEW i \in Items, NEW checked \in BOOLEAN, List!Read(s, i, checked)
      PROVE  Agrees'
  <2>1. /\ \A t \in Sessions : t # s => tick'[t] = tick[t]
        /\ tick[s].at = "idle" /\ tick'[s].at = "write"
        /\ UNCHANGED <<items, log, posted, lost, shifted>> /\ (crossed => crossed')
    BY <1>a DEF List!Read, ListTyped
  <2>2. s \notin Posting /\ s \notin Posting' BY <2>1 DEF Posting
  <2>3. E' = E BY <1>6, <2>1, <2>2
  <2> QED BY <1>3, <1>4, <1>5, <1>7, <2>1, <2>3
<1>b. ASSUME NEW s \in Sessions, List!Write(s) PROVE Agrees'
  <2>1. /\ \A t \in Sessions : t # s => tick'[t] = tick[t]
        /\ tick[s].at = "write" /\ UNCHANGED <<items, posted, lost, crossed, shifted>>
        /\ log' = [ticked |-> tick[s].ticked, points |-> tick[s].points]
        /\ IF tick[s].entry # 0 THEN tick'[s].at = "post" /\ tick'[s].entry = tick[s].entry
                                ELSE tick'[s].at = "idle"
    BY <1>b DEF List!Write, List!End, List!Idle, ListTyped, Tick
  <2>2. s \notin Posting /\ (s \in Posting' <=> tick[s].entry # 0) BY <2>1 DEF Posting
  <2>3. E' = E + tick[s].entry
    BY <1>6, <1>8, <2>1, <2>2
  <2>4. P' = (IF List!CompletedAll(items, tick[s].ticked) THEN tick[s].points ELSE 0)
    BY <2>1 DEF P, List!Complete, List!CompletedAll
  <2>5. ASSUME ~crossed, ~shifted PROVE tick[s].entry = P' - P /\ P' \in Int
    <3>1. tick[s].entry = (IF List!CompletedAll(items, tick[s].ticked) THEN tick[s].points ELSE 0)
                            - (IF List!Complete THEN log.points ELSE 0)
      BY <2>1, <2>5, TickMakesUp
    <3>2. tick[s].points \in Int BY DEF ListTyped, Tick
    <3> QED BY <2>4, <3>1, <3>2 DEF P
  <2>6. E \in Int BY <1>6, <2>1
  <2>7. L' = L BY <1>5, <2>1
  <2> QED BY <1>1, <1>2, <1>3, <1>4, <2>1, <2>3, <2>5, <2>6, <2>7
<1>c. ASSUME NEW s \in Sessions, List!Post(s) PROVE Agrees'
  <2>1. /\ \A t \in Sessions : t # s => tick'[t] = tick[t]
        /\ tick[s].at = "post" /\ tick'[s].at = "idle"
        /\ UNCHANGED <<items, log, lost, crossed, shifted>> /\ posted' = posted + tick[s].entry
    BY <1>c DEF List!Post, List!End, List!Idle, ListTyped
  <2>2. s \in Posting /\ s \notin Posting' BY <2>1 DEF Posting
  <2>3. E' + tick[s].entry = E /\ E \in Int /\ E' \in Int BY <1>6, <2>1, <2>2
  <2>4. L' = L /\ P' = P BY <1>5, <1>7, <2>1
  <2> QED BY <1>1, <1>2, <1>3, <1>4, <1>8, <2>1, <2>3, <2>4
<1>d. ASSUME NEW s \in Sessions, List!CutOff(s) PROVE Agrees'
  <2>1. /\ \A t \in Sessions : t # s => tick'[t] = tick[t]
        /\ tick'[s].at = "idle"
        /\ UNCHANGED <<items, log, posted, crossed, shifted>>
    BY <1>d DEF List!CutOff, List!End, List!Idle, ListTyped
  <2>2. s \notin Posting' BY <2>1 DEF Posting
  <2>3. P' = P BY <1>7, <2>1
  <2>4. CASE tick[s].at = "write"
    <3>1. lost' = lost /\ s \notin Posting BY <1>d, <2>4 DEF List!CutOff, Posting
    <3>2. E' = E BY <1>6, <2>1, <2>2, <3>1
    <3> QED BY <1>3, <1>4, <1>5, <2>1, <2>3, <3>1, <3>2
  <2>5. CASE tick[s].at = "post"
    <3>1. lost' = Append(lost, tick[s].entry) /\ s \in Posting
      BY <1>d, <2>5 DEF List!CutOff, Posting
    <3>2. E' + tick[s].entry = E /\ E \in Int /\ E' \in Int BY <1>6, <2>1, <2>2, <3>1
    <3>3. L' = L + tick[s].entry
      <4>1. SumOf(Append(lost, tick[s].entry), DOMAIN Append(lost, tick[s].entry))
              = SumOf(lost, DOMAIN lost) + tick[s].entry
        BY <1>8, LostGrows DEF ListTyped
      <4>2. L' = SumOf(lost', DOMAIN lost') BY DEF L, SumOf, Sums
      <4> QED BY <3>1, <4>1, <4>2 DEF L
    <3> QED BY <1>1, <1>2, <1>3, <1>4, <1>8, <2>1, <2>3, <3>2, <3>3
  <2> QED BY <1>d, <2>4, <2>5 DEF List!CutOff
<1>e. ASSUME NEW list, List!Change(list) PROVE Agrees'
  <2>1. UNCHANGED <<log, posted, tick, lost>> BY <1>e DEF List!Change
  <2>2. E' = E BY <2>1 DEF E, Entries, Posting, SumOf, Sums
  <2>3. ASSUME ~crossed', ~shifted' PROVE ~crossed /\ ~shifted /\ P = 0 /\ P' = 0
    BY <1>e, <2>1, <2>3 DEF List!Change, P, List!Complete, List!CompletedAll
  <2> QED BY <1>3, <1>4, <1>5, <2>1, <2>2, <2>3
<1>f. CASE UNCHANGED List!vars
  <2>1. UNCHANGED <<items, log, posted, tick, lost, crossed, shifted>> BY <1>f DEF List!vars
  <2>2. E' = E BY <2>1 DEF E, Entries, Posting, SumOf, Sums
  <2> QED BY <1>3, <1>4, <1>5, <1>7, <2>1, <2>2
<1> QED BY <1>a, <1>b, <1>c, <1>d, <1>e, <1>f DEF List!Next, List!Step

\* In the morning nothing is ticked, so nothing was paid.
LEMMA ListStarts ==
  ASSUME List!ChecklistAssumption, List!Init
  PROVE  ListInv
<1>1. ListTyped /\ OneTick
  <2>1. tick \in [Sessions -> Tick] BY DEF List!Init, List!Idle, Tick
  <2>2. lost \in Seq(Int) BY DEF List!Init
  <2>3. items \subseteq Items BY DEF List!ChecklistAssumption, List!Init
  <2>5. log \in [ticked : SUBSET Items, points : Nat] BY DEF List!Init
  <2>6. posted \in Int BY DEF List!Init
  <2>7. crossed \in BOOLEAN /\ shifted \in BOOLEAN BY Zenon DEF List!Init
  <2>4. OneTick BY DEF List!Init, List!Idle, OneTick
  <2> QED BY <2>1, <2>2, <2>3, <2>4, <2>5, <2>6, <2>7 DEF ListTyped
<1>2. ~List!Complete BY DEF List!Init, List!Complete, List!CompletedAll
<1>3. Posting = {} /\ DOMAIN lost = {} /\ posted = 0 BY DEF List!Init, List!Idle, Posting
<1>4. Agrees BY <1>2, <1>3, SumOfEmpty DEF Agrees
<1> QED BY <1>1, <1>2, <1>4 DEF ListInv, LogIsAward

\* The ledger agrees with the checklist log while ticks do not cross and no completed list is
\* changed, whatever is cut off, for any list, any points and any number of requests.
THEOREM ChecklistIsPaid == List!Spec => []ChecklistPaid
<1>1. List!Init => ListInv BY DailyAssumption, ListStarts
<1>2. ListInv /\ [List!Next]_(List!vars) => ListInv'
  <2> SUFFICES ASSUME ListInv, [List!Next]_(List!vars) PROVE ListInv'
    OBVIOUS
  <2>1. ListTyped' BY DailyAssumption, ListTypedStep DEF ListInv
  <2>2. OneTick' BY <2>1, OneTickStep DEF ListInv
  <2>3. LogIsAward' BY DailyAssumption, AwardStep DEF ListInv
  <2>4. Agrees' BY <2>1, DailyAssumption, AgreesStep DEF ListInv
  <2> QED BY <2>1, <2>2, <2>3, <2>4 DEF ListInv
<1>3. ListInv => ChecklistPaid
  <2>1. List!ToCome = SumOf(Entries, Posting) /\ List!Missing = SumOf(lost, DOMAIN lost)
    BY DailyAssumption, ListFinite, ListSums DEF List!ChecklistAssumption
  <2> QED BY <2>1 DEF ListInv, Agrees, ChecklistPaid, List!ChecklistPaid
<1> QED BY <1>1, <1>2, <1>3, PTL DEF List!Spec

----------------------------------------------------------------------------
(***************************************************************************)
(* The level table: it rises, so each count lies between two entries and   *)
(* has the level of the lower one.                                         *)
(***************************************************************************)
LEMMA TableIndex == \A i \in 1 .. 40 :
    \/ i = 1 \/ i = 2 \/ i = 3 \/ i = 4 \/ i = 5 \/ i = 6 \/ i = 7 \/ i = 8 \/ i = 9 \/ i = 10
    \/ i = 11 \/ i = 12 \/ i = 13 \/ i = 14 \/ i = 15 \/ i = 16 \/ i = 17 \/ i = 18 \/ i = 19 \/ i = 20
    \/ i = 21 \/ i = 22 \/ i = 23 \/ i = 24 \/ i = 25 \/ i = 26 \/ i = 27 \/ i = 28 \/ i = 29 \/ i = 30
    \/ i = 31 \/ i = 32 \/ i = 33 \/ i = 34 \/ i = 35 \/ i = 36 \/ i = 37 \/ i = 38 \/ i = 39 \/ i = 40
OBVIOUS

\* The counts of the table.
LEMMA TableTyped ==
  /\ DOMAIN Skill!MinCounts = 1 .. 40
  /\ \A i \in 1 .. 40 : Skill!MinCounts[i] \in Nat /\ Skill!MinCounts[i] < 9999
  /\ Skill!MinCounts[1] = 0
BY TableIndex DEF Skill!MinCounts

\* They rise.
LEMMA TableRises ==
  \A i \in 1 .. 40, j \in 1 .. 40 : i < j => Skill!MinCounts[i] < Skill!MinCounts[j]
BY TableIndex DEF Skill!MinCounts

\* The count c lies between entry n and the next one.
Between(c, n) == /\ Skill!MinCounts[n] <= c
                 /\ n < 40 => c < Skill!MinCounts[n + 1]
                 /\ c < 9999

\* It always does, unless it has passed them all.
LEMMA SomewhereBetween ==
  ASSUME NEW c \in Nat, c < 9999
  PROVE  \E n \in 1 .. 40 : Between(c, n)
<1> DEFINE m == Skill!MinCounts
<1>1. CASE \E n \in 1 .. 39 : m[n] <= c /\ c < m[n + 1]
  <2>1. PICK n \in 1 .. 39 : m[n] <= c /\ c < m[n + 1] BY <1>1
  <2> QED BY <2>1 DEF Between
<1>2. CASE \A n \in 1 .. 39 : m[n] <= c => m[n + 1] <= c
  <2>1. m[1] <= c BY TableTyped
  <2>2. m[40] <= c BY <1>2, <2>1, TableTyped, TableIndex
  <2> QED BY <2>2 DEF Between
<1> QED BY <1>1, <1>2, TableTyped

\* The levels of the entries a count has reached.
Levels(c) == {1} \cup {e.level : e \in {t \in Skill!MasteryLevelTable : c >= t.minCount}}

\* They are the numbers of those entries, and the cap.
LEMMA LevelsAre ==
  ASSUME NEW c \in Nat
  PROVE  Levels(c) = {1} \cup {n \in 1 .. 40 : Skill!MinCounts[n] <= c}
                         \cup (IF c >= 9999 THEN {99} ELSE {})
<1> DEFINE R == {n \in 1 .. 40 : Skill!MinCounts[n] <= c} \cup (IF c >= 9999 THEN {99} ELSE {})
           T == {t \in Skill!MasteryLevelTable : c >= t.minCount}
<1>1. Skill!MasteryLevelTable = {[minCount |-> Skill!MinCounts[n], level |-> n] : n \in 1 .. 40}
                                    \cup {[minCount |-> 9999, level |-> 99]}
  BY TableTyped DEF Skill!MasteryLevelTable
<1>2. ASSUME NEW e \in T PROVE e.level \in R
  <2>1. CASE e = [minCount |-> 9999, level |-> 99] BY <2>1
  <2>2. ASSUME NEW n \in 1 .. 40, e = [minCount |-> Skill!MinCounts[n], level |-> n]
        PROVE  e.level \in R
    BY <2>2, TableTyped
  <2> QED BY <1>1, <2>1, <2>2
<1>3. ASSUME NEW n \in R PROVE \E e \in T : e.level = n
  <2>1. CASE n \in 1 .. 40 /\ Skill!MinCounts[n] <= c
    <3> DEFINE e == [minCount |-> Skill!MinCounts[n], level |-> n]
    <3>1. e \in T /\ e.level = n BY <1>1, <2>1
    <3> QED BY <3>1
  <2>2. CASE n = 99 /\ c >= 9999
    <3> DEFINE e == [minCount |-> 9999, level |-> 99]
    <3>1. e \in T /\ e.level = n BY <1>1, <2>2
    <3> QED BY <3>1
  <2> QED BY <2>1, <2>2
<1> HIDE DEF R, T
<1>4. {e.level : e \in T} = R BY <1>2, <1>3
<1> QED BY <1>4 DEF Levels, R, T

\* A greatest member is the maximum.
LEMMA MaxIs ==
  ASSUME NEW S \in SUBSET Int, NEW n \in S, \A k \in S : n >= k
  PROVE  Skill!Max(S) = n
<1>1. \E x \in S : \A k \in S : x >= k OBVIOUS
<1> DEFINE m == Skill!Max(S)
<1>2. m \in S /\ \A k \in S : m >= k BY <1>1, Zenon DEF Skill!Max
<1> HIDE DEF m
<1>3. m \in Int /\ n \in Int /\ m >= n /\ n >= m BY <1>2
<1>4. m = n BY <1>3
<1> QED BY <1>4 DEF m

\* The level between two entries is that of the lower one.
LEMMA LevelIs ==
  ASSUME NEW c \in Nat, NEW n \in 1 .. 40, Between(c, n)
  PROVE  Skill!calcMasteryLevel(c) = n
<1>1. Levels(c) = {1} \cup {k \in 1 .. 40 : Skill!MinCounts[k] <= c} BY LevelsAre DEF Between
<1>2. \A k \in 1 .. 40 : k > n => Skill!MinCounts[k] > c
  <2> SUFFICES ASSUME NEW k \in 1 .. 40, k > n PROVE Skill!MinCounts[k] > c OBVIOUS
  <2>1. n < 40 /\ n + 1 \in 1 .. 40 /\ (n + 1 = k \/ n + 1 < k) OBVIOUS
  <2>2. Skill!MinCounts[n + 1] <= Skill!MinCounts[k] BY <2>1, TableRises, TableTyped
  <2> QED BY <2>1, <2>2, TableTyped DEF Between
<1>3. n \in Levels(c) /\ Levels(c) \in SUBSET Int BY <1>1 DEF Between
<1>4. \A k \in Levels(c) : n >= k BY <1>1, <1>2, TableTyped
<1>5. Skill!Max(Levels(c)) = n BY <1>3, <1>4, MaxIs
<1> QED BY <1>5 DEF Skill!calcMasteryLevel, Levels

\* The cap.
LEMMA LevelAtCap == ASSUME NEW c \in Nat, c >= 9999 PROVE Skill!calcMasteryLevel(c) = 99
<1>1. 99 \in Levels(c) /\ Levels(c) \in SUBSET Int /\ \A k \in Levels(c) : 99 >= k BY LevelsAre
<1>2. Skill!Max(Levels(c)) = 99 BY <1>1, MaxIs
<1> QED BY <1>2 DEF Skill!calcMasteryLevel, Levels

\* Bonuses are natural numbers.
LEMMA BonusNat ==
  ASSUME NEW c \in Nat
  PROVE  Skill!calcMasteryBonus(Skill!calcMasteryLevel(c)) \in Nat
<1>1. CASE c >= 9999 BY <1>1, LevelAtCap DEF Skill!calcMasteryBonus
<1>2. CASE c < 9999
  <2>1. PICK n \in 1 .. 40 : Between(c, n) BY <1>2, SomewhereBetween
  <2>2. Skill!calcMasteryLevel(c) = n BY <2>1, LevelIs
  <2> QED BY <2>2 DEF Skill!calcMasteryBonus
<1> QED BY <1>1, <1>2

----------------------------------------------------------------------------
\* The announced number of records.

\* The entries that follow level n.
LEMMA NextEntry ==
  ASSUME NEW n \in 1 .. 40
  PROVE  {t \in Skill!MasteryLevelTable : t.level = n + 1}
           = (IF n < 40 THEN {[minCount |-> Skill!MinCounts[n + 1], level |-> n + 1]} ELSE {})
BY TableTyped DEF Skill!MasteryLevelTable

\* None follows the cap.
LEMMA NoEntryAfterCap == {t \in Skill!MasteryLevelTable : t.level = 99 + 1} = {}
BY TableTyped DEF Skill!MasteryLevelTable

\* It leads to the next entry of the table, if there is one.
LEMMA ToNextIs ==
  ASSUME NEW c \in Nat, NEW n \in 1 .. 40, Between(c, n)
  PROVE  Skill!countToNextMasteryLevel(c) = IF n < 40 THEN Skill!MinCounts[n + 1] - c ELSE 0
<1>1. Skill!calcMasteryLevel(c) = n BY LevelIs
<1>2. CASE n < 40
  <2> DEFINE next == {t \in Skill!MasteryLevelTable : t.level = n + 1}
  <2>1. next = {[minCount |-> Skill!MinCounts[n + 1], level |-> n + 1]} BY <1>2, NextEntry
  <2>2. (CHOOSE t \in next : TRUE).minCount = Skill!MinCounts[n + 1] /\ next # {}
    <3> HIDE DEF next
    <3>1. next # {} /\ (CHOOSE t \in next : TRUE) \in next BY <2>1
    <3> QED BY <2>1, <3>1
  <2> HIDE DEF next
  <2>3. Skill!countToNextMasteryLevel(c)
          = IF next = {} THEN 0 ELSE (CHOOSE t \in next : TRUE).minCount - c
    BY <1>1 DEF Skill!countToNextMasteryLevel, next
  <2> QED BY <1>2, <2>2, <2>3
<1>3. CASE ~(n < 40)
  BY <1>1, <1>3, NextEntry DEF Skill!countToNextMasteryLevel
<1> QED BY <1>2, <1>3

\* At the cap the announced number is 0.
LEMMA ToNextAtCap == ASSUME NEW c \in Nat, c >= 9999 PROVE Skill!countToNextMasteryLevel(c) = 0
BY LevelAtCap, NoEntryAfterCap DEF Skill!countToNextMasteryLevel

\* As many records as announced reach the next level, and one less does not, at any count.
LEMMA AnnouncedIsExact ==
  ASSUME count \in Nat
  PROVE  NextLevelIsReached
<1>1. CASE count >= 9999
  BY <1>1, ToNextAtCap DEF NextLevelIsReached, Skill!NextLevelIsReached
<1>2. CASE count < 9999
  <2>1. PICK n \in 1 .. 40 : Between(count, n) BY <1>2, SomewhereBetween
  <2>2. CASE n = 40
    BY <2>1, <2>2, ToNextIs DEF NextLevelIsReached, Skill!NextLevelIsReached
  <2>3. CASE n < 40
    <3> DEFINE m == Skill!MinCounts[n + 1]
    <3>1. Skill!countToNextMasteryLevel(count) = m - count BY <2>1, <2>3, ToNextIs
    <3>2. m \in Nat /\ count < m /\ m < 9999 /\ n + 1 \in 1 .. 40
      BY <2>1, <2>3, TableTyped DEF Between
    <3>3. Between(m, n + 1) BY <2>3, <3>2, TableRises DEF Between
    <3>4. Between(m - 1, n) /\ m - 1 \in Nat BY <2>1, <2>3, <3>2, TableTyped DEF Between
    <3>5. /\ Skill!calcMasteryLevel(m) = n + 1 /\ Skill!calcMasteryLevel(m - 1) = n
          /\ Skill!calcMasteryLevel(count) = n
      BY <2>1, <3>2, <3>3, <3>4, LevelIs
    <3> HIDE DEF m
    <3>6. count + (m - count) = m BY <3>2
    <3> QED BY <3>1, <3>2, <3>5, <3>6 DEF NextLevelIsReached, Skill!NextLevelIsReached
  <2> QED BY <2>2, <2>3
<1> QED BY <1>1, <1>2

----------------------------------------------------------------------------
(***************************************************************************)
(* The step functions with which the point transactions pay and refund.    *)
(***************************************************************************)
Passed(c) == {s \in Db!BonusSteps : s <= c}

\* How many steps lie below each of them.
LEMMA FirstSteps ==
  /\ Cardinality({}) = 0 /\ Cardinality({30}) = 1 /\ Cardinality({30, 170}) = 2
  /\ Cardinality({30, 170, 520}) = 3 /\ Cardinality({30, 170, 520, 1120}) = 4
  /\ Cardinality({30, 170, 520, 1120, 2080}) = 5
  /\ Cardinality({30, 170, 520, 1120, 2080, 3570}) = 6
  /\ Cardinality({30, 170, 520, 1120, 2080, 3570, 5770}) = 7
  /\ Cardinality({30, 170, 520, 1120, 2080, 3570, 5770, 8720}) = 8
<1>1. ASSUME NEW S, IsFiniteSet(S), NEW e, e \notin S
      PROVE  IsFiniteSet(S \cup {e}) /\ Cardinality(S \cup {e}) = Cardinality(S) + 1
  BY <1>1, FS_AddElement
<1>2. IsFiniteSet({}) /\ Cardinality({}) = 0 BY FS_EmptySet
<1>3. IsFiniteSet({30}) /\ Cardinality({30}) = 1 BY FS_Singleton
<1>4. IsFiniteSet({30, 170}) /\ Cardinality({30, 170}) = 2
  <2>1. {30, 170} = {30} \cup {170} /\ 170 \notin {30} OBVIOUS
  <2> QED BY <1>1, <1>3, <2>1
<1>5. IsFiniteSet({30, 170, 520}) /\ Cardinality({30, 170, 520}) = 3
  <2>1. {30, 170, 520} = {30, 170} \cup {520} /\ 520 \notin {30, 170} OBVIOUS
  <2> QED BY <1>1, <1>4, <2>1
<1>6. IsFiniteSet({30, 170, 520, 1120}) /\ Cardinality({30, 170, 520, 1120}) = 4
  <2>1. {30, 170, 520, 1120} = {30, 170, 520} \cup {1120} /\ 1120 \notin {30, 170, 520} OBVIOUS
  <2> QED BY <1>1, <1>5, <2>1
<1>7. /\ IsFiniteSet({30, 170, 520, 1120, 2080})
      /\ Cardinality({30, 170, 520, 1120, 2080}) = 5
  <2>1. /\ {30, 170, 520, 1120, 2080} = {30, 170, 520, 1120} \cup {2080}
        /\ 2080 \notin {30, 170, 520, 1120}
    OBVIOUS
  <2> QED BY <1>1, <1>6, <2>1
<1>8. /\ IsFiniteSet({30, 170, 520, 1120, 2080, 3570})
      /\ Cardinality({30, 170, 520, 1120, 2080, 3570}) = 6
  <2>1. /\ {30, 170, 520, 1120, 2080, 3570} = {30, 170, 520, 1120, 2080} \cup {3570}
        /\ 3570 \notin {30, 170, 520, 1120, 2080}
    OBVIOUS
  <2> QED BY <1>1, <1>7, <2>1
<1>9. /\ IsFiniteSet({30, 170, 520, 1120, 2080, 3570, 5770})
      /\ Cardinality({30, 170, 520, 1120, 2080, 3570, 5770}) = 7
  <2>1. /\ {30, 170, 520, 1120, 2080, 3570, 5770}
              = {30, 170, 520, 1120, 2080, 3570} \cup {5770}
        /\ 5770 \notin {30, 170, 520, 1120, 2080, 3570}
    OBVIOUS
  <2> QED BY <1>1, <1>8, <2>1
<1>10. Cardinality({30, 170, 520, 1120, 2080, 3570, 5770, 8720}) = 8
  <2>1. /\ {30, 170, 520, 1120, 2080, 3570, 5770, 8720}
              = {30, 170, 520, 1120, 2080, 3570, 5770} \cup {8720}
        /\ 8720 \notin {30, 170, 520, 1120, 2080, 3570, 5770}
    OBVIOUS
  <2> QED BY <1>1, <1>9, <2>1
<1> QED BY <1>2, <1>3, <1>4, <1>5, <1>6, <1>7, <1>8, <1>9, <1>10

\* A level n is n div 5 steps high.
LEMMA StepsPassed ==
  ASSUME NEW c \in Nat, NEW n \in 1 .. 40, Between(c, n)
  PROVE  Cardinality(Passed(c)) = n \div 5
<1>0. /\ Skill!MinCounts[5] = 30 /\ Skill!MinCounts[10] = 170 /\ Skill!MinCounts[15] = 520
      /\ Skill!MinCounts[20] = 1120 /\ Skill!MinCounts[25] = 2080 /\ Skill!MinCounts[30] = 3570
      /\ Skill!MinCounts[35] = 5770 /\ Skill!MinCounts[40] = 8720
  BY DEF Skill!MinCounts
<1>1. ASSUME NEW k \in 1 .. 40 PROVE Skill!MinCounts[k] <= c <=> k <= n
  <2>1. CASE k <= n
    <3>1. k = n \/ Skill!MinCounts[k] < Skill!MinCounts[n] BY <2>1, TableRises
    <3> QED BY <2>1, <3>1, TableTyped DEF Between
  <2>2. CASE n < k
    <3>1. n < 40 /\ n + 1 \in 1 .. 40 BY <2>2
    <3>2. n + 1 = k \/ Skill!MinCounts[n + 1] < Skill!MinCounts[k] BY <2>2, <3>1, TableRises
    <3> QED BY <2>2, <3>1, <3>2, TableTyped DEF Between
  <2> QED BY <2>1, <2>2
<1>2. /\ 30 <= c <=> 5 <= n
      /\ 170 <= c <=> 10 <= n
      /\ 520 <= c <=> 15 <= n
      /\ 1120 <= c <=> 20 <= n
      /\ 2080 <= c <=> 25 <= n
      /\ 3570 <= c <=> 30 <= n
      /\ 5770 <= c <=> 35 <= n
      /\ 8720 <= c <=> 40 <= n
  <2>1. /\ 5 \in 1 .. 40 /\ 10 \in 1 .. 40 /\ 15 \in 1 .. 40 /\ 20 \in 1 .. 40
        /\ 25 \in 1 .. 40 /\ 30 \in 1 .. 40 /\ 35 \in 1 .. 40 /\ 40 \in 1 .. 40
    OBVIOUS
  <2> QED BY <1>0, <1>1, <2>1
<1>3. Passed(c) = {s \in {30, 170, 520, 1120, 2080, 3570, 5770, 8720} : s <= c}
  BY DEF Passed, Db!BonusSteps
<1>4. CASE n < 5
  <2>1. Passed(c) = {} BY <1>2, <1>3, <1>4
  <2> QED BY <1>4, <2>1, FirstSteps
<1>5. CASE 5 <= n /\ n < 10
  <2>1. Passed(c) = {30} BY <1>2, <1>3, <1>5
  <2> QED BY <1>5, <2>1, FirstSteps
<1>6. CASE 10 <= n /\ n < 15
  <2>1. Passed(c) = {30, 170} BY <1>2, <1>3, <1>6
  <2> QED BY <1>6, <2>1, FirstSteps
<1>7. CASE 15 <= n /\ n < 20
  <2>1. Passed(c) = {30, 170, 520} BY <1>2, <1>3, <1>7
  <2> QED BY <1>7, <2>1, FirstSteps
<1>8. CASE 20 <= n /\ n < 25
  <2>1. Passed(c) = {30, 170, 520, 1120} BY <1>2, <1>3, <1>8
  <2> QED BY <1>8, <2>1, FirstSteps
<1>9. CASE 25 <= n /\ n < 30
  <2>1. Passed(c) = {30, 170, 520, 1120, 2080} BY <1>2, <1>3, <1>9
  <2> QED BY <1>9, <2>1, FirstSteps
<1>10. CASE 30 <= n /\ n < 35
  <2>1. Passed(c) = {30, 170, 520, 1120, 2080, 3570} BY <1>2, <1>3, <1>10
  <2> QED BY <1>10, <2>1, FirstSteps
<1>11. CASE 35 <= n /\ n < 40
  <2>1. Passed(c) = {30, 170, 520, 1120, 2080, 3570, 5770} BY <1>2, <1>3, <1>11
  <2> QED BY <1>11, <2>1, FirstSteps
<1>12. CASE n = 40
  <2>1. Passed(c) = {30, 170, 520, 1120, 2080, 3570, 5770, 8720} BY <1>2, <1>3, <1>12
  <2> QED BY <1>12, <2>1, FirstSteps
<1> QED BY <1>4, <1>5, <1>6, <1>7, <1>8, <1>9, <1>10, <1>11, <1>12

\* Cardinality in the instance is that of this module.
LEMMA DbCardinality == \A S : Db!Cardinality(S) = Cardinality(S)
BY DEF Db!Cardinality, Db!IsFiniteSet, Cardinality, IsFiniteSet

\* The step function is the bonus of the table's level, at any count.
LEMMA StepsAreTable ==
  ASSUME NEW c \in Nat
  PROVE  Db!MasteryBonusAt(c) = Skill!calcMasteryBonus(Skill!calcMasteryLevel(c))
<1>1. CASE c >= 9999
  <2>1. Skill!calcMasteryLevel(c) = 99 BY <1>1, LevelAtCap
  <2> QED BY <1>1, <2>1 DEF Db!MasteryBonusAt, Skill!calcMasteryBonus
<1>2. CASE c < 9999
  <2>1. PICK n \in 1 .. 40 : Between(c, n) BY <1>2, SomewhereBetween
  <2>2. Skill!calcMasteryLevel(c) = n /\ Cardinality(Passed(c)) = n \div 5
    BY <2>1, LevelIs, StepsPassed
  <2>3. Db!MasteryBonusAt(c) = Cardinality(Passed(c))
    BY <1>2, DbCardinality DEF Db!MasteryBonusAt, Passed
  <2> QED BY <2>2, <2>3 DEF Skill!calcMasteryBonus
<1> QED BY <1>1, <1>2

----------------------------------------------------------------------------
(***************************************************************************)
(* What the records that stand were given.                                 *)
(***************************************************************************)
BonusAt(c) == Skill!calcMasteryBonus(Skill!calcMasteryLevel(c))

\* Each got the bonus of the count it found.
SkillInv ==
    /\ count \in Nat /\ granted \in Seq(Int) /\ Len(granted) <= count
    /\ \A i \in 1 .. Len(granted) : granted[i] = BonusAt(count - Len(granted) + i - 1)
    /\ bonuses = SumOf(granted, DOMAIN granted)

\* A sequence without its last member.
LEMMA AllButLast ==
  ASSUME NEW s \in Seq(Int), NEW n \in Nat, n = Len(s), n > 0
  PROVE  LET q == SubSeq(s, 1, n - 1)
         IN  /\ q \in Seq(Int) /\ Len(q) = n - 1 /\ s = Append(q, s[n])
             /\ \A i \in 1 .. n - 1 : q[i] = s[i]
<1> DEFINE q == SubSeq(s, 1, n - 1)
<1>1. \A i \in 1 .. n : s[i] \in Int OBVIOUS
<1>2. \A i \in 1 .. n - 1 : s[i] \in Int BY <1>1
<1>3. /\ q \in Seq(Int) /\ Len(q) = (IF 1 <= n - 1 THEN n - 1 - 1 + 1 ELSE 0)
      /\ \A i \in 1 .. n - 1 - 1 + 1 : q[i] = s[1 + i - 1]
  BY <1>2, SubSeqProperties
<1> HIDE DEF q
<1>4. q \in Seq(Int) /\ Len(q) = n - 1 /\ \A i \in 1 .. n - 1 : q[i] = s[i]
  <2>1. Len(q) = n - 1 BY <1>3
  <2>2. n - 1 - 1 + 1 = n - 1 /\ \A i \in 1 .. n - 1 : 1 + i - 1 = i OBVIOUS
  <2> QED BY <1>3, <2>1, <2>2
<1>5. Append(q, s[n]) \in Seq(Int) /\ Len(Append(q, s[n])) = n BY <1>1, <1>4
<1>6. \A i \in 1 .. n : Append(q, s[n])[i] = s[i] BY <1>1, <1>4
<1>7. s = Append(q, s[n]) BY <1>5, <1>6
<1> QED BY <1>4, <1>7 DEF q

\* No record stands in the beginning.
LEMMA SkillStarts == ASSUME Skill!MasteryAssumption, Skill!Init PROVE SkillInv
<1>1. count \in Nat /\ granted = <<>> /\ bonuses = 0
  BY DEF Skill!MasteryAssumption, Skill!Init
<1>2. granted \in Seq(Int) /\ Len(granted) = 0 /\ DOMAIN granted = {} BY <1>1
<1> QED BY <1>1, <1>2, SumOfEmpty DEF SkillInv

\* A record adds its bonus, and the latest takes away the one it was given.
LEMMA SkillStep ==
  ASSUME SkillInv, [Skill!Next]_(Skill!vars)
  PROVE  SkillInv'
<1> DEFINE n == Len(granted)
<1>0. n \in Nat BY DEF SkillInv
<1>1. CASE Skill!Record
  <2> DEFINE b == BonusAt(count)
  <2>1. granted' = Append(granted, b) /\ bonuses' = bonuses + b /\ count' = count + 1
    BY <1>1 DEF Skill!Record, BonusAt
  <2>2. b \in Nat BY BonusNat DEF SkillInv, BonusAt
  <2> HIDE DEF b
  <2>3. granted' \in Seq(Int) /\ Len(granted') = n + 1 BY <2>1, <2>2 DEF SkillInv
  <2>4. bonuses' = SumOf(granted', DOMAIN granted')
    <3>1. SumOf(Append(granted, b), DOMAIN Append(granted, b)) = SumOf(granted, DOMAIN granted) + b
      BY <2>2, LostGrows DEF SkillInv
    <3> QED BY <2>1, <3>1 DEF SkillInv
  <2>5. ASSUME NEW i \in 1 .. n + 1 PROVE granted'[i] = BonusAt(count' - (n + 1) + i - 1)
    <3>1. count' - (n + 1) + i - 1 = count - n + i - 1 BY <1>0, <2>1 DEF SkillInv
    <3>2. CASE i \in 1 .. n
      <4>1. granted'[i] = granted[i] BY <2>1, <2>2, <3>2 DEF SkillInv
      <4> QED BY <3>1, <3>2, <4>1 DEF SkillInv
    <3>3. CASE i = n + 1
      <4>1. granted'[i] = b BY <2>1, <2>2, <3>3 DEF SkillInv
      <4>2. count - n + i - 1 = count BY <1>0, <3>3 DEF SkillInv
      <4> QED BY <3>1, <4>1, <4>2 DEF b
    <3> QED BY <3>2, <3>3
  <2>6. count' \in Nat /\ Len(granted') <= count' BY <1>0, <2>1, <2>3 DEF SkillInv
  <2> HIDE DEF n
  <2>7. \A i \in 1 .. Len(granted') : granted'[i] = BonusAt(count' - Len(granted') + i - 1)
    BY <2>3, <2>5
  <2> QED BY <2>3, <2>4, <2>6, <2>7 DEF SkillInv, BonusAt, SumOf, Sums
<1>2. CASE Skill!CancelLatest
  <2> DEFINE b == granted[n]
             q == SubSeq(granted, 1, n - 1)
  <2>1. /\ granted # <<>> /\ granted' = q
        /\ bonuses' = bonuses - Skill!calcMasteryBonusRefundOnCancel(count) /\ count' = count - 1
    BY <1>2 DEF Skill!CancelLatest
  <2>2. n > 0 /\ n <= count /\ b \in Int BY <1>0, <2>1 DEF SkillInv
  <2>3. /\ q \in Seq(Int) /\ Len(q) = n - 1 /\ granted = Append(q, b)
        /\ \A i \in 1 .. n - 1 : q[i] = granted[i]
    BY <1>0, <2>2, AllButLast DEF SkillInv
  <2>4. Skill!calcMasteryBonusRefundOnCancel(count) = b
    <3>1. b = BonusAt(count - n + n - 1) BY <1>0, <2>2 DEF SkillInv
    <3>2. count - n + n - 1 = count - 1 /\ ~(count <= 0) BY <1>0, <2>2 DEF SkillInv
    <3> QED BY <3>1, <3>2 DEF Skill!calcMasteryBonusRefundOnCancel, BonusAt
  <2> HIDE DEF b, q
  <2>5. bonuses' = SumOf(granted', DOMAIN granted')
    <3>1. /\ SumOf(q, DOMAIN q) \in Int
          /\ SumOf(Append(q, b), DOMAIN Append(q, b)) = SumOf(q, DOMAIN q) + b
      BY <2>2, <2>3, LostGrows
    <3>2. bonuses = SumOf(q, DOMAIN q) + b BY <2>3, <3>1 DEF SkillInv
    <3> QED BY <2>1, <2>2, <2>4, <3>1, <3>2
  <2>6. count' \in Nat /\ Len(granted') <= count' BY <1>0, <2>1, <2>2, <2>3 DEF SkillInv
  <2>7. ASSUME NEW i \in 1 .. Len(granted')
        PROVE  granted'[i] = BonusAt(count' - Len(granted') + i - 1)
    <3>1. i \in 1 .. n /\ granted'[i] = granted[i] BY <1>0, <2>1, <2>3
    <3>2. count' - Len(granted') + i - 1 = count - n + i - 1
      BY <1>0, <2>1, <2>3, <3>1 DEF SkillInv
    <3> QED BY <3>1, <3>2 DEF SkillInv
  <2> QED BY <2>1, <2>3, <2>5, <2>6, <2>7 DEF SkillInv, BonusAt, SumOf, Sums
<1>3. CASE UNCHANGED Skill!vars
  BY <1>3 DEF Skill!vars, SkillInv, BonusAt, SumOf, Sums
<1> QED BY <1>1, <1>2, <1>3 DEF Skill!Next

\* So it always is.
LEMMA SkillHolds == Skill!Spec => []SkillInv
<1>1. Skill!Init => SkillInv BY DailyAssumption, SkillStarts
<1> QED BY <1>1, SkillStep, PTL DEF Skill!Spec

\* The bonuses as a recursion over the records that stand.
LEMMA BonusesUnfolded ==
  Skill!LatestCancelIsExact <=>
      bonuses = (CHOOSE g : Sums(granted, DOMAIN granted, g))[DOMAIN granted]
BY Zenon DEF Skill!LatestCancelIsExact, Skill!MapThenSumSet, Skill!MapThenFoldSet, Sums, First

\* A cancelled record gives back what it was given, at every count and level, and the step
\* functions of the point transactions are the table.
THEOREM CancelIsExact == Skill!Spec => []LatestCancelIsExact
<1>1. SkillInv => LatestCancelIsExact
  <2> SUFFICES ASSUME SkillInv PROVE LatestCancelIsExact
    OBVIOUS
  <2>1. Skill!LatestCancelIsExact BY BonusesUnfolded DEF SkillInv, SumOf
  <2>2. Db!MasteryRefund(count) = Skill!calcMasteryBonusRefundOnCancel(count)
    <3>1. CASE count <= 0 BY <3>1 DEF Db!MasteryRefund, Skill!calcMasteryBonusRefundOnCancel
    <3>2. CASE ~(count <= 0)
      <4>1. count - 1 \in Nat BY <3>2 DEF SkillInv
      <4>2. Db!MasteryBonusAt(count - 1) = Skill!calcMasteryBonus(Skill!calcMasteryLevel(count - 1))
        BY <4>1, StepsAreTable
      <4> QED BY <3>2, <4>2 DEF Db!MasteryRefund, Skill!calcMasteryBonusRefundOnCancel
    <3> QED BY <3>1, <3>2
  <2>3. StepsMatchTable BY <2>2, StepsAreTable DEF SkillInv, StepsMatchTable
  <2> QED BY <2>1, <2>3 DEF LatestCancelIsExact
<1> QED BY <1>1, SkillHolds, PTL

\* As many records as a child is told reach the next level, and no fewer, at every count.
THEOREM AnnouncementIsExact == Skill!Spec => []NextLevelIsReached
<1>1. SkillInv => NextLevelIsReached BY AnnouncedIsExact DEF SkillInv
<1> QED BY <1>1, SkillHolds, PTL

=============================================================================
