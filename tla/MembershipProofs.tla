-------------------------- MODULE MembershipProofs --------------------------
(***************************************************************************)
(* Every family has exactly one owner, for any number of people, families, *)
(* invites and requests in flight: the invariant OneOwner of Membership.   *)
(*                                                                         *)
(* The invariant is OwnerCacheAgrees (the owners of a family are the one   *)
(* its row names), and that no request, token or invite is about a family  *)
(* that has not been made, so that a new family has no members yet.        *)
(*                                                                         *)
(* And nobody belongs to two families who has never logged in twice at a   *)
(* time: OneFamily.                                                        *)
(***************************************************************************)
EXTENDS Membership, FiniteSetTheorems, TLAPS

Born(f) == family[f].state # "unborn"

UnbornIsEmpty == \A f \in Families : ~Born(f) => \A k \in Keys : member[f][k] = "none"

KnownIsBorn ==
    /\ \A p \in People : context[p] # NoContext => Born(context[p].fam)
    /\ \A i \in Invites : invites[i].state = "pending" => Born(invites[i].fam)
    /\ \A s \in Sessions : call[s].fam # NoOne => Born(call[s].fam)

IInv == StateOK /\ UnbornIsEmpty /\ KnownIsBorn /\ OwnerCacheAgrees

(* The parts of the state that the lemmas below take one by one.           *)
CallsTyped == call \in [Sessions -> Calls] /\ \A s \in Sessions : CallOK(call[s])
RowsTyped ==
    /\ family \in [Families -> [state: {"unborn", "live", "gone"}, owner: Keys \cup {NoOne}]]
    /\ member \in [Families -> [Keys -> Roles \cup {"none"}]]
InvitesTyped ==
    /\ invites \in [Invites -> [state: {"unmade", "pending", "closed"},
                               fam: Families \cup {NoOne}, role: Roles \cup {"none"}]]
    /\ \A i \in Invites : invites[i].state = "pending" =>
           invites[i].fam \in Families /\ invites[i].role \in Roles
ContextTyped == context \in [People -> {NoContext} \cup [fam: Families, role: Roles]]
UsersTyped == users \in [Ids -> People \cup {"free", "gone"}] /\ cognito \subseteq People

CallsBorn == \A s \in Sessions : call[s].fam # NoOne => Born(call[s].fam)
RowsOK == RowsTyped /\ UnbornIsEmpty /\ OwnerCacheAgrees
InvitesBorn == \A i \in Invites : invites[i].state = "pending" => Born(invites[i].fam)
ContextBorn == \A p \in People : context[p] # NoContext => Born(context[p].fam)

LEMMA Parts == IInv <=> /\ CallsTyped /\ CallsBorn /\ RowsOK /\ InvitesTyped /\ InvitesBorn
                        /\ ContextTyped /\ ContextBorn /\ UsersTyped
  BY DEF IInv, CallsTyped, CallsBorn, RowsOK, RowsTyped, InvitesTyped, InvitesBorn, ContextTyped,
         ContextBorn, UsersTyped, StateOK, KnownIsBorn

-----------------------------------------------------------------------------
(* Requests: what a step leaves in call.                                   *)

(* A family once made is never unmade.                                     *)
LEMMA BornStays ==
    ASSUME RowsTyped,
           \/ UNCHANGED family
           \/ \E g \in Families, r \in [state: {"live", "gone"}, owner: Keys \cup {NoOne}] :
                 family' = [family EXCEPT ![g] = r]
           \/ \E g \in Families, o \in Keys : family' = [family EXCEPT ![g].owner = o]
    PROVE  \A f \in Families : Born(f) => Born(f)'
<1> SUFFICES ASSUME NEW f \in Families, Born(f) PROVE Born(f)'
  OBVIOUS
<1>1. CASE UNCHANGED family BY <1>1 DEF Born
<1>2. ASSUME NEW g \in Families, NEW r \in [state: {"live", "gone"}, owner: Keys \cup {NoOne}],
             family' = [family EXCEPT ![g] = r]
      PROVE  Born(f)'
  <2>1. CASE f = g BY <1>2, <2>1 DEF Born, RowsTyped
  <2>2. CASE f # g BY <1>2, <2>2 DEF Born, RowsTyped
  <2> QED BY <2>1, <2>2
<1>3. ASSUME NEW g \in Families, NEW o \in Keys, family' = [family EXCEPT ![g].owner = o]
      PROVE  Born(f)'
  <2>1. CASE f = g
    <3>1. family'[f] = [family[f] EXCEPT !.owner = o] BY <1>3, <2>1 DEF RowsTyped
    <3>2. family[f] \in [state: {"unborn", "live", "gone"}, owner: Keys \cup {NoOne}] BY DEF RowsTyped
    <3>3. family'[f].state = family[f].state BY <3>1, <3>2
    <3> QED BY <3>3 DEF Born
  <2>2. CASE f # g BY <1>3, <2>2 DEF Born, RowsTyped
  <2> QED BY <2>1, <2>2
<1> QED BY <1>1, <1>2, <1>3

(* A request goes on to a well-formed record about a family that exists.   *)
LEMMA Started ==
    ASSUME CallsTyped, CallsBorn, NEW s \in Sessions, NEW c \in Calls, CallOK(c), Start(s, c),
           c.fam # NoOne => family'[c.fam].state # "unborn",
           \A f \in Families : Born(f) => Born(f)'
    PROVE  (CallsTyped /\ CallsBorn)'
<1>1. call' \in [Sessions -> Calls] BY DEF CallsTyped, Start
<1>2. ASSUME NEW t \in Sessions
      PROVE  CallOK(call'[t]) /\ (call'[t].fam # NoOne => family'[call'[t].fam].state # "unborn")
  <2>1. CASE t = s
    <3>1. call'[t] = c BY <2>1 DEF Start, CallsTyped
    <3> QED BY <3>1
  <2>2. CASE t # s
    <3>1. call'[t] = call[t] BY <2>2 DEF Start, CallsTyped
    <3>2. call[t].fam \in Families \cup {NoOne} BY DEF CallsTyped, Calls
    <3>3. CallOK(call[t]) BY DEF CallsTyped
    <3>4. call[t].fam # NoOne => family'[call[t].fam].state # "unborn" BY <3>2 DEF CallsBorn, Born
    <3> QED BY <3>1, <3>3, <3>4
  <2> QED BY <2>1, <2>2
<1>3. (\A t \in Sessions : CallOK(call[t]))' BY <1>2
<1>4. CallsBorn' BY <1>2 DEF CallsBorn, Born
<1> QED BY <1>1, <1>3, <1>4 DEF CallsTyped

LEMMA IdleIsCall == Idle \in Calls /\ CallOK(Idle) /\ Idle.fam = NoOne
  BY MembershipAssumption DEF Idle, Calls, CallOK, Steps, OnMember, OnFamily

LEMMA Ended ==
    ASSUME CallsTyped, CallsBorn, NEW s \in Sessions, End(s), \A f \in Families : Born(f) => Born(f)'
    PROVE  (CallsTyped /\ CallsBorn)'
<1>1. Start(s, Idle) BY DEF End, Start
<1> QED BY <1>1, IdleIsCall, Started

(* The next step of a request on members or on a family.                   *)
LEMMA WentOn ==
    ASSUME CallsTyped, CallsBorn, NEW s \in Sessions, NEW a \in Steps, Go(s, a),
           call[s].op \in OnMember \cup OnFamily, \A f \in Families : Born(f) => Born(f)'
    PROVE  (CallsTyped /\ CallsBorn)'
<1> DEFINE c == [call[s] EXCEPT !.at = a]
<1>1. call[s] \in Calls /\ CallOK(call[s]) BY DEF CallsTyped
<1>2. c \in Calls /\ c.op = call[s].op /\ c.fam = call[s].fam /\ c.on = call[s].on /\ c.by = call[s].by
  BY <1>1 DEF Calls
<1>3. CallOK(c) BY <1>1, <1>2 DEF CallOK, OnMember, OnFamily
<1>4. Start(s, c) BY DEF Go, Start
<1>5. c.fam \in Families BY <1>1, <1>2 DEF CallOK
<1>6. family'[c.fam].state # "unborn" BY <1>2, <1>5, MembershipAssumption DEF CallsBorn, Born
<1> HIDE DEF c
<1> QED BY <1>2, <1>3, <1>4, <1>6, Started
-----------------------------------------------------------------------------
(* Rows: what each kind of write leaves in families and memberships.       *)

(* One row other than an owner's is written: no owner appears where there  *)
(* is one, and none disappears.                                            *)
LEMMA RoleWritten ==
    ASSUME RowsOK, NEW f \in Families, NEW k \in Keys, NEW r \in Roles \cup {"none"},
           Born(f), member[f][k] # "owner", r = "owner" => OwnersOf(f) = {},
           member' = SetRole(f, k, r), UNCHANGED family
    PROVE  RowsOK'
<1>1. member' \in [Families -> [Keys -> Roles \cup {"none"}]] BY DEF RowsOK, RowsTyped, SetRole
<1>2. \A g \in Families, j \in Keys :
         member'[g][j] = IF g = f /\ j = k THEN r ELSE member[g][j]
  BY DEF RowsOK, RowsTyped, SetRole
<1>3. UnbornIsEmpty' BY <1>2 DEF RowsOK, UnbornIsEmpty, Born
<1>4. ASSUME NEW g \in Families, Live(g)' PROVE OwnersOf(g)' = {family'[g].owner}
  <2>1. Live(g) /\ OwnersOf(g) = {family[g].owner} BY <1>4 DEF RowsOK, OwnerCacheAgrees, Live
  <2>2. g = f => r # "owner" BY <2>1
  <2>3. \A j \in Keys : member'[g][j] = "owner" <=> member[g][j] = "owner" BY <1>2, <2>2
  <2> QED BY <2>1, <2>3 DEF OwnersOf
<1> QED BY <1>1, <1>3, <1>4 DEF RowsOK, RowsTyped, OwnerCacheAgrees

(* updateTenantOwner.                                                      *)
LEMMA OwnerMoved ==
    ASSUME RowsOK, NEW f \in Families, NEW k \in Keys, member' = Promoted(f, k), Born(f),
           family' = IF family[f].state = "live" THEN [family EXCEPT ![f].owner = k] ELSE family
    PROVE  RowsOK'
<1>1. member' \in [Families -> [Keys -> Roles \cup {"none"}]]
  BY DEF RowsOK, RowsTyped, Promoted, Roles
<1>2. ASSUME NEW g \in Families
      PROVE  /\ family'[g].state = family[g].state
             /\ family'[g] \in [state: {"unborn", "live", "gone"}, owner: Keys \cup {NoOne}]
             /\ g # f => family'[g].owner = family[g].owner
             /\ g = f /\ family[f].state = "live" => family'[g].owner = k
  <2>1. family[g] \in [state: {"unborn", "live", "gone"}, owner: Keys \cup {NoOne}]
    BY DEF RowsOK, RowsTyped
  <2>2. CASE g = f /\ family[f].state = "live"
    <3>1. family'[g] = [family[g] EXCEPT !.owner = k] BY <2>2 DEF RowsOK, RowsTyped
    <3>2. family'[g] = [state |-> family[g].state, owner |-> k] BY <2>1, <3>1
    <3> QED BY <2>1, <2>2, <3>2
  <2>3. CASE ~(g = f /\ family[f].state = "live")
    <3>1. family'[g] = family[g] BY <2>3 DEF RowsOK, RowsTyped
    <3> QED BY <2>1, <2>3, <3>1
  <2> QED BY <2>2, <2>3
<1>3. family' \in [Families -> [state: {"unborn", "live", "gone"}, owner: Keys \cup {NoOne}]]
  BY <1>2 DEF RowsOK, RowsTyped
<1>4. \A g \in Families \ {f} : member'[g] = member[g] BY DEF RowsOK, RowsTyped, Promoted
<1>5. \A j \in Keys : member'[f][j] = "owner" <=> j = k
  BY DEF RowsOK, RowsTyped, Promoted
<1>6. UnbornIsEmpty' BY <1>2, <1>4 DEF RowsOK, UnbornIsEmpty, Born
<1>7. ASSUME NEW g \in Families, Live(g)' PROVE OwnersOf(g)' = {family'[g].owner}
  <2>1. CASE g = f BY <1>2, <1>5, <1>7, <2>1 DEF OwnersOf, Live
  <2>2. CASE g # f BY <1>2, <1>4, <1>7, <2>2 DEF OwnersOf, Live, RowsOK, OwnerCacheAgrees
  <2> QED BY <2>1, <2>2
<1> QED BY <1>1, <1>3, <1>6, <1>7 DEF RowsOK, RowsTyped, OwnerCacheAgrees

(* createTenant: the family had no members before it was made.             *)
LEMMA FamilyMade ==
    ASSUME RowsOK, NEW f \in Families, NEW k \in Keys, ~Born(f),
           family' = [family EXCEPT ![f] = [state |-> "live", owner |-> k]],
           member' = SetRole(f, k, "owner")
    PROVE  RowsOK'
<1>1. RowsTyped' BY DEF RowsOK, RowsTyped, SetRole, Roles
<1>2. \A g \in Families, j \in Keys :
         member'[g][j] = IF g = f /\ j = k THEN "owner" ELSE member[g][j]
  BY DEF RowsOK, RowsTyped, SetRole
<1>3. \A g \in Families : family'[g] = IF g = f THEN [state |-> "live", owner |-> k] ELSE family[g]
  BY DEF RowsOK, RowsTyped
<1>4. UnbornIsEmpty' BY <1>2, <1>3 DEF RowsOK, UnbornIsEmpty, Born
<1>5. ASSUME NEW g \in Families, Live(g)' PROVE OwnersOf(g)' = {family'[g].owner}
  <2>1. CASE g = f
    <3>1. \A j \in Keys : member[f][j] = "none" BY DEF RowsOK, UnbornIsEmpty
    <3> QED BY <1>2, <1>3, <2>1, <3>1 DEF OwnersOf
  <2>2. CASE g # f BY <1>2, <1>3, <1>5, <2>2 DEF OwnersOf, Live, RowsOK, OwnerCacheAgrees
  <2> QED BY <2>1, <2>2
<1> QED BY <1>1, <1>4, <1>5 DEF RowsOK, OwnerCacheAgrees

(* deleteAllMemberships passes over the owner.                             *)
LEMMA MembersGone ==
    ASSUME RowsOK, NEW f \in Families, member' = AllButOwner(f), UNCHANGED family
    PROVE  RowsOK'
<1>1. member' \in [Families -> [Keys -> Roles \cup {"none"}]]
  BY DEF RowsOK, RowsTyped, AllButOwner, Roles
<1>2. \A g \in Families, j \in Keys :
         /\ member'[g][j] = "owner" <=> member[g][j] = "owner"
         /\ member[g][j] = "none" => member'[g][j] = "none"
  BY DEF RowsOK, RowsTyped, AllButOwner
<1>3. \A g \in Families : OwnersOf(g)' = OwnersOf(g) BY <1>2 DEF OwnersOf
<1>4. UnbornIsEmpty' BY <1>2 DEF RowsOK, UnbornIsEmpty, Born
<1>5. OwnerCacheAgrees' BY <1>3 DEF RowsOK, OwnerCacheAgrees, Live
<1> QED BY <1>1, <1>4, <1>5 DEF RowsOK, RowsTyped

(* deleteTenant.                                                           *)
LEMMA FamilyGone ==
    ASSUME RowsOK, NEW f \in Families,
           family' = [family EXCEPT ![f] = [state |-> "gone", owner |-> NoOne]],
           member' = [member EXCEPT ![f] = [k \in Keys |-> "none"]]
    PROVE  RowsOK'
<1>1. RowsTyped' BY DEF RowsOK, RowsTyped
<1>2. \A g \in Families : g # f => family'[g] = family[g] /\ member'[g] = member[g]
  BY DEF RowsOK, RowsTyped
<1>3. family'[f].state = "gone" BY DEF RowsOK, RowsTyped
<1>4. UnbornIsEmpty' BY <1>2, <1>3 DEF RowsOK, UnbornIsEmpty, Born
<1>5. OwnerCacheAgrees' BY <1>2, <1>3 DEF RowsOK, OwnerCacheAgrees, Live, OwnersOf
<1> QED BY <1>1, <1>4, <1>5 DEF RowsOK

LEMMA RowsAlone == RowsOK /\ UNCHANGED <<family, member>> => RowsOK'
  BY DEF RowsOK, RowsTyped, UnbornIsEmpty, OwnerCacheAgrees, Born, Live, OwnersOf

-----------------------------------------------------------------------------
(* The other variables.                                                    *)

BornKept == \A f \in Families : Born(f) => Born(f)'

InvitesOK == InvitesTyped /\ InvitesBorn
ContextOK == ContextTyped /\ ContextBorn
CallsOK   == CallsTyped /\ CallsBorn

LEMMA PartsOK == IInv <=> CallsOK /\ RowsOK /\ InvitesOK /\ ContextOK /\ UsersTyped
  BY Parts DEF CallsOK, InvitesOK, ContextOK

LEMMA PartsNext == (CallsOK /\ RowsOK /\ InvitesOK /\ ContextOK /\ UsersTyped)' => IInv'
  BY DEF CallsOK, RowsOK, InvitesOK, ContextOK, IInv, CallsTyped, CallsBorn, RowsTyped,
         InvitesTyped, InvitesBorn, ContextTyped, ContextBorn, UsersTyped, StateOK, KnownIsBorn

(* Invites are left alone or closed.                                       *)
LEMMA InvitesClosed ==
    ASSUME InvitesOK, BornKept, DOMAIN invites' = Invites, invites' = [i \in Invites |-> invites'[i]],
           \A i \in Invites : invites'[i] = invites[i] \/ invites'[i] = Closed
    PROVE  InvitesOK'
<1>1. Closed \in [state: {"unmade", "pending", "closed"}, fam: Families \cup {NoOne},
                  role: Roles \cup {"none"}] /\ Closed.state # "pending"
  BY DEF Closed
<1>2. InvitesTyped' BY <1>1 DEF InvitesOK, InvitesTyped
<1>3. ASSUME NEW i \in Invites, invites'[i].state = "pending"
      PROVE  family'[invites'[i].fam].state # "unborn"
  <2>1. invites'[i] = invites[i] BY <1>1, <1>3
  <2>2. invites[i].fam \in Families /\ Born(invites[i].fam)
    BY <1>3, <2>1 DEF InvitesOK, InvitesTyped, InvitesBorn
  <2> QED BY <2>1, <2>2 DEF BornKept, Born
<1>4. InvitesBorn' BY <1>3 DEF InvitesBorn, Born
<1> QED BY <1>2, <1>4 DEF InvitesOK

LEMMA InvitesAlone == InvitesOK /\ BornKept /\ UNCHANGED invites => InvitesOK'
<1> SUFFICES ASSUME InvitesOK, BornKept, UNCHANGED invites PROVE InvitesOK'
  OBVIOUS
<1>1. DOMAIN invites' = Invites /\ invites' = [i \in Invites |-> invites'[i]]
  BY DEF InvitesOK, InvitesTyped
<1> QED BY <1>1, InvitesClosed

LEMMA ContextAlone == ContextOK /\ BornKept /\ UNCHANGED context => ContextOK'
<1> SUFFICES ASSUME ContextOK, BornKept, UNCHANGED context PROVE ContextOK'
  OBVIOUS
<1>1. ASSUME NEW p \in People, context[p] # NoContext PROVE family'[context[p].fam].state # "unborn"
  <2>1. context[p].fam \in Families BY <1>1 DEF ContextOK, ContextTyped
  <2> QED BY <1>1, <2>1 DEF ContextOK, ContextBorn, BornKept, Born
<1> QED BY <1>1 DEF ContextOK, ContextTyped, ContextBorn, Born

(* A person gets a token for a family that exists, or loses the token.     *)
LEMMA Entered ==
    ASSUME ContextOK, BornKept, NEW p \in People,
           NEW c \in {NoContext} \cup [fam: Families, role: Roles],
           context' = [context EXCEPT ![p] = c],
           c # NoContext => family'[c.fam].state # "unborn"
    PROVE  ContextOK'
<1>1. ContextTyped' BY DEF ContextOK, ContextTyped
<1>2. ASSUME NEW q \in People, context'[q] # NoContext PROVE family'[context'[q].fam].state # "unborn"
  <2>1. CASE q = p BY <1>2, <2>1 DEF ContextOK, ContextTyped
  <2>2. CASE q # p
    <3>1. context'[q] = context[q] BY <2>2 DEF ContextOK, ContextTyped
    <3>2. context[q].fam \in Families BY <1>2, <3>1 DEF ContextOK, ContextTyped
    <3> QED BY <1>2, <3>1, <3>2 DEF ContextOK, ContextBorn, BornKept, Born
  <2> QED BY <2>1, <2>2
<1> QED BY <1>1, <1>2 DEF ContextOK, ContextBorn, Born

LEMMA FamiliesAlone == RowsOK /\ UNCHANGED family => BornKept
  BY DEF RowsOK, BornKept, Born

LEMMA UsersForgotten ==
    ASSUME UsersTyped, NEW ks, Forget(ks)
    PROVE  UsersTyped'
  BY DEF UsersTyped, Forget

(* A login finds the person's row or goes on to make it.                   *)
LEMMA FoundOK ==
    ASSUME NEW c \in Calls, c.op = "login", c.by \in People
    PROVE  Found(c) \in Calls /\ CallOK(Found(c)) /\ Found(c).fam = c.fam
<1>1. CASE IdsOf(c.by) = {}
  <2>1. Found(c) = [c EXCEPT !.at = "create"] BY <1>1 DEF Found
  <2> QED BY <2>1 DEF Calls, CallOK, Steps, OnMember, OnFamily
<1>2. CASE IdsOf(c.by) # {}
  <2> DEFINE k == CHOOSE j \in Ids : j \in IdsOf(c.by)
             a == IF c.inv = NoOne THEN "recheck" ELSE "check"
  <2>1. Found(c) = [c EXCEPT !.on = k, !.at = a] BY <1>2 DEF Found
  <2>2. k \in Ids BY <1>2 DEF IdsOf
  <2>3. k \in Keys BY <2>2 DEF Keys
  <2>4. a = "check" => c.inv \in Invites BY DEF Calls
  <2>5. a \in {"check", "recheck"} OBVIOUS
  <2> HIDE DEF k, a
  <2> QED BY <2>1, <2>2, <2>3, <2>4, <2>5 DEF Calls, CallOK, Steps, OnMember, OnFamily
<1> QED BY <1>1, <1>2

LEMMA DroppedOK ==
    ASSUME NEW c \in Calls, c.op = "login", c.by \in People
    PROVE  Dropped(c) \in Calls /\ CallOK(Dropped(c)) /\ Dropped(c).fam = c.fam
<1> DEFINE d == [c EXCEPT !.inv = NoOne]
<1>1. d \in Calls /\ d.op = "login" /\ d.by \in People /\ d.fam = c.fam BY DEF Calls
<1>2. Dropped(c) = Found(d) BY DEF Dropped
<1> HIDE DEF d
<1> QED BY <1>1, <1>2, FoundOK

(* What the record of a login in flight says.                              *)
LEMMA InLoginOK ==
    ASSUME CallsOK, NEW s \in Sessions, call[s].op = "login"
    PROVE  /\ call[s] \in Calls /\ call[s].by \in People
           /\ call[s].at # "create" => call[s].on \in Ids /\ call[s].on \in Keys
           /\ call[s].at \in {"check", "accept"} => call[s].inv \in Invites
           /\ call[s].at = "member" => call[s].fam \in Families
           /\ call[s].fam # NoOne => call[s].fam \in Families /\ Born(call[s].fam)
  BY DEF CallsOK, CallsTyped, CallsBorn, CallOK, Calls, Keys

-----------------------------------------------------------------------------
(* Logins.                                                                 *)

LEMMA LoginKeeps ==
    ASSUME IInv, NEW s \in Sessions, NEW p \in People, NEW i \in Invites \cup {NoOne}, Login(s, p, i)
    PROVE  IInv'
<1>1. CallsOK /\ RowsOK /\ InvitesOK /\ ContextOK /\ UsersTyped BY PartsOK
<1>2. UNCHANGED <<users, cognito, family, member, invites>> BY DEF Login
<1>3. BornKept BY <1>1, <1>2, FamiliesAlone
<1>4. RowsOK' BY <1>1, <1>2, RowsAlone
<1>5. InvitesOK' BY <1>1, <1>2, <1>3, InvitesAlone
<1>6. UsersTyped' BY <1>1, <1>2 DEF UsersTyped
<1>7. CASE UNCHANGED call /\ \E k \in IdsOf(p) : \E f \in FamiliesOf(k) : Enter(p, f, member[f][k])
  <2>1. PICK k \in Ids, f \in Families : member[f][k] # "none" /\ Enter(p, f, member[f][k])
    BY <1>7 DEF IdsOf, FamiliesOf
  <2>2. member[f][k] \in Roles BY <1>1, <2>1 DEF RowsOK, RowsTyped, Keys
  <2>3. Born(f) BY <1>1, <2>1 DEF RowsOK, UnbornIsEmpty, Keys
  <2>4. NoContext # [fam |-> f, role |-> member[f][k]] BY MembershipAssumption DEF NoContext
  <2>5. ContextOK'
    BY <1>1, <1>3, <2>1, <2>2, <2>3, Entered, [fam |-> f, role |-> member[f][k]].fam = f
       DEF Enter, BornKept, Born
  <2>6. CallsOK' BY <1>1, <1>2, <1>7 DEF CallsOK, CallsTyped, CallsBorn, Born
  <2> QED BY <1>4, <1>5, <1>6, <2>5, <2>6, PartsNext
<1>8. CASE /\ context' = [context EXCEPT ![p] = NoContext]
           /\ Start(s, Found([Idle EXCEPT !.op = "login", !.by = p,
                                         !.inv = IF Usable(i) THEN i ELSE NoOne]))
  <2> DEFINE c == [Idle EXCEPT !.op = "login", !.by = p, !.inv = IF Usable(i) THEN i ELSE NoOne]
  <2>1. c \in Calls /\ c.op = "login" /\ c.by \in People /\ c.fam = NoOne
    BY IdleIsCall DEF Idle, Calls, Keys
  <2>2. Start(s, Found(c)) BY <1>8
  <2> HIDE DEF c
  <2>3. Found(c) \in Calls /\ CallOK(Found(c)) /\ Found(c).fam = NoOne BY <2>1, FoundOK
  <2>4. CallsOK' BY <1>1, <1>3, <2>2, <2>3, Started DEF CallsOK, BornKept
  <2>5. ContextOK' BY <1>1, <1>3, <1>8, Entered
  <2> QED BY <1>4, <1>5, <1>6, <2>4, <2>5, PartsNext
<1> QED BY <1>7, <1>8 DEF Login

(* A step of a login that writes neither rows nor invites nor tokens.      *)
LEMMA LoginReads ==
    ASSUME IInv, NEW s \in Sessions, NEW c \in Calls, CallOK(c), Start(s, c),
           c.fam # NoOne => c.fam \in Families /\ Born(c.fam),
           UNCHANGED <<family, member, invites, context>>, UsersTyped'
    PROVE  IInv'
<1>1. CallsOK /\ RowsOK /\ InvitesOK /\ ContextOK BY PartsOK
<1>2. BornKept BY <1>1, FamiliesAlone
<1>3. c.fam # NoOne => family'[c.fam].state # "unborn" BY <1>2 DEF BornKept, Born
<1>4. CallsOK' BY <1>1, <1>2, <1>3, Started DEF CallsOK, BornKept
<1>5. RowsOK' BY <1>1, RowsAlone
<1>6. InvitesOK' BY <1>1, <1>2, InvitesAlone
<1>7. ContextOK' BY <1>1, <1>2, ContextAlone
<1> QED BY <1>4, <1>5, <1>6, <1>7, PartsNext

LEMMA LoginCreateKeeps == ASSUME IInv, NEW s \in Sessions, LoginCreate(s) PROVE IInv'
<1> DEFINE c == call[s]
<1>1. CallsOK /\ UsersTyped BY PartsOK
<1>2. c.op = "login" BY DEF LoginCreate, At
<1>3. c \in Calls /\ c.by \in People /\ (c.fam # NoOne => c.fam \in Families /\ Born(c.fam))
  BY <1>1, <1>2, InLoginOK
<1>4. UNCHANGED <<cognito, family, member, invites, context>> BY DEF LoginCreate
<1>5. ASSUME NEW k \in Ids, users' = [users EXCEPT ![k] = c.by],
             Start(s, [c EXCEPT !.on = k, !.at = IF c.inv = NoOne THEN "recheck" ELSE "check"])
      PROVE  IInv'
  <2> DEFINE a == IF c.inv = NoOne THEN "recheck" ELSE "check"
             d == [c EXCEPT !.on = k, !.at = a]
  <2>1. a \in {"recheck", "check"} /\ (a = "check" => c.inv \in Invites) BY <1>3 DEF Calls
  <2>2. Start(s, d) BY <1>5
  <2> HIDE DEF a
  <2>3. d \in Calls /\ CallOK(d) /\ d.fam = c.fam
    BY <1>2, <1>3, <2>1 DEF Calls, CallOK, Keys, Steps, OnMember, OnFamily
  <2> HIDE DEF d
  <2>4. UsersTyped' BY <1>1, <1>3, <1>4, <1>5 DEF UsersTyped
  <2> QED BY <1>3, <1>4, <2>2, <2>3, <2>4, LoginReads
<1>6. CASE Start(s, IF c.inv = NoOne THEN Idle ELSE Dropped(c)) /\ UNCHANGED users
  <2> DEFINE d == IF c.inv = NoOne THEN Idle ELSE Dropped(c)
  <2>1. d \in Calls /\ CallOK(d) /\ (d.fam = NoOne \/ d.fam = c.fam)
    BY <1>2, <1>3, IdleIsCall, DroppedOK
  <2>2. Start(s, d) BY <1>6
  <2> HIDE DEF d
  <2>3. UsersTyped' BY <1>1, <1>4, <1>6 DEF UsersTyped
  <2> QED BY <1>3, <1>4, <2>1, <2>2, <2>3, LoginReads
<1> QED BY <1>5, <1>6 DEF LoginCreate

LEMMA LoginCheckKeeps == ASSUME IInv, NEW s \in Sessions, LoginCheck(s) PROVE IInv'
<1> DEFINE c == call[s]
           ok == Usable(c.inv) /\ FamiliesOf(c.on) = {} /\ Live(invites[c.inv].fam)
           d == IF ok THEN [c EXCEPT !.at = "accept"] ELSE Dropped(c)
<1>1. CallsOK /\ UsersTyped BY PartsOK
<1>2. c.op = "login" /\ c.at = "check" BY DEF LoginCheck, At
<1>3. /\ c \in Calls /\ c.by \in People /\ (c.fam # NoOne => c.fam \in Families /\ Born(c.fam))
      /\ c.on \in Ids /\ c.inv \in Invites
  BY <1>1, <1>2, InLoginOK
<1>4. Start(s, d) /\ UNCHANGED <<users, cognito, family, member, invites, context>> BY DEF LoginCheck
<1> HIDE DEF ok
<1>5. d \in Calls /\ CallOK(d) /\ d.fam = c.fam
  <2>1. CASE ok BY <1>2, <1>3, <2>1 DEF Calls, CallOK, Steps, OnMember, OnFamily
  <2>2. CASE ~ok BY <1>2, <1>3, <2>2, DroppedOK
  <2> QED BY <2>1, <2>2
<1> HIDE DEF d
<1>6. UsersTyped' BY <1>1, <1>4 DEF UsersTyped
<1> QED BY <1>3, <1>4, <1>5, <1>6, LoginReads

LEMMA LoginAcceptKeeps == ASSUME IInv, NEW s \in Sessions, LoginAccept(s) PROVE IInv'
<1> DEFINE c == call[s]
           f == invites[c.inv].fam
           r == invites[c.inv].role
<1>1. CallsOK /\ RowsOK /\ InvitesOK /\ ContextOK /\ UsersTyped BY PartsOK
<1>2. c.op = "login" /\ c.at = "accept" BY DEF LoginAccept, At
<1>3. /\ c \in Calls /\ c.by \in People /\ (c.fam # NoOne => c.fam \in Families /\ Born(c.fam))
      /\ c.on \in Keys /\ c.inv \in Invites
  BY <1>1, <1>2, InLoginOK
<1>4. UNCHANGED <<users, cognito, family>> BY DEF LoginAccept
<1>5. UsersTyped' BY <1>1, <1>4 DEF UsersTyped
<1>6. BornKept BY <1>1, <1>4, FamiliesAlone
<1>7. CASE /\ Usable(c.inv) /\ Insertable(f, c.on, r)
           /\ invites' = [invites EXCEPT ![c.inv] = Closed]
           /\ member' = SetRole(f, c.on, r)
           /\ Enter(c.by, f, r) /\ End(s)
  <2>1. f \in Families /\ r \in Roles /\ Born(f)
    BY <1>1, <1>3, <1>7 DEF Usable, InvitesOK, InvitesTyped, InvitesBorn
  <2>2. RowsOK'
    <3>1. member[f][c.on] # "owner" /\ (r = "owner" => OwnersOf(f) = {}) BY <1>7 DEF Insertable
    <3> HIDE DEF f, r, c
    <3> QED BY <1>1, <1>3, <1>4, <1>7, <2>1, <3>1, RoleWritten
  <2>3. InvitesOK'
    <3>1. DOMAIN invites' = Invites /\ invites' = [i \in Invites |-> invites'[i]]
      BY <1>1, <1>7 DEF InvitesOK, InvitesTyped
    <3>2. \A i \in Invites : invites'[i] = invites[i] \/ invites'[i] = Closed
      BY <1>1, <1>7 DEF InvitesOK, InvitesTyped
    <3> QED BY <1>1, <1>6, <3>1, <3>2, InvitesClosed
  <2>4. CallsOK' BY <1>1, <1>6, <1>7, Ended DEF CallsOK, BornKept
  <2>5. ContextOK'
    <3> DEFINE n == [fam |-> f, role |-> r]
    <3>1. n \in {NoContext} \cup [fam: Families, role: Roles] /\ n.fam = f BY <2>1
    <3>2. context' = [context EXCEPT ![c.by] = n] BY <1>7 DEF Enter
    <3>3. family'[f].state # "unborn" BY <1>6, <2>1 DEF BornKept, Born
    <3> HIDE DEF n, f, r, c
    <3> QED BY <1>1, <1>3, <1>6, <3>1, <3>2, <3>3, Entered
  <2> QED BY <1>5, <2>2, <2>3, <2>4, <2>5, PartsNext
<1>8. CASE Start(s, Dropped(c)) /\ UNCHANGED <<member, invites, context>>
  <2>1. Dropped(c) \in Calls /\ CallOK(Dropped(c)) /\ Dropped(c).fam = c.fam
    BY <1>2, <1>3, DroppedOK
  <2> QED BY <1>3, <1>4, <1>5, <1>8, <2>1, LoginReads
<1> QED BY <1>7, <1>8 DEF LoginAccept

LEMMA LoginProvisionKeeps == ASSUME IInv, NEW s \in Sessions, LoginProvision(s) PROVE IInv'
<1> DEFINE c == call[s]
<1>1. CallsOK /\ RowsOK /\ InvitesOK /\ ContextOK /\ UsersTyped BY PartsOK
<1>2. c.op = "login" /\ c.at = "recheck" BY DEF LoginProvision, At
<1>3. /\ c \in Calls /\ c.by \in People /\ (c.fam # NoOne => c.fam \in Families /\ Born(c.fam))
      /\ c.on \in Ids /\ c.on \in Keys
  BY <1>1, <1>2, InLoginOK
<1>4. UNCHANGED <<users, cognito, family, member, invites>> BY DEF LoginProvision
<1>5. UsersTyped' BY <1>1, <1>4 DEF UsersTyped
<1>6. BornKept BY <1>1, <1>4, FamiliesAlone
<1>7. CASE End(s) /\ \E f \in FamiliesOf(c.on) : Enter(c.by, f, member[f][c.on])
  <2>1. PICK f \in Families : member[f][c.on] # "none" /\ Enter(c.by, f, member[f][c.on])
    BY <1>7 DEF FamiliesOf
  <2> DEFINE n == [fam |-> f, role |-> member[f][c.on]]
  <2>2. n \in {NoContext} \cup [fam: Families, role: Roles] /\ n.fam = f
    BY <1>1, <1>3, <2>1 DEF RowsOK, RowsTyped
  <2>3. family'[f].state # "unborn"
    BY <1>1, <1>3, <1>4, <2>1 DEF RowsOK, UnbornIsEmpty, Born
  <2>4. context' = [context EXCEPT ![c.by] = n] BY <2>1 DEF Enter
  <2> HIDE DEF n
  <2>5. ContextOK' BY <1>1, <1>3, <1>6, <2>2, <2>3, <2>4, Entered
  <2>6. CallsOK' BY <1>1, <1>6, <1>7, Ended DEF CallsOK, BornKept
  <2>7. RowsOK' /\ InvitesOK' BY <1>1, <1>4, <1>6, RowsAlone, InvitesAlone
  <2> QED BY <1>5, <2>5, <2>6, <2>7, PartsNext
<1>8. CASE Go(s, "tenant") /\ UNCHANGED context
  <2> DEFINE d == [c EXCEPT !.at = "tenant"]
  <2>1. d \in Calls /\ CallOK(d) /\ d.fam = c.fam
    BY <1>2, <1>3 DEF Calls, CallOK, Steps, OnMember, OnFamily
  <2>2. Start(s, d) BY <1>8 DEF Go, Start
  <2> HIDE DEF d
  <2> QED BY <1>3, <1>4, <1>5, <1>8, <2>1, <2>2, LoginReads
<1> QED BY <1>7, <1>8 DEF LoginProvision

LEMMA CreateTenantKeeps == ASSUME IInv, NEW s \in Sessions, CreateTenant(s) PROVE IInv'
<1> DEFINE c == call[s]
<1>1. CallsOK /\ RowsOK /\ InvitesOK /\ ContextOK /\ UsersTyped BY PartsOK
<1>2. c.op = "login" /\ c.at = "tenant" BY DEF CreateTenant, At
<1>3. c \in Calls /\ c.by \in People /\ c.on \in Ids /\ c.on \in Keys BY <1>1, <1>2, InLoginOK
<1>4. UNCHANGED <<users, cognito, invites, context>> BY DEF CreateTenant
<1>5. PICK f \in Families : /\ family[f].state = "unborn"
                            /\ family' = [family EXCEPT ![f] = [state |-> "live", owner |-> c.on]]
                            /\ member' = SetRole(f, c.on, "owner")
                            /\ call' = [call EXCEPT ![s].fam = f, ![s].at = "member"]
  BY DEF CreateTenant
<1>6. UsersTyped' BY <1>1, <1>4 DEF UsersTyped
<1>7. BornKept
  BY <1>1, <1>3, <1>5, BornStays, [state |-> "live", owner |-> c.on] \in
        [state: {"live", "gone"}, owner: Keys \cup {NoOne}] DEF RowsOK, BornKept
<1>8. RowsOK' BY <1>1, <1>3, <1>5, FamilyMade DEF Born
<1>9. CallsOK'
  <2> DEFINE d == [c EXCEPT !.fam = f, !.at = "member"]
  <2>1. d \in Calls /\ CallOK(d) /\ d.fam = f
    BY <1>2, <1>3 DEF Calls, CallOK, Steps, OnMember, OnFamily
  <2>2. Start(s, d) BY <1>1, <1>5 DEF Start, CallsOK, CallsTyped
  <2>3. family'[f].state # "unborn" BY <1>1, <1>5 DEF RowsOK, RowsTyped
  <2> HIDE DEF d
  <2> QED BY <1>1, <1>7, <2>1, <2>2, <2>3, Started DEF CallsOK, BornKept
<1> QED BY <1>1, <1>4, <1>6, <1>7, <1>8, <1>9, InvitesAlone, ContextAlone, PartsNext

LEMMA LoginMemberKeeps == ASSUME IInv, NEW s \in Sessions, LoginMember(s) PROVE IInv'
<1> DEFINE c == call[s]
<1>1. CallsOK /\ RowsOK /\ InvitesOK /\ ContextOK /\ UsersTyped BY PartsOK
<1>2. c.op = "login" /\ c.at = "member" BY DEF LoginMember, At
<1>3. /\ c \in Calls /\ c.by \in People /\ c.on \in Keys /\ c.fam \in Families /\ c.fam # NoOne
      /\ Born(c.fam)
  BY <1>1, <1>2, InLoginOK, MembershipAssumption
<1>4. UNCHANGED <<users, cognito, family, invites>> /\ End(s) BY DEF LoginMember
<1>5. UsersTyped' BY <1>1, <1>4 DEF UsersTyped
<1>6. BornKept BY <1>1, <1>4, FamiliesAlone
<1>7. CallsOK' BY <1>1, <1>4, <1>6, Ended DEF CallsOK, BornKept
<1>8. InvitesOK' BY <1>1, <1>4, <1>6, InvitesAlone
<1>9. CASE /\ Insertable(c.fam, c.on, "owner") /\ member' = SetRole(c.fam, c.on, "owner")
           /\ Enter(c.by, c.fam, "owner")
  <2>1. member[c.fam][c.on] # "owner" /\ OwnersOf(c.fam) = {} BY <1>9 DEF Insertable
  <2>2. RowsOK' BY <1>1, <1>3, <1>4, <1>9, <2>1, RoleWritten DEF Roles
  <2> DEFINE n == [fam |-> c.fam, role |-> "owner"]
  <2>3. n \in {NoContext} \cup [fam: Families, role: Roles] /\ n.fam = c.fam BY <1>3 DEF Roles
  <2>4. family'[c.fam].state # "unborn" BY <1>3, <1>4 DEF Born
  <2>5. context' = [context EXCEPT ![c.by] = n] BY <1>9 DEF Enter
  <2> HIDE DEF n
  <2>6. ContextOK' BY <1>1, <1>3, <1>6, <2>3, <2>4, <2>5, Entered
  <2> QED BY <1>5, <1>7, <1>8, <2>2, <2>6, PartsNext
<1>10. CASE UNCHANGED <<member, context>>
  BY <1>1, <1>4, <1>5, <1>6, <1>7, <1>8, <1>10, RowsAlone, ContextAlone, PartsNext
<1> QED BY <1>9, <1>10 DEF LoginMember

-----------------------------------------------------------------------------
(* Invitations.                                                            *)

LEMMA CreateInviteKeeps ==
    ASSUME IInv, NEW p \in People, NEW r \in InviteRoles, CreateInvite(p, r), r \in Roles
    PROVE  IInv'
<1>1. CallsOK /\ RowsOK /\ InvitesOK /\ ContextOK /\ UsersTyped BY PartsOK
<1>2. UNCHANGED <<users, cognito, family, member, context, call>> BY DEF CreateInvite
<1>3. BornKept BY <1>1, <1>2, FamiliesAlone
<1>4. PICK i \in Invites :
         invites' = [invites EXCEPT ![i] = [state |-> "pending", fam |-> context[p].fam, role |-> r]]
  BY DEF CreateInvite
<1>5. context[p] # NoContext BY DEF CreateInvite, NoContext
<1>6. context[p].fam \in Families /\ Born(context[p].fam)
  BY <1>1, <1>5 DEF ContextOK, ContextTyped, ContextBorn
<1>7. InvitesTyped' BY <1>1, <1>4, <1>6 DEF InvitesOK, InvitesTyped
<1>8. InvitesBorn'
  <2> SUFFICES ASSUME NEW j \in Invites, invites'[j].state = "pending"
               PROVE  family'[invites'[j].fam].state # "unborn"
    BY DEF InvitesBorn, Born
  <2>1. CASE j = i BY <1>1, <1>2, <1>4, <1>6, <2>1 DEF InvitesOK, InvitesTyped, Born
  <2>2. CASE j # i
    BY <1>1, <1>2, <1>4, <2>2 DEF InvitesOK, InvitesTyped, InvitesBorn, Born
  <2> QED BY <2>1, <2>2
<1>9. RowsOK' /\ ContextOK' BY <1>1, <1>2, <1>3, RowsAlone, ContextAlone
<1>10. CallsOK' BY <1>1, <1>2 DEF CallsOK, CallsTyped, CallsBorn, Born
<1>11. UsersTyped' BY <1>1, <1>2 DEF UsersTyped
<1> QED BY <1>7, <1>8, <1>9, <1>10, <1>11, PartsNext DEF InvitesOK

LEMMA CloseInviteKeeps ==
    ASSUME IInv, NEW i \in Invites, invites' = [invites EXCEPT ![i] = Closed],
           UNCHANGED <<users, cognito, family, member, context, call>>
    PROVE  IInv'
<1>1. CallsOK /\ RowsOK /\ InvitesOK /\ ContextOK /\ UsersTyped BY PartsOK
<1>2. BornKept BY <1>1, FamiliesAlone
<1>3. DOMAIN invites' = Invites /\ invites' = [j \in Invites |-> invites'[j]]
  BY <1>1 DEF InvitesOK, InvitesTyped
<1>4. \A j \in Invites : invites'[j] = invites[j] \/ invites'[j] = Closed
  BY <1>1 DEF InvitesOK, InvitesTyped
<1>5. InvitesOK' BY <1>1, <1>2, <1>3, <1>4, InvitesClosed
<1>6. RowsOK' /\ ContextOK' BY <1>1, <1>2, RowsAlone, ContextAlone
<1>7. CallsOK' BY <1>1 DEF CallsOK, CallsTyped, CallsBorn, Born
<1>8. UsersTyped' BY <1>1 DEF UsersTyped
<1> QED BY <1>5, <1>6, <1>7, <1>8, PartsNext

-----------------------------------------------------------------------------
(* Requests about members.                                                 *)

LEMMA AskKeeps ==
    ASSUME IInv, NEW s \in Sessions, NEW p \in People, context[p].role # "none",
           NEW op \in OnMember \cup OnFamily, NEW a \in Steps, NEW me \in Keys \cup {NoOne},
           NEW k \in Keys \cup {NoOne}, op \in OnMember => k \in Keys,
           op \in {"transfer", "transferLeave"} => me \in Keys, Ask(s, p, op, a, me, k)
    PROVE  IInv'
<1> DEFINE f == context[p].fam
           d == [Idle EXCEPT !.op = op, !.at = a, !.by = me, !.fam = f, !.on = k]
<1>1. CallsOK /\ ContextOK /\ UsersTyped BY PartsOK
<1>2. context[p] # NoContext BY DEF NoContext
<1>3. f \in Families /\ Born(f) BY <1>1, <1>2 DEF ContextOK, ContextTyped, ContextBorn
<1>4. Start(s, d) /\ UNCHANGED <<users, cognito, family, member, invites, context>> BY DEF Ask
<1> HIDE DEF f
<1>5. d \in Calls /\ CallOK(d) /\ d.fam = f
  BY <1>3, IdleIsCall DEF Idle, Calls, CallOK, OnMember, OnFamily
<1>6. UsersTyped' BY <1>1, <1>4 DEF UsersTyped
<1> HIDE DEF d
<1> QED BY <1>3, <1>4, <1>5, <1>6, LoginReads

(* A request on members or on a family: its record, and the family.        *)
LEMMA InRequestOK ==
    ASSUME CallsOK, NEW s \in Sessions, call[s].op \in OnMember \cup OnFamily
    PROVE  /\ call[s].fam \in Families /\ Born(call[s].fam)
           /\ call[s].op \in OnMember => call[s].on \in Keys
           /\ call[s].op \in {"transfer", "transferLeave"} => call[s].by \in Keys
  BY MembershipAssumption DEF CallsOK, CallsTyped, CallsBorn, CallOK

LEMMA GoOnOK ==
    ASSUME CallsOK, NEW s \in Sessions, call[s].op \in OnMember \cup OnFamily,
           NEW then \in Steps \cup {"end"}, GoOn(s, then) \/ End(s), BornKept
    PROVE  CallsOK'
<1>1. CASE End(s) BY <1>1, Ended DEF CallsOK, BornKept
<1>2. CASE GoOn(s, then)
  <2>1. CASE then = "end" BY <1>2, <2>1, Ended DEF CallsOK, BornKept, GoOn
  <2>2. CASE then # "end" BY <1>2, <2>2, WentOn DEF CallsOK, BornKept, GoOn
  <2> QED BY <2>1, <2>2
<1> QED BY <1>1, <1>2

LEMMA DeleteKeeps ==
    ASSUME IInv, NEW s \in Sessions, call[s].op \in OnMember, NEW k \in Keys,
           NEW then \in Steps \cup {"end"}, Delete(s, k, then)
    PROVE  IInv'
<1> DEFINE f == call[s].fam
<1>1. CallsOK /\ RowsOK /\ InvitesOK /\ ContextOK /\ UsersTyped BY PartsOK
<1>2. f \in Families /\ Born(f) BY <1>1, InRequestOK
<1>3. UNCHANGED <<users, cognito, family, invites, context>> BY DEF Delete
<1>4. BornKept BY <1>1, <1>3, FamiliesAlone
<1>5. RowsOK'
  <2>1. CASE Deletable(f, k) /\ member' = SetRole(f, k, "none")
    <3>1. member[f][k] # "owner" BY <2>1 DEF Deletable
    <3> HIDE DEF f
    <3> QED BY <1>1, <1>2, <1>3, <2>1, <3>1, RoleWritten
  <2>2. CASE UNCHANGED member BY <1>1, <1>3, <2>2, RowsAlone
  <2> QED BY <2>1, <2>2 DEF Delete
<1>6. CallsOK' BY <1>1, <1>4, GoOnOK DEF Delete
<1>7. InvitesOK' /\ ContextOK' BY <1>1, <1>3, <1>4, InvitesAlone, ContextAlone
<1>8. UsersTyped' BY <1>1, <1>3 DEF UsersTyped
<1> QED BY <1>5, <1>6, <1>7, <1>8, PartsNext

LEMMA InsertKeeps ==
    ASSUME IInv, NEW s \in Sessions, call[s].op \in OnMember, NEW k \in Keys, NEW r \in Roles,
           NEW then \in Steps \cup {"end"}, Insert(s, k, r, then)
    PROVE  IInv'
<1> DEFINE f == call[s].fam
<1>1. CallsOK /\ RowsOK /\ InvitesOK /\ ContextOK /\ UsersTyped BY PartsOK
<1>2. f \in Families /\ Born(f) BY <1>1, InRequestOK
<1>3. UNCHANGED <<users, cognito, family, invites, context>> BY DEF Insert
<1>4. BornKept BY <1>1, <1>3, FamiliesAlone
<1>5. RowsOK'
  <2>1. CASE Insertable(f, k, r) /\ member' = SetRole(f, k, r)
    <3>1. member[f][k] # "owner" /\ (r = "owner" => OwnersOf(f) = {}) BY <2>1 DEF Insertable
    <3> HIDE DEF f
    <3> QED BY <1>1, <1>2, <1>3, <2>1, <3>1, RoleWritten
  <2>2. CASE UNCHANGED member BY <1>1, <1>3, <2>2, RowsAlone
  <2> QED BY <2>1, <2>2 DEF Insert
<1>6. CallsOK' BY <1>1, <1>4, GoOnOK DEF Insert
<1>7. InvitesOK' /\ ContextOK' BY <1>1, <1>3, <1>4, InvitesAlone, ContextAlone
<1>8. UsersTyped' BY <1>1, <1>3 DEF UsersTyped
<1> QED BY <1>5, <1>6, <1>7, <1>8, PartsNext

LEMMA PromoteKeeps ==
    ASSUME IInv, NEW s \in Sessions, call[s].op \in OnMember, NEW k \in Keys,
           NEW then \in Steps \cup {"end"}, Promote(s, k, then)
    PROVE  IInv'
<1> DEFINE f == call[s].fam
<1>1. CallsOK /\ RowsOK /\ InvitesOK /\ ContextOK /\ UsersTyped BY PartsOK
<1>2. f \in Families /\ Born(f) BY <1>1, InRequestOK
<1>3. UNCHANGED <<users, cognito, invites, context>> BY DEF Promote
<1>4. RowsOK' /\ BornKept
  <2>1. CASE /\ member' = Promoted(f, k)
             /\ family' = IF family[f].state = "live" THEN [family EXCEPT ![f].owner = k] ELSE family
    <3> HIDE DEF f
    <3>1. RowsOK' BY <1>1, <1>2, <2>1, OwnerMoved
    <3>2. RowsTyped /\ (UNCHANGED family \/ family' = [family EXCEPT ![f].owner = k])
      BY <1>1, <2>1 DEF RowsOK
    <3>3. BornKept BY <1>2, <3>2, BornStays DEF BornKept
    <3> QED BY <3>1, <3>3
  <2>2. CASE UNCHANGED <<family, member>> BY <1>1, <2>2, RowsAlone, FamiliesAlone
  <2> QED BY <2>1, <2>2 DEF Promote
<1>5. CallsOK' BY <1>1, <1>4, GoOnOK DEF Promote
<1>6. InvitesOK' /\ ContextOK' BY <1>1, <1>3, <1>4, InvitesAlone, ContextAlone
<1>7. UsersTyped' BY <1>1, <1>3 DEF UsersTyped
<1> QED BY <1>4, <1>5, <1>6, <1>7, PartsNext

LEMMA ForgetKeeps ==
    ASSUME IInv, NEW s \in Sessions, call[s].op \in OnMember \cup OnFamily, NEW ks, Forget(ks),
           NEW then \in Steps \cup {"end"}, GoOn(s, then),
           UNCHANGED <<family, member, invites, context>>
    PROVE  IInv'
<1>1. CallsOK /\ RowsOK /\ InvitesOK /\ ContextOK /\ UsersTyped BY PartsOK
<1>2. BornKept BY <1>1, FamiliesAlone
<1>3. CallsOK' BY <1>1, <1>2, GoOnOK
<1>4. UsersTyped' BY <1>1, UsersForgotten
<1> QED BY <1>1, <1>2, <1>3, <1>4, RowsAlone, InvitesAlone, ContextAlone, PartsNext

(* The invites of a family go.                                             *)
LEMMA NoInvitesOK ==
    ASSUME InvitesOK, BornKept, NEW f, invites' = NoInvites(f)
    PROVE  InvitesOK'
<1>1. DOMAIN invites' = Invites /\ invites' = [j \in Invites |-> invites'[j]] BY DEF NoInvites
<1>2. \A j \in Invites : invites'[j] = invites[j] \/ invites'[j] = Closed BY DEF NoInvites
<1> QED BY <1>1, <1>2, InvitesClosed

LEMMA InvitesGoKeeps ==
    ASSUME IInv, NEW s \in Sessions, call[s].op \in OnFamily, NEW a \in Steps, Go(s, a), NEW f,
           invites' = NoInvites(f), UNCHANGED <<users, cognito, family, member, context>>
    PROVE  IInv'
<1>1. CallsOK /\ RowsOK /\ InvitesOK /\ ContextOK /\ UsersTyped BY PartsOK
<1>2. BornKept BY <1>1, FamiliesAlone
<1>3. CallsOK' BY <1>1, <1>2, WentOn DEF CallsOK, BornKept
<1>4. UsersTyped' BY <1>1 DEF UsersTyped
<1> QED BY <1>1, <1>2, <1>3, <1>4, RowsAlone, NoInvitesOK, ContextAlone, PartsNext

LEMMA MembersGoKeeps ==
    ASSUME IInv, NEW s \in Sessions, call[s].op \in OnFamily, NEW a \in Steps, Go(s, a),
           member' = AllButOwner(call[s].fam), UNCHANGED <<family, invites, context>>, UsersTyped'
    PROVE  IInv'
<1>1. CallsOK /\ RowsOK /\ InvitesOK /\ ContextOK BY PartsOK
<1>2. BornKept BY <1>1, FamiliesAlone
<1>3. CallsOK' BY <1>1, <1>2, WentOn DEF CallsOK, BornKept
<1>4. call[s].fam \in Families BY <1>1, InRequestOK
<1>5. RowsOK' BY <1>1, <1>4, MembersGone
<1> QED BY <1>1, <1>2, <1>3, <1>5, InvitesAlone, ContextAlone, PartsNext

LEMMA DeleteTenantKeeps == ASSUME IInv, NEW s \in Sessions, DeleteTenant(s) PROVE IInv'
<1> DEFINE f == call[s].fam
<1>1. CallsOK /\ RowsOK /\ InvitesOK /\ ContextOK /\ UsersTyped BY PartsOK
<1>2. f \in Families /\ Born(f) BY <1>1, InRequestOK DEF DeleteTenant
<1>3. /\ family' = [family EXCEPT ![f] = [state |-> "gone", owner |-> NoOne]]
      /\ member' = [member EXCEPT ![f] = [k \in Keys |-> "none"]]
      /\ invites' = NoInvites(f) /\ End(s) /\ UNCHANGED <<users, cognito, context>>
  BY DEF DeleteTenant
<1> HIDE DEF f
<1>4. RowsOK' BY <1>1, <1>2, <1>3, FamilyGone
<1>5. BornKept
  BY <1>1, <1>2, <1>3, BornStays, [state |-> "gone", owner |-> NoOne] \in
        [state: {"live", "gone"}, owner: Keys \cup {NoOne}] DEF RowsOK, BornKept
<1>6. CallsOK' BY <1>1, <1>3, <1>5, Ended DEF CallsOK, BornKept
<1>7. UsersTyped' BY <1>1, <1>3 DEF UsersTyped
<1> QED BY <1>1, <1>3, <1>4, <1>5, <1>6, <1>7, NoInvitesOK, ContextAlone, PartsNext

LEMMA CutOffKeeps == ASSUME IInv, NEW s \in Sessions, CutOff(s) PROVE IInv'
<1>1. UsersTyped' BY PartsOK DEF UsersTyped, CutOff
<1>2. Start(s, Idle) /\ UNCHANGED <<family, member, invites, context>> BY DEF CutOff, End, Start
<1> QED BY <1>1, <1>2, IdleIsCall, LoginReads

-----------------------------------------------------------------------------
LEMMA AskForKeeps == ASSUME IInv, NEW s \in Sessions, NEW p \in People, AskFor(s, p) PROVE IInv'
<1> USE DEF Steps, OnMember, OnFamily, Keys
<1>1. ASSUME NEW i \in Invites \cup {NoOne}, Login(s, p, i) PROVE IInv' BY <1>1, LoginKeeps
<1>2. CASE AskAsOwner(s, p)
  <2>1. context[p].role # "none" BY <1>2 DEF AskAsOwner
  <2>2. CallerKey(p) \in Keys BY DEF CallerKey
  <2>3. ASSUME NEW k \in Ids, Ask(s, p, "remove", "member", NoOne, k) PROVE IInv'
    BY <2>1, <2>3, AskKeeps
  <2>4. ASSUME NEW k \in Ids, Ask(s, p, "transfer", "out", CallerKey(p), k) PROVE IInv'
    BY <2>1, <2>2, <2>4, AskKeeps
  <2>5. ASSUME NEW k \in Ids, Ask(s, p, "transferLeave", "owner", CallerKey(p), k) PROVE IInv'
    BY <2>1, <2>2, <2>5, AskKeeps
  <2>6. CASE Ask(s, p, "deleteAlone", "members", NoOne, NoOne) BY <2>1, <2>6, AskKeeps
  <2>7. CASE Ask(s, p, "deleteAll", "invites", NoOne, CallerKey(p)) BY <2>1, <2>2, <2>7, AskKeeps
  <2> QED BY <1>2, <2>3, <2>4, <2>5, <2>6, <2>7 DEF AskAsOwner
<1>3. CASE AskAsMember(s, p)
  <2>1. context[p].role # "none" BY <1>3 DEF AskAsMember
  <2>2. CallerKey(p) \in Keys BY DEF CallerKey
  <2>3. CASE Ask(s, p, "leave", "member", NoOne, CallerKey(p)) BY <2>1, <2>2, <2>3, AskKeeps
  <2>4. CASE Ask(s, p, "quit", "member", NoOne, CallerKey(p)) BY <2>1, <2>2, <2>4, AskKeeps
  <2> QED BY <1>3, <2>3, <2>4 DEF AskAsMember
<1> QED BY <1>1, <1>2, <1>3 DEF AskFor

LEMMA StepKeeps == ASSUME IInv, NEW s \in Sessions, Step(s) PROVE IInv'
<1> USE DEF Steps, OnMember, OnFamily, At
<1>1. CallsOK BY PartsOK
<1>2. call[s].op \in OnMember => call[s].on \in Keys BY <1>1, InRequestOK
<1>3. call[s].op \in {"transfer", "transferLeave"} => call[s].by \in Keys BY <1>1, InRequestOK
<1>4. CASE LoginStep(s)
  BY <1>4, LoginCreateKeeps, LoginCheckKeeps, LoginAcceptKeeps, LoginProvisionKeeps,
     CreateTenantKeeps, LoginMemberKeeps DEF LoginStep
<1>5. CASE Remove(s) BY <1>2, <1>5, DeleteKeeps DEF Remove
<1>6. CASE Leave(s) BY <1>2, <1>6, DeleteKeeps DEF Leave
<1>7. CASE Quit(s)
  <2>1. CASE At(s, "quit", "member") /\ Delete(s, call[s].on, "user") BY <1>2, <2>1, DeleteKeeps
  <2>2. CASE /\ At(s, "quit", "user") /\ Forget({call[s].on}) /\ End(s)
             /\ UNCHANGED <<family, member, invites, context>>
    BY <2>2, ForgetKeeps DEF GoOn
  <2> QED BY <1>7, <2>1, <2>2 DEF Quit
<1>8. CASE Transfer(s)
  <2> DEFINE k == call[s].on  me == call[s].by
  <2>1. CASE At(s, "transfer", "out") /\ Delete(s, k, "in") BY <1>2, <2>1, DeleteKeeps
  <2>2. CASE At(s, "transfer", "in") /\ Insert(s, k, "owner", "outOld")
    BY <1>2, <2>2, InsertKeeps DEF Roles
  <2>3. CASE At(s, "transfer", "outOld") /\ Delete(s, me, "inOld") BY <1>3, <2>3, DeleteKeeps
  <2>4. CASE At(s, "transfer", "inOld") /\ Insert(s, me, "parent", "owner")
    BY <1>3, <2>4, InsertKeeps DEF Roles
  <2>5. CASE At(s, "transfer", "owner") /\ Promote(s, k, "end") BY <1>2, <2>5, PromoteKeeps
  <2> QED BY <1>8, <2>1, <2>2, <2>3, <2>4, <2>5 DEF Transfer
<1>9. CASE TransferLeave(s)
  <2> DEFINE k == call[s].on  me == call[s].by
  <2>1. CASE At(s, "transferLeave", "owner") /\ Promote(s, k, "out") BY <1>2, <2>1, PromoteKeeps
  <2>2. CASE At(s, "transferLeave", "out") /\ Delete(s, k, "in") BY <1>2, <2>2, DeleteKeeps
  <2>3. CASE At(s, "transferLeave", "in") /\ Insert(s, k, "owner", "outOld")
    BY <1>2, <2>3, InsertKeeps DEF Roles
  <2>4. CASE At(s, "transferLeave", "outOld") /\ Delete(s, me, "user") BY <1>3, <2>4, DeleteKeeps
  <2>5. CASE /\ At(s, "transferLeave", "user") /\ Forget({me}) /\ End(s)
             /\ UNCHANGED <<family, member, invites, context>>
    BY <2>5, ForgetKeeps DEF GoOn
  <2> QED BY <1>9, <2>1, <2>2, <2>3, <2>4, <2>5 DEF TransferLeave
<1>10. CASE DeleteAlone(s)
  <2>1. CASE /\ At(s, "deleteAlone", "members") /\ member' = AllButOwner(call[s].fam)
             /\ Forget(MembersOf(call[s].fam)) /\ Go(s, "invites")
             /\ UNCHANGED <<family, invites, context>>
    <3>1. UsersTyped' BY <2>1, PartsOK, UsersForgotten
    <3> QED BY <2>1, <3>1, MembersGoKeeps
  <2>2. CASE /\ At(s, "deleteAlone", "invites") /\ invites' = NoInvites(call[s].fam) /\ Go(s, "erase")
             /\ UNCHANGED <<users, cognito, family, member, context>>
    BY <2>2, InvitesGoKeeps
  <2> QED BY <1>10, <2>1, <2>2 DEF DeleteAlone
<1>11. CASE DeleteAll(s)
  <2>1. CASE /\ At(s, "deleteAll", "invites") /\ invites' = NoInvites(call[s].fam) /\ Go(s, "members")
             /\ UNCHANGED <<users, cognito, family, member, context>>
    BY <2>1, InvitesGoKeeps
  <2>2. CASE /\ At(s, "deleteAll", "members") /\ member' = AllButOwner(call[s].fam) /\ Go(s, "user")
             /\ UNCHANGED <<users, cognito, family, invites, context>>
    <3>1. UsersTyped' BY <2>2, PartsOK DEF UsersTyped
    <3> QED BY <2>2, <3>1, MembersGoKeeps
  <2>3. CASE /\ At(s, "deleteAll", "user") /\ Forget({call[s].on}) /\ Go(s, "erase")
             /\ UNCHANGED <<family, member, invites, context>>
    BY <2>3, ForgetKeeps DEF GoOn
  <2> QED BY <1>11, <2>1, <2>2, <2>3 DEF DeleteAll
<1>12. CASE DeleteTenant(s) BY <1>12, DeleteTenantKeeps
<1> QED BY <1>4, <1>5, <1>6, <1>7, <1>8, <1>9, <1>10, <1>11, <1>12 DEF Step

LEMMA NextKeeps == IInv /\ [Next]_vars => IInv'
<1> SUFFICES ASSUME IInv, [Next]_vars PROVE IInv'
  OBVIOUS
<1>1. ASSUME NEW s \in Sessions, Step(s) PROVE IInv' BY <1>1, StepKeeps
<1>2. ASSUME NEW s \in Sessions, CutOff(s) PROVE IInv' BY <1>2, CutOffKeeps
<1>3. ASSUME NEW s \in Sessions, NEW p \in People, AskFor(s, p) PROVE IInv' BY <1>3, AskForKeeps
<1>4. ASSUME NEW p \in People, NEW r \in InviteRoles, CreateInvite(p, r) PROVE IInv'
  BY <1>4, CreateInviteKeeps, MembershipAssumption DEF Roles
<1>5. ASSUME NEW p \in People, NEW i \in Invites, RevokeInvite(p, i) PROVE IInv'
  BY <1>5, CloseInviteKeeps DEF RevokeInvite
<1>6. ASSUME NEW i \in Invites, InviteAges(i) PROVE IInv'
  BY <1>6, CloseInviteKeeps DEF InviteAges
<1>7. CASE UNCHANGED vars
  BY <1>7 DEF vars, IInv, StateOK, UnbornIsEmpty, KnownIsBorn, OwnerCacheAgrees, Born, Live, OwnersOf
<1> QED BY <1>1, <1>2, <1>3, <1>4, <1>5, <1>6, <1>7 DEF Next

LEMMA InitHolds == Init => IInv
<1> SUFFICES ASSUME Init PROVE IInv
  OBVIOUS
<1>1. InvitesTyped /\ InvitesBorn BY DEF Init, InvitesTyped, InvitesBorn
<1>2. CallsTyped /\ CallsBorn BY IdleIsCall DEF Init, CallsTyped, CallsBorn
<1>3. RowsTyped /\ UnbornIsEmpty BY DEF Init, RowsTyped, UnbornIsEmpty
<1>4. OwnerCacheAgrees BY DEF Init, OwnerCacheAgrees, Live
<1>5. ContextTyped /\ ContextBorn BY DEF Init, ContextTyped, ContextBorn
<1>6. UsersTyped BY DEF Init, UsersTyped
<1> QED BY <1>1, <1>2, <1>3, <1>4, <1>5, <1>6, Parts DEF RowsOK

LEMMA InvariantHolds == Spec => []IInv
  BY InitHolds, NextKeeps, PTL DEF Spec

(* The history of double logins only grows.                                *)
LEMMA TwiceTyped == Spec => [](twice \subseteq People)
<1>1. Init => twice \subseteq People BY DEF Init
<1>2. ASSUME twice \subseteq People, [Next]_vars PROVE (twice \subseteq People)'
  <2>1. ASSUME NEW s \in Sessions, Step(s) \/ CutOff(s) PROVE UNCHANGED twice
    BY <2>1 DEF Step, LoginStep, LoginCreate, LoginCheck, LoginAccept, LoginProvision, CreateTenant,
                LoginMember, Remove, Leave, Quit, Transfer, TransferLeave, DeleteAlone, DeleteAll,
                DeleteTenant, CutOff, Delete, Insert, Promote
  <2>2. ASSUME NEW s \in Sessions, NEW p \in People, AskFor(s, p) PROVE twice' \subseteq twice \cup {p}
    BY <2>2 DEF AskFor, AskAsOwner, AskAsMember, Ask, Login
  <2>3. ASSUME NEW p \in People, NEW r \in InviteRoles, CreateInvite(p, r) PROVE UNCHANGED twice
    BY <2>3 DEF CreateInvite
  <2>4. ASSUME NEW p \in People, NEW i \in Invites, RevokeInvite(p, i) PROVE UNCHANGED twice
    BY <2>4 DEF RevokeInvite
  <2>5. ASSUME NEW i \in Invites, InviteAges(i) PROVE UNCHANGED twice
    BY <2>5 DEF InviteAges
  <2> QED BY <1>2, <2>1, <2>2, <2>3, <2>4, <2>5 DEF Next, vars
<1> QED BY <1>1, <1>2, PTL DEF Spec

(* Every reachable state of users, families, memberships, invites and      *)
(* requests is well formed.                                                *)
THEOREM MembershipTyped == Spec => []TypeOK
<1>1. IInv /\ twice \subseteq People => TypeOK BY DEF IInv, TypeOK
<1> QED BY <1>1, InvariantHolds, TwiceTyped, PTL

(* families.owner_user_id names the one owner of the family, for any       *)
(* number of people and of requests that interleave or end half way.       *)
THEOREM CacheNamesOwner == Spec => []OwnerCacheAgrees
<1>1. IInv => OwnerCacheAgrees BY DEF IInv
<1> QED BY <1>1, InvariantHolds, PTL

(* No family is without an owner or has two.                               *)
THEOREM ExactlyOneOwner == Spec => []OneOwner
<1>1. ASSUME OwnerCacheAgrees PROVE OneOwner
  <2> SUFFICES ASSUME NEW f \in Families, Live(f) PROVE Cardinality(OwnersOf(f)) = 1
    BY DEF OneOwner
  <2>1. OwnersOf(f) = {family[f].owner} BY <1>1 DEF OwnerCacheAgrees
  <2> QED BY <2>1, FS_Singleton
<1> QED BY <1>1, CacheNamesOwner, PTL

-----------------------------------------------------------------------------
(* One family to whoever has not logged in twice at a time.  A row of      *)
(* memberships for a user comes from a login of that person or from a      *)
(* handover; a handover meets owner_guard unless its family is gone, and a *)
(* login makes sure before it writes that the person has no family: no     *)
(* other login of the same person comes between, as that would show.       *)

Onces == People \ twice

LiveOf(k) == {f \in FamiliesOf(k) : Live(f)}

(* What is so while a request is at c: a login is about a row of its own   *)
(* person, and about to write only where there is no family; a handover is *)
(* about someone who was there, from someone whose key is no row of users. *)
Grounded(c) ==
    /\ c.op = "login" /\ c.at # "create" => users[c.on] \in {c.by, "gone"}
    /\ c.op = "login" /\ c.at \in {"accept", "tenant"} /\ users[c.on] \in Onces => LiveOf(c.on) = {}
    /\ c.op \in OnMember /\ c.on \in Ids => users[c.on] # "free"
    /\ c.op \in {"transfer", "transferLeave"} => c.by \in People

OneAtMost   == \A k \in Ids : users[k] \in Onces => \A f, g \in LiveOf(k) : f = g
FreeIsAlone == \A k \in Ids : users[k] = "free" => FamiliesOf(k) = {}
LoginsApart ==
    \A s, t \in Sessions :
        call[s].op = "login" /\ call[t].op = "login" /\ call[s].by = call[t].by /\ call[s].by \in Onces => s = t

SoleInv == OneAtMost /\ FreeIsAlone /\ LoginsApart /\ \A s \in Sessions : Grounded(call[s])

(* What most steps do to the rows.                                         *)
NoNewFamily ==
    \A k \in Ids, f \in Families :
        member'[f][k] # "none" /\ Live(f)' => member[f][k] # "none" /\ Live(f)

UsersMoveOn ==
    /\ twice \subseteq twice'
    /\ \A k \in Ids : \/ users'[k] = users[k]
                      \/ users[k] = "free" /\ users'[k] \in People
                      \/ users[k] # "free" /\ users'[k] = "gone"

FreeStayAlone == \A k \in Ids : users[k] = "free" => FamiliesOf(k)' = {}

LEMMA GroundedStays ==
    ASSUME NoNewFamily, UsersMoveOn, NEW c \in Calls, CallOK(c), Grounded(c)
    PROVE  Grounded(c)'
<1> USE MembershipAssumption
<1>1. ASSUME c.op = "login", c.at # "create"
      PROVE  /\ users'[c.on] \in {c.by, "gone"}
             /\ users'[c.on] \in Onces' => users'[c.on] = users[c.on] /\ users[c.on] \in Onces
  <2>1. c.by \in People /\ c.on \in Ids
    BY <1>1 DEF CallOK
  <2>2. users[c.on] \in {c.by, "gone"}
    BY <1>1 DEF Grounded
  <2> QED BY <2>1, <2>2 DEF UsersMoveOn, Onces
<1>2. ASSUME c.op = "login", c.at \in {"accept", "tenant"}, users'[c.on] \in Onces'
      PROVE  LiveOf(c.on)' = {}
  <2>1. c.on \in Ids /\ users[c.on] \in Onces
    BY <1>1, <1>2 DEF CallOK
  <2>2. LiveOf(c.on) = {}
    BY <1>2, <2>1 DEF Grounded
  <2> QED BY <2>1, <2>2 DEF NoNewFamily, LiveOf, FamiliesOf
<1>3. ASSUME c.op \in OnMember, c.on \in Ids PROVE users'[c.on] # "free"
  BY <1>3 DEF Grounded, UsersMoveOn
<1> QED BY <1>1, <1>2, <1>3 DEF Grounded

(* A step that gives nobody a family.                                      *)
LEMMA Framed ==
    ASSUME IInv, SoleInv, NoNewFamily, UsersMoveOn, FreeStayAlone,
           NEW s \in Sessions, NEW c, call' = [call EXCEPT ![s] = c], Grounded(c)',
           c.op = "login" => \A t \in Sessions \ {s} :
                                 call[t].op = "login" => call[t].by # c.by \/ c.by \in twice'
    PROVE  SoleInv'
<1> USE MembershipAssumption
<1>1. \A t \in Sessions : call'[t] = IF t = s THEN c ELSE call[t]
  BY DEF IInv, StateOK
<1>2. ASSUME NEW t \in Sessions PROVE Grounded(call[t])'
  <2>1. PICK d : d = call[t]
    OBVIOUS
  <2>2. d \in Calls /\ CallOK(d) /\ Grounded(d)
    BY <2>1 DEF IInv, StateOK, SoleInv
  <2>3. Grounded(d)'
    BY <2>2, GroundedStays
  <2>4. call'[t] = d \/ call'[t] = c
    BY <1>1, <2>1
  <2> QED BY <2>3, <2>4 DEF Grounded
<1>3. OneAtMost'
  <2>1. ASSUME NEW k \in Ids, users'[k] \in Onces', NEW f \in LiveOf(k)', NEW g \in LiveOf(k)' PROVE f = g
    <3>1. f \in LiveOf(k) /\ g \in LiveOf(k)
      BY <2>1 DEF NoNewFamily, LiveOf, FamiliesOf
    <3>2. users[k] \in Onces
      BY <2>1, <3>1 DEF UsersMoveOn, Onces, SoleInv, FreeIsAlone, LiveOf
    <3> QED BY <3>1, <3>2 DEF SoleInv, OneAtMost
  <2> QED BY <2>1 DEF OneAtMost
<1>4. FreeIsAlone'
  BY DEF FreeIsAlone, FreeStayAlone, UsersMoveOn
<1>5. LoginsApart'
  BY <1>1 DEF LoginsApart, SoleInv, UsersMoveOn, Onces
<1>6. (\A t \in Sessions : Grounded(call[t]))'
  BY <1>2
<1> QED BY <1>3, <1>4, <1>5, <1>6 DEF SoleInv

LEMMA IdleGrounded == Grounded(Idle)' /\ Idle.op = "idle"
  BY DEF Grounded, Idle, OnMember

(* A request on members or on a family goes on, or ends.                   *)
LEMMA RequestFramed ==
    ASSUME IInv, SoleInv, NoNewFamily, UsersMoveOn, FreeStayAlone, NEW s \in Sessions,
           call[s].op \in OnMember \cup OnFamily, NEW then, Go(s, then) \/ End(s)
    PROVE  SoleInv'
<1>1. CASE End(s)
  BY <1>1, IdleGrounded, Framed DEF End
<1>2. CASE Go(s, then)
  <2>1. PICK c : c = [call[s] EXCEPT !.at = then]
    OBVIOUS
  <2>2. PICK d : d = call[s]
    OBVIOUS
  <2>3. d \in Calls /\ CallOK(d) /\ Grounded(d) /\ d.op \in OnMember \cup OnFamily
    BY <2>2 DEF IInv, StateOK, SoleInv
  <2>4. c.op = d.op /\ c.on = d.on /\ c.by = d.by /\ c.op # "login"
    BY <2>1, <2>2, <2>3 DEF Calls, OnMember, OnFamily
  <2>5. Grounded(d)'
    BY <2>3, GroundedStays
  <2>6. Grounded(c)'
    BY <2>4, <2>5 DEF Grounded
  <2>7. call' = [call EXCEPT ![s] = c]
    BY <1>2, <2>1 DEF Go
  <2> QED BY <2>4, <2>6, <2>7, Framed
<1> QED BY <1>1, <1>2

(* Rows of memberships go, or change their role.                           *)
LEMMA Shrunk ==
    ASSUME IInv, SoleInv, UsersMoveOn, NEW s \in Sessions,
           call[s].op \in OnMember \cup OnFamily, NEW then, Go(s, then) \/ End(s),
           \A k \in Ids, f \in Families : member'[f][k] # "none" => member[f][k] # "none",
           \A f \in Families : Live(f)' => Live(f)
    PROVE  SoleInv'
<1>1. NoNewFamily
  BY DEF NoNewFamily
<1>2. FreeStayAlone
  BY DEF FreeStayAlone, SoleInv, FreeIsAlone, FamiliesOf
<1> QED BY <1>1, <1>2, RequestFramed

LEMMA UsersForgottenMoveOn == ASSUME NEW ks, Forget(ks), UNCHANGED twice PROVE UsersMoveOn
  BY DEF Forget, UsersMoveOn

LEMMA RoleSet ==
    ASSUME IInv, NEW f \in Families, NEW k \in Keys, NEW r, member' = SetRole(f, k, r)
    PROVE  \A g \in Families, j \in Keys : member'[g][j] = IF g = f /\ j = k THEN r ELSE member[g][j]
  BY DEF SetRole, IInv, StateOK

LEMMA DeleteSole ==
    ASSUME IInv, SoleInv, NEW s \in Sessions, call[s].op \in OnMember, NEW k \in Keys, NEW then,
           Delete(s, k, then)
    PROVE  SoleInv'
<1> DEFINE f == call[s].fam
<1>1. f \in Families
  BY DEF IInv, StateOK, CallOK
<1>2. member' = SetRole(f, k, "none") \/ member' = member
  BY DEF Delete
<1>3. \A j \in Ids, g \in Families : member'[g][j] # "none" => member[g][j] # "none"
  <2> HIDE DEF f
  <2> QED BY <1>1, <1>2, RoleSet DEF Keys
<1>4. UsersMoveOn /\ (\A g \in Families : Live(g)' => Live(g)) /\ (Go(s, then) \/ End(s))
  BY DEF Delete, GoOn, UsersMoveOn, Live
<1> QED BY <1>3, <1>4, Shrunk

(* An owner is inserted only where the family is gone; anyone else that a  *)
(* request inserts is not a user.                                          *)
LEMMA InsertSole ==
    ASSUME IInv, SoleInv, NEW s \in Sessions, call[s].op \in OnMember, NEW k \in Keys, NEW r, NEW then,
           Insert(s, k, r, then), k \in Ids => r = "owner" /\ users[k] # "free"
    PROVE  SoleInv'
<1> DEFINE f == call[s].fam
<1>1. f \in Families
  BY DEF IInv, StateOK, CallOK
<1>2. UNCHANGED <<users, family, twice>> /\ (Go(s, then) \/ End(s))
  BY DEF Insert, GoOn
<1>3. \/ member' = member
      \/ member' = SetRole(f, k, r) /\ (r = "owner" => OwnersOf(f) = {})
  BY DEF Insert, Insertable
<1>4. OwnersOf(f) = {} => ~ Live(f)
  BY <1>1 DEF IInv, OwnerCacheAgrees
<1> HIDE DEF f
<1>5. \A j \in Ids, g \in Families :
         member'[g][j] = member[g][j] \/ (j = k /\ g = f /\ ~ Live(f) /\ users[j] # "free")
  BY <1>1, <1>3, <1>4, RoleSet DEF Keys
<1>6. NoNewFamily /\ FreeStayAlone /\ UsersMoveOn
  BY <1>2, <1>5 DEF NoNewFamily, FreeStayAlone, UsersMoveOn, SoleInv, FreeIsAlone, FamiliesOf, Live
<1> QED BY <1>2, <1>6, RequestFramed

LEMMA PromoteSole ==
    ASSUME IInv, SoleInv, NEW s \in Sessions, call[s].op \in OnMember, NEW k \in Keys, NEW then,
           Promote(s, k, then)
    PROVE  SoleInv'
<1> DEFINE f == call[s].fam
<1>1. f \in Families
  BY DEF IInv, StateOK, CallOK
<1>2. UsersMoveOn /\ (Go(s, then) \/ End(s))
  BY DEF Promote, GoOn, UsersMoveOn
<1>3. \/ member' = member /\ family' = family
      \/ /\ member[f][k] # "none" /\ member' = Promoted(f, k)
         /\ family' = IF family[f].state = "live" THEN [family EXCEPT ![f].owner = k] ELSE family
  BY DEF Promote
<1> HIDE DEF f
<1>4. \A j \in Ids, g \in Families : member'[g][j] # "none" => member[g][j] # "none"
  BY <1>1, <1>3 DEF Promoted, IInv, StateOK, Keys
<1>5. \A g \in Families : Live(g)' => Live(g)
  BY <1>1, <1>3 DEF IInv, StateOK, Live
<1> QED BY <1>2, <1>4, <1>5, Shrunk

(* The rows of memberships and families are left alone.                    *)
LEMMA ForgetSole ==
    ASSUME IInv, SoleInv, NEW s \in Sessions, call[s].op \in OnMember \cup OnFamily, NEW ks,
           Forget(ks) \/ UNCHANGED users, NEW then, Go(s, then) \/ End(s), UNCHANGED <<family, member, twice>>
    PROVE  SoleInv'
<1>1. UsersMoveOn
  BY UsersForgottenMoveOn DEF UsersMoveOn
<1> QED BY <1>1, Shrunk DEF Live

LEMMA MembersGoSole ==
    ASSUME IInv, SoleInv, NEW s \in Sessions, call[s].op \in OnFamily, NEW a, Go(s, a), NEW ks,
           Forget(ks) \/ UNCHANGED users, UNCHANGED <<family, twice>>, member' = AllButOwner(call[s].fam)
    PROVE  SoleInv'
<1>1. UsersMoveOn
  BY UsersForgottenMoveOn DEF UsersMoveOn
<1>2. call[s].fam \in Families
  BY DEF IInv, StateOK, CallOK
<1>3. \A j \in Ids, g \in Families : member'[g][j] # "none" => member[g][j] # "none"
  BY <1>2 DEF AllButOwner, IInv, StateOK, Keys
<1> QED BY <1>1, <1>3, Shrunk DEF Live

LEMMA DeleteTenantSole == ASSUME IInv, SoleInv, NEW s \in Sessions, DeleteTenant(s) PROVE SoleInv'
<1>1. call[s].op \in OnFamily /\ call[s].fam \in Families
  BY DEF DeleteTenant, IInv, StateOK, CallOK
<1>2. UsersMoveOn /\ End(s)
  BY DEF DeleteTenant, UsersMoveOn
<1>3. \A j \in Ids, g \in Families : member'[g][j] # "none" => member[g][j] # "none"
  BY <1>1 DEF DeleteTenant, IInv, StateOK, Keys
<1>4. \A g \in Families : Live(g)' => Live(g)
  BY <1>1 DEF DeleteTenant, IInv, StateOK, Live
<1> QED BY <1>1, <1>2, <1>3, <1>4, Shrunk

(* Logins.                                                                 *)
LEMMA LoginIs ==
    ASSUME IInv, SoleInv, NEW s \in Sessions, call[s].op = "login"
    PROVE  /\ call[s] \in Calls /\ call[s].by \in People /\ Grounded(call[s])
           /\ call[s].at # "create" => call[s].on \in Ids /\ users[call[s].on] \in {call[s].by, "gone"}
           /\ \A t \in Sessions \ {s} :
                  call[t].op = "login" => call[t].by # call[s].by \/ call[s].by \in twice
  BY DEF IInv, StateOK, CallOK, SoleInv, Grounded, LoginsApart, Onces

LEMMA LoginFramed ==
    ASSUME IInv, SoleInv, NEW s \in Sessions, call[s].op = "login", NEW c, Start(s, c), Grounded(c)',
           c = Idle \/ c.by = call[s].by, NoNewFamily, UsersMoveOn, FreeStayAlone
    PROVE  SoleInv'
<1>1. c.op = "login" => \A t \in Sessions \ {s} :
                            call[t].op = "login" => call[t].by # c.by \/ c.by \in twice'
  BY LoginIs, IdleGrounded DEF UsersMoveOn
<1>2. call' = [call EXCEPT ![s] = c]
  BY DEF Start
<1> QED BY <1>1, <1>2, Framed

LEMMA RowsAloneSole ==
    ASSUME SoleInv, UNCHANGED <<family, member>>
    PROVE  NoNewFamily /\ FreeStayAlone
  BY DEF NoNewFamily, FreeStayAlone, SoleInv, FreeIsAlone, FamiliesOf, Live

LEMMA FoundGrounded ==
    ASSUME NEW c \in Calls, c.op = "login", UNCHANGED users
    PROVE  /\ Grounded(Found(c)) /\ Found(c).op = "login" /\ Found(c).by = c.by
           /\ Found(c).at \notin {"accept", "tenant"}
           /\ Found(c).at # "create" => users[Found(c).on] = c.by
<1>1. CASE IdsOf(c.by) = {}
  <2>1. Found(c) = [c EXCEPT !.at = "create"]
    BY <1>1 DEF Found
  <2>2. /\ Found(c).op = "login" /\ Found(c).at = "create" /\ Found(c).by = c.by
    BY <2>1 DEF Calls
  <2> QED BY <2>2 DEF Grounded, OnMember
<1>2. CASE IdsOf(c.by) # {}
  <2> DEFINE k == CHOOSE j \in Ids : j \in IdsOf(c.by)
             a == IF c.inv = NoOne THEN "recheck" ELSE "check"
  <2>1. Found(c) = [c EXCEPT !.on = k, !.at = a]
    BY <1>2 DEF Found
  <2>2. users[k] = c.by
    BY <1>2 DEF IdsOf
  <2>3. Found(c).op = "login" /\ Found(c).by = c.by /\ Found(c).on = k /\ Found(c).at = a
    BY <2>1 DEF Calls
  <2>4. a \in {"recheck", "check"}
    OBVIOUS
  <2> HIDE DEF k, a
  <2> QED BY <2>2, <2>3, <2>4 DEF Grounded, OnMember
<1> QED BY <1>1, <1>2

(* The login looks for the person's row again.                             *)
LEMMA FoundSole ==
    ASSUME IInv, SoleInv, NEW s \in Sessions, call[s].op = "login", NEW c \in Calls, c.op = "login",
           c.by = call[s].by, Start(s, Found(c)), UNCHANGED <<users, family, member, twice>>
    PROVE  SoleInv'
<1>1. PICK d : d = Found(c)
  OBVIOUS
<1>2. /\ d.op = "login" /\ d.by = c.by /\ d.at \notin {"accept", "tenant"}
      /\ d.at # "create" => users[d.on] = c.by
  BY <1>1, FoundGrounded
<1>3. Grounded(d)'
  BY <1>2 DEF Grounded, OnMember
<1>4. UsersMoveOn
  BY DEF UsersMoveOn
<1>5. Start(s, d)
  BY <1>1
<1> QED BY <1>2, <1>3, <1>4, <1>5, RowsAloneSole, LoginFramed

LEMMA DroppedSole ==
    ASSUME IInv, SoleInv, NEW s \in Sessions, call[s].op = "login", Start(s, Dropped(call[s])),
           UNCHANGED <<users, family, member, twice>>
    PROVE  SoleInv'
<1>1. PICK c : c = [call[s] EXCEPT !.inv = NoOne]
  OBVIOUS
<1>2. c \in Calls /\ c.op = "login" /\ c.by = call[s].by
  BY <1>1, LoginIs DEF Calls
<1>3. Start(s, Found(c))
  BY <1>1 DEF Dropped
<1> QED BY <1>2, <1>3, FoundSole

LEMMA LoginEndSole ==
    ASSUME IInv, SoleInv, NEW s \in Sessions, call[s].op = "login", End(s), NoNewFamily, UsersMoveOn,
           FreeStayAlone
    PROVE  SoleInv'
<1>1. Start(s, Idle)
  BY DEF End, Start
<1> QED BY <1>1, IdleGrounded, LoginFramed

LEMMA LoginCreateSole == ASSUME IInv, SoleInv, NEW s \in Sessions, LoginCreate(s) PROVE SoleInv'
<1>1. call[s].op = "login" /\ UNCHANGED <<family, member, twice>>
  BY DEF LoginCreate, At
<1>2. ASSUME NEW k \in Ids, FreeId(k), users' = [users EXCEPT ![k] = call[s].by],
             Start(s, [call[s] EXCEPT !.on = k, !.at = IF call[s].inv = NoOne THEN "recheck" ELSE "check"])
      PROVE  SoleInv'
  <2>1. PICK c : c = [call[s] EXCEPT !.on = k, !.at = IF call[s].inv = NoOne THEN "recheck" ELSE "check"]
    OBVIOUS
  <2>2. c.op = "login" /\ c.by = call[s].by /\ c.on = k /\ c.at \in {"recheck", "check"}
    BY <1>1, <2>1, LoginIs DEF Calls
  <2>3. \A j \in Ids : users'[j] = IF j = k THEN c.by ELSE users[j]
    BY <1>2, <2>2 DEF IInv, StateOK
  <2>4. Grounded(c)'
    BY <2>2, <2>3 DEF Grounded, OnMember
  <2>5. users[k] = "free" /\ c.by \in People
    BY <1>1, <1>2, <2>2, LoginIs DEF FreeId
  <2>6. UsersMoveOn
    BY <1>1, <2>3, <2>5 DEF UsersMoveOn
  <2>7. Start(s, c)
    BY <1>2, <2>1
  <2> QED BY <1>1, <2>2, <2>4, <2>6, <2>7, RowsAloneSole, LoginFramed
<1>3. CASE UNCHANGED users /\ Start(s, Dropped(call[s]))
  BY <1>1, <1>3, DroppedSole
<1>4. CASE UNCHANGED users /\ Start(s, Idle)
  <2>1. End(s)
    BY <1>4 DEF End, Start
  <2>2. UsersMoveOn
    BY <1>1, <1>4 DEF UsersMoveOn
  <2> QED BY <1>1, <2>1, <2>2, RowsAloneSole, LoginEndSole
<1> QED BY <1>2, <1>3, <1>4 DEF LoginCreate

(* The login goes on to a step that writes, having found no family.        *)
LEMMA ClearedSole ==
    ASSUME IInv, SoleInv, NEW s \in Sessions, call[s].op = "login", call[s].at # "create",
           FamiliesOf(call[s].on) = {}, NEW a, call' = [call EXCEPT ![s] = [call[s] EXCEPT !.at = a]],
           UNCHANGED <<users, family, member, twice>>
    PROVE  SoleInv'
<1>1. PICK c : c = [call[s] EXCEPT !.at = a]
  OBVIOUS
<1>2. c.op = "login" /\ c.by = call[s].by /\ c.on = call[s].on
  BY <1>1, LoginIs DEF Calls
<1>3. users[c.on] \in {c.by, "gone"} /\ LiveOf(c.on)' = {}
  BY <1>2, LoginIs DEF LiveOf, FamiliesOf
<1>4. Grounded(c)'
  BY <1>2, <1>3 DEF Grounded, OnMember
<1>5. Start(s, c) /\ UsersMoveOn
  BY <1>1 DEF Start, UsersMoveOn
<1> QED BY <1>2, <1>4, <1>5, RowsAloneSole, LoginFramed

LEMMA LoginCheckSole == ASSUME IInv, SoleInv, NEW s \in Sessions, LoginCheck(s) PROVE SoleInv'
<1>1. call[s].op = "login" /\ call[s].at = "check" /\ UNCHANGED <<users, family, member, twice>>
  BY DEF LoginCheck, At
<1>2. CASE FamiliesOf(call[s].on) = {} /\ Start(s, [call[s] EXCEPT !.at = "accept"])
  BY <1>1, <1>2, ClearedSole DEF Start
<1>3. CASE Start(s, Dropped(call[s]))
  BY <1>1, <1>3, DroppedSole
<1> QED BY <1>2, <1>3 DEF LoginCheck

LEMMA LoginProvisionSole == ASSUME IInv, SoleInv, NEW s \in Sessions, LoginProvision(s) PROVE SoleInv'
<1>1. call[s].op = "login" /\ call[s].at = "recheck" /\ UNCHANGED <<users, family, member, twice>> /\ UsersMoveOn
  BY DEF LoginProvision, At, UsersMoveOn
<1>2. CASE End(s)
  BY <1>1, <1>2, RowsAloneSole, LoginEndSole
<1>3. CASE FamiliesOf(call[s].on) = {} /\ Go(s, "tenant")
  BY <1>1, <1>3, ClearedSole DEF Go
<1> QED BY <1>2, <1>3 DEF LoginProvision

(* The person joins a family that exists, or founds one.                   *)
LEMMA Joined ==
    ASSUME IInv, SoleInv, NEW s \in Sessions, call[s].op = "login", call[s].at \in {"accept", "tenant"},
           UNCHANGED <<users, twice>>, NEW f \in Families,
           \A j \in Ids, g \in Families :
               /\ member'[g][j] # "none" /\ Live(g)' =>
                      (member[g][j] # "none" /\ Live(g)) \/ (j = call[s].on /\ g = f)
               /\ member'[g][j] # "none" /\ j # call[s].on => member[g][j] # "none",
           NEW c, call' = [call EXCEPT ![s] = c],
           c.op = "login" => c.by = call[s].by /\ c.on = call[s].on /\ c.at = "member",
           c.op \in {"idle", "login"}
    PROVE  SoleInv'
<1> USE MembershipAssumption
<1>1. PICK k \in Ids : k = call[s].on /\ users[k] \in {call[s].by, "gone"}
  BY LoginIs
<1>2. users[k] # "free" /\ call[s].by \in People
  BY <1>1, LoginIs
<1>3. \A t \in Sessions : call'[t] = IF t = s THEN c ELSE call[t]
  BY DEF IInv, StateOK
<1>4. users[k] \in Onces => LiveOf(k) = {} /\ users[k] = call[s].by
  BY <1>1 DEF SoleInv, Grounded, Onces
<1>5. \A j \in Ids \ {k} : LiveOf(j)' \subseteq LiveOf(j) /\ FamiliesOf(j)' \subseteq FamiliesOf(j)
  BY <1>1 DEF LiveOf, FamiliesOf
<1>6. LiveOf(k)' \subseteq LiveOf(k) \cup {f}
  BY <1>1 DEF LiveOf, FamiliesOf
<1>7. OneAtMost' /\ FreeIsAlone'
  BY <1>2, <1>4, <1>5, <1>6 DEF OneAtMost, FreeIsAlone, SoleInv, Onces
<1>8. LoginsApart'
  BY <1>3 DEF LoginsApart, SoleInv, Onces
<1>9. ASSUME NEW t \in Sessions PROVE Grounded(call[t])'
  <2>1. CASE t = s
    BY <1>1, <1>3, <2>1 DEF Grounded, OnMember
  <2>2. CASE t # s
    <3>0. PICK d : d = call[t]
      OBVIOUS
    <3>1. d = call[t] /\ d = call'[t]
      BY <1>3, <2>2, <3>0
    <3>2. Grounded(d) /\ CallOK(d)
      BY <3>0 DEF SoleInv, IInv, StateOK
    <3>3. ASSUME d.op = "login", d.at \in {"accept", "tenant"}, users[d.on] \in Onces
          PROVE  LiveOf(d.on)' = {}
      <4>1. d.on \in Ids /\ users[d.on] = d.by /\ LiveOf(d.on) = {}
        BY <3>2, <3>3 DEF CallOK, Grounded, Onces
      <4>2. d.by # call[s].by
        BY <2>2, <3>1, <3>3, <4>1 DEF SoleInv, LoginsApart
      <4>3. d.on # k
        BY <1>4, <3>3, <4>1, <4>2
      <4> QED BY <1>5, <4>1, <4>3
    <3>4. Grounded(d)'
      BY <3>2, <3>3 DEF Grounded, Onces
    <3> QED BY <3>1, <3>4 DEF Grounded
  <2> QED BY <2>1, <2>2
<1>10. (\A t \in Sessions : Grounded(call[t]))'
  BY <1>9
<1> QED BY <1>7, <1>8, <1>10 DEF SoleInv

LEMMA LoginAcceptSole == ASSUME IInv, SoleInv, NEW s \in Sessions, LoginAccept(s) PROVE SoleInv'
<1> DEFINE i == call[s].inv  k == call[s].on  f == invites[i].fam
<1>1. call[s].op = "login" /\ call[s].at = "accept" /\ UNCHANGED <<users, family, twice>>
  BY DEF LoginAccept, At
<1>2. i \in Invites /\ k \in Ids
  BY <1>1 DEF IInv, StateOK, CallOK
<1>3. CASE Usable(i) /\ member' = SetRole(f, k, invites[i].role) /\ End(s)
  <2>1. f \in Families
    BY <1>2, <1>3 DEF Usable, IInv, StateOK
  <2>2. call' = [call EXCEPT ![s] = Idle] /\ Idle.op = "idle"
    BY <1>3, IdleGrounded DEF End
  <2>3. \A g \in Families, j \in Keys : member'[g][j] = IF g = f /\ j = k THEN invites[i].role ELSE member[g][j]
    <3> HIDE DEF f, i, k
    <3> QED BY <1>2, <1>3, <2>1, RoleSet DEF Keys
  <2>4. \A g \in Families : Live(g)' = Live(g)
    BY <1>1 DEF Live
  <2>5. \A j \in Ids : j \in Keys
    BY DEF Keys
  <2>6. \A j \in Ids, g \in Families :
            /\ member'[g][j] # "none" /\ Live(g)' =>
                   (member[g][j] # "none" /\ Live(g)) \/ (j = call[s].on /\ g = f)
            /\ member'[g][j] # "none" /\ j # call[s].on => member[g][j] # "none"
    BY <2>3, <2>4, <2>5
  <2> HIDE DEF f
  <2> QED BY <1>1, <2>1, <2>2, <2>6, Joined
<1>4. CASE Start(s, Dropped(call[s])) /\ UNCHANGED member
  BY <1>1, <1>4, DroppedSole
<1> QED BY <1>3, <1>4 DEF LoginAccept

LEMMA CreateTenantSole == ASSUME IInv, SoleInv, NEW s \in Sessions, CreateTenant(s) PROVE SoleInv'
<1> DEFINE k == call[s].on
<1>1. call[s].op = "login" /\ call[s].at = "tenant" /\ UNCHANGED <<users, twice>>
  BY DEF CreateTenant, At
<1>2. PICK f \in Families :
         /\ family[f].state = "unborn"
         /\ family' = [family EXCEPT ![f] = [state |-> "live", owner |-> k]]
         /\ member' = SetRole(f, k, "owner")
         /\ call' = [call EXCEPT ![s].fam = f, ![s].at = "member"]
  BY DEF CreateTenant
<1>3. PICK c : c = [call[s] EXCEPT !.fam = f, !.at = "member"]
  OBVIOUS
<1>4. c.op = "login" /\ c.by = call[s].by /\ c.on = call[s].on /\ c.at = "member"
  BY <1>1, <1>3, LoginIs DEF Calls
<1>5. call' = [call EXCEPT ![s] = c]
  BY <1>2, <1>3
<1>6. k \in Keys
  BY <1>1 DEF IInv, StateOK, CallOK, Keys
<1>7. \A g \in Families, j \in Keys : member'[g][j] = IF g = f /\ j = k THEN "owner" ELSE member[g][j]
  BY <1>2, <1>6, RoleSet
<1>8. \A g \in Families \ {f} : Live(g)' = Live(g)
  BY <1>2 DEF Live, IInv, StateOK
<1>9. \A j \in Keys : member[f][j] = "none"
  BY <1>2 DEF IInv, UnbornIsEmpty, Born
<1>10. \A j \in Ids : j \in Keys
  BY DEF Keys
<1>11. \A j \in Ids, g \in Families :
         /\ member'[g][j] # "none" /\ Live(g)' =>
                (member[g][j] # "none" /\ Live(g)) \/ (j = call[s].on /\ g = f)
         /\ member'[g][j] # "none" /\ j # call[s].on => member[g][j] # "none"
  BY <1>7, <1>8, <1>9, <1>10
<1> QED BY <1>1, <1>4, <1>5, <1>11, Joined

LEMMA LoginMemberSole == ASSUME IInv, SoleInv, NEW s \in Sessions, LoginMember(s) PROVE SoleInv'
<1> DEFINE f == call[s].fam  k == call[s].on
<1>1. call[s].op = "login" /\ call[s].at = "member" /\ UNCHANGED <<users, family, twice>> /\ End(s)
  BY DEF LoginMember, At
<1>2. f \in Families /\ k \in Ids /\ k \in Keys
  BY <1>1 DEF IInv, StateOK, CallOK, Keys
<1>7. users[k] # "free"
  BY <1>1, LoginIs, MembershipAssumption
<1>3. \/ member' = member
      \/ member' = SetRole(f, k, "owner") /\ OwnersOf(f) = {}
  BY DEF LoginMember, Insertable
<1>4. OwnersOf(f) = {} => ~ Live(f)
  BY <1>2 DEF IInv, OwnerCacheAgrees
<1>5. \A j \in Ids, g \in Families :
         member'[g][j] = member[g][j] \/ (j = k /\ g = f /\ ~ Live(f) /\ users[j] # "free")
  <2> HIDE DEF f, k
  <2> QED BY <1>2, <1>3, <1>4, <1>7, RoleSet DEF Keys
<1>6. NoNewFamily /\ FreeStayAlone /\ UsersMoveOn
  BY <1>1, <1>5 DEF NoNewFamily, FreeStayAlone, UsersMoveOn, SoleInv, FreeIsAlone, FamiliesOf, Live
<1> QED BY <1>1, <1>6, LoginEndSole

LEMMA LoginSole ==
    ASSUME IInv, SoleInv, NEW s \in Sessions, NEW p \in People,
           NEW i \in Invites \cup {NoOne}, Login(s, p, i)
    PROVE  SoleInv'
<1>1. UNCHANGED <<users, family, member>> /\ twice \subseteq twice'
  BY DEF Login
<1>2. CASE UNCHANGED <<call, twice>>
  BY <1>1, <1>2 DEF SoleInv, OneAtMost, FreeIsAlone, LoginsApart, Grounded, LiveOf, FamiliesOf, Live, Onces
<1>3. CASE /\ Start(s, Found([Idle EXCEPT !.op = "login", !.by = p,
                                        !.inv = IF Usable(i) THEN i ELSE NoOne]))
           /\ twice' = IF InLogin(p) THEN twice \cup {p} ELSE twice
  <2>0. \A t \in Sessions : call[t].op = "login" => call[t].by # p \/ p \in twice'
    BY <1>3 DEF InLogin
  <2>1. PICK c : c = [Idle EXCEPT !.op = "login", !.by = p, !.inv = IF Usable(i) THEN i ELSE NoOne]
    OBVIOUS
  <2>2. c \in Calls /\ c.op = "login" /\ c.by = p
    BY <2>1, IdleIsCall DEF Calls, Keys, Idle
  <2>3. PICK d : d = Found(c)
    OBVIOUS
  <2>4. /\ d.op = "login" /\ d.by = p /\ d.at \notin {"accept", "tenant"}
        /\ d.at # "create" => users[d.on] = p
    BY <1>1, <2>2, <2>3, FoundGrounded
  <2>5. Grounded(d)'
    BY <1>1, <2>4 DEF Grounded, OnMember
  <2>6. UsersMoveOn
    BY <1>1 DEF UsersMoveOn
  <2>7. call' = [call EXCEPT ![s] = d]
    BY <1>3, <2>1, <2>3 DEF Start
  <2> QED BY <1>1, <2>0, <2>4, <2>5, <2>6, <2>7, RowsAloneSole, Framed
<1> QED BY <1>2, <1>3 DEF Login

LEMMA AskSole ==
    ASSUME IInv, SoleInv, NEW s \in Sessions, NEW p \in People, NEW op \in OnMember \cup OnFamily,
           NEW a, NEW me, NEW k, Ask(s, p, op, a, me, k),
           op \in OnMember /\ k \in Ids => \E f \in Families : member[f][k] # "none",
           op \in {"transfer", "transferLeave"} => me \in People
    PROVE  SoleInv'
<1>1. PICK c : c = [Idle EXCEPT !.op = op, !.at = a, !.by = me, !.fam = context[p].fam, !.on = k]
  OBVIOUS
<1>2. c.op = op /\ c.by = me /\ c.on = k /\ op # "login"
  BY <1>1 DEF Idle, OnMember, OnFamily
<1>3. UNCHANGED <<users, family, member, twice>> /\ call' = [call EXCEPT ![s] = c]
  BY <1>1 DEF Ask, Start
<1>4. op \in OnMember /\ k \in Ids => users[k] # "free"
  BY DEF SoleInv, FreeIsAlone, FamiliesOf
<1>5. Grounded(c)'
  BY <1>2, <1>3, <1>4 DEF Grounded
<1>6. UsersMoveOn
  BY <1>3 DEF UsersMoveOn
<1> QED BY <1>2, <1>3, <1>5, <1>6, RowsAloneSole, Framed

LEMMA AskForSole ==
    ASSUME IInv, SoleInv, NEW s \in Sessions, NEW p \in People, AskFor(s, p)
    PROVE  SoleInv'
<1> USE DEF OnMember, OnFamily
<1>1. ASSUME NEW i \in Invites \cup {NoOne}, Login(s, p, i) PROVE SoleInv' BY <1>1, LoginSole
<1>2. CallerKey(p) \in People /\ CallerKey(p) \notin Ids BY MembershipAssumption DEF CallerKey
<1>3. CASE AskAsOwner(s, p)
  <2>1. context[p].fam \in Families
    <3>1. context[p] \in {NoContext} \cup [fam: Families, role: Roles] BY DEF IInv, StateOK
    <3>2. context[p] # NoContext BY <1>3 DEF AskAsOwner, NoContext
    <3> QED BY <3>1, <3>2
  <2>2. ASSUME NEW k \in Ids, member[context[p].fam][k] # "none",
               \/ Ask(s, p, "remove", "member", NoOne, k)
               \/ Ask(s, p, "transfer", "out", CallerKey(p), k)
               \/ Ask(s, p, "transferLeave", "owner", CallerKey(p), k)
        PROVE  SoleInv'
    BY <1>2, <2>1, <2>2, AskSole
  <2>3. CASE Ask(s, p, "deleteAlone", "members", NoOne, NoOne) BY <2>3, AskSole
  <2>4. CASE Ask(s, p, "deleteAll", "invites", NoOne, CallerKey(p)) BY <2>4, AskSole
  <2> QED BY <1>3, <2>2, <2>3, <2>4 DEF AskAsOwner
<1>4. CASE AskAsMember(s, p)
  <2>1. CASE Ask(s, p, "leave", "member", NoOne, CallerKey(p)) BY <1>2, <2>1, AskSole
  <2>2. CASE Ask(s, p, "quit", "member", NoOne, CallerKey(p)) BY <1>2, <2>2, AskSole
  <2> QED BY <1>4, <2>1, <2>2 DEF AskAsMember
<1> QED BY <1>1, <1>3, <1>4 DEF AskFor

LEMMA StepSole == ASSUME IInv, SoleInv, NEW s \in Sessions, Step(s) PROVE SoleInv'
<1> USE DEF OnMember, OnFamily, At, GoOn
<1>1. call[s].op \in OnMember => call[s].on \in Keys BY DEF IInv, StateOK, CallOK
<1>2. Grounded(call[s]) BY DEF SoleInv
<1>3. call[s].op \in {"transfer", "transferLeave"} =>
          call[s].by \in People /\ call[s].by \in Keys /\ call[s].by \notin Ids
  BY <1>2, MembershipAssumption DEF Grounded, Keys
<1>4. call[s].op \in OnMember /\ call[s].on \in Ids => users[call[s].on] # "free"
  BY <1>2 DEF Grounded
<1>5. CASE LoginStep(s)
  BY <1>5, LoginCreateSole, LoginCheckSole, LoginAcceptSole, LoginProvisionSole, CreateTenantSole,
     LoginMemberSole DEF LoginStep
<1>6. CASE Remove(s) BY <1>1, <1>6, DeleteSole DEF Remove
<1>7. CASE Leave(s) BY <1>1, <1>7, DeleteSole DEF Leave
<1>8. CASE Quit(s)
  <2>1. CASE At(s, "quit", "member") /\ Delete(s, call[s].on, "user") BY <1>1, <2>1, DeleteSole
  <2>2. CASE /\ At(s, "quit", "user") /\ Forget({call[s].on}) /\ End(s)
             /\ UNCHANGED <<family, member, invites, context, twice>>
    BY <2>2, ForgetSole
  <2> QED BY <1>8, <2>1, <2>2 DEF Quit
<1>9. CASE Transfer(s)
  <2>1. CASE At(s, "transfer", "out") /\ Delete(s, call[s].on, "in") BY <1>1, <2>1, DeleteSole
  <2>2. CASE At(s, "transfer", "in") /\ Insert(s, call[s].on, "owner", "outOld")
    BY <1>1, <1>4, <2>2, InsertSole
  <2>3. CASE At(s, "transfer", "outOld") /\ Delete(s, call[s].by, "inOld") BY <1>3, <2>3, DeleteSole
  <2>4. CASE At(s, "transfer", "inOld") /\ Insert(s, call[s].by, "parent", "owner")
    BY <1>3, <2>4, InsertSole
  <2>5. CASE At(s, "transfer", "owner") /\ Promote(s, call[s].on, "end") BY <1>1, <2>5, PromoteSole
  <2> QED BY <1>9, <2>1, <2>2, <2>3, <2>4, <2>5 DEF Transfer
<1>10. CASE TransferLeave(s)
  <2>1. CASE At(s, "transferLeave", "owner") /\ Promote(s, call[s].on, "out") BY <1>1, <2>1, PromoteSole
  <2>2. CASE At(s, "transferLeave", "out") /\ Delete(s, call[s].on, "in") BY <1>1, <2>2, DeleteSole
  <2>3. CASE At(s, "transferLeave", "in") /\ Insert(s, call[s].on, "owner", "outOld")
    BY <1>1, <1>4, <2>3, InsertSole
  <2>4. CASE At(s, "transferLeave", "outOld") /\ Delete(s, call[s].by, "user") BY <1>3, <2>4, DeleteSole
  <2>5. CASE /\ At(s, "transferLeave", "user") /\ Forget({call[s].by}) /\ End(s)
             /\ UNCHANGED <<family, member, invites, context, twice>>
    BY <2>5, ForgetSole
  <2> QED BY <1>10, <2>1, <2>2, <2>3, <2>4, <2>5 DEF TransferLeave
<1>11. CASE DeleteAlone(s)
  <2>1. CASE /\ At(s, "deleteAlone", "members") /\ member' = AllButOwner(call[s].fam)
             /\ Forget(MembersOf(call[s].fam)) /\ Go(s, "invites")
             /\ UNCHANGED <<family, invites, context, twice>>
    BY <2>1, MembersGoSole
  <2>2. CASE At(s, "deleteAlone", "invites") /\ Go(s, "erase") /\ UNCHANGED <<users, family, member, twice>>
    BY <2>2, ForgetSole
  <2> QED BY <1>11, <2>1, <2>2 DEF DeleteAlone
<1>12. CASE DeleteAll(s)
  <2>1. CASE At(s, "deleteAll", "invites") /\ Go(s, "members") /\ UNCHANGED <<users, family, member, twice>>
    BY <2>1, ForgetSole
  <2>2. CASE /\ At(s, "deleteAll", "members") /\ member' = AllButOwner(call[s].fam) /\ Go(s, "user")
             /\ UNCHANGED <<users, cognito, family, invites, context, twice>>
    BY <2>2, MembersGoSole
  <2>3. CASE /\ At(s, "deleteAll", "user") /\ Forget({call[s].on}) /\ Go(s, "erase")
             /\ UNCHANGED <<family, member, invites, context, twice>>
    BY <2>3, ForgetSole
  <2> QED BY <1>12, <2>1, <2>2, <2>3 DEF DeleteAll
<1>13. CASE DeleteTenant(s) BY <1>13, DeleteTenantSole
<1> QED BY <1>5, <1>6, <1>7, <1>8, <1>9, <1>10, <1>11, <1>12, <1>13 DEF Step

LEMMA NextSole ==
    ASSUME IInv, SoleInv, [Next]_vars
    PROVE  SoleInv'
<1>1. ASSUME NEW s \in Sessions, Step(s) PROVE SoleInv' BY <1>1, StepSole
<1>2. ASSUME NEW s \in Sessions, CutOff(s) PROVE SoleInv'
  <2>1. UNCHANGED <<users, family, member, twice>> /\ call' = [call EXCEPT ![s] = Idle] /\ UsersMoveOn
    BY <1>2 DEF CutOff, End, UsersMoveOn
  <2> QED BY <2>1, IdleGrounded, RowsAloneSole, Framed
<1>3. ASSUME NEW s \in Sessions, NEW p \in People, AskFor(s, p) PROVE SoleInv' BY <1>3, AskForSole
<1>4. CASE UNCHANGED <<users, family, member, call, twice>>
  BY <1>4 DEF SoleInv, OneAtMost, FreeIsAlone, LoginsApart, Grounded, LiveOf, FamiliesOf, Live, Onces
<1>5. ASSUME NEW p \in People, NEW r \in InviteRoles, CreateInvite(p, r) PROVE SoleInv'
  BY <1>4, <1>5 DEF CreateInvite
<1>6. ASSUME NEW p \in People, NEW i \in Invites, RevokeInvite(p, i) PROVE SoleInv'
  BY <1>4, <1>6 DEF RevokeInvite
<1>7. ASSUME NEW i \in Invites, InviteAges(i) PROVE SoleInv'
  BY <1>4, <1>7 DEF InviteAges
<1>8. CASE UNCHANGED vars
  BY <1>4, <1>8 DEF vars
<1> QED BY <1>1, <1>2, <1>3, <1>5, <1>6, <1>7, <1>8 DEF Next

LEMMA InitSole == Init => SoleInv
<1> SUFFICES ASSUME Init PROVE SoleInv
  OBVIOUS
<1>1. \A s \in Sessions : call[s].op = "idle"
  BY DEF Init, Idle
<1>2. \A k \in Ids : users[k] = "free" /\ FamiliesOf(k) = {} /\ LiveOf(k) = {}
  BY DEF Init, FamiliesOf, LiveOf, Keys
<1> QED BY <1>1, <1>2 DEF SoleInv, OneAtMost, FreeIsAlone, LoginsApart, Grounded, OnMember

(* "1 user = 1 tenant": no user belongs to two families, for any number of *)
(* people, families and requests that interleave or end half way, except   *)
(* for whoever has had two logins under way at a time.                     *)
THEOREM OneFamilyEach == Spec => []OneFamily
<1>1. SoleInv => OneFamily
  <2> SUFFICES ASSUME SoleInv, NEW k \in Ids, users[k] \in People \ twice
               PROVE  Cardinality({f \in FamiliesOf(k) : Live(f)}) <= 1
    BY DEF OneFamily
  <2>1. \A f, g \in LiveOf(k) : f = g
    BY DEF SoleInv, OneAtMost, Onces
  <2>2. LiveOf(k) = {} \/ \E f : LiveOf(k) = {f}
    BY <2>1
  <2>3. Cardinality(LiveOf(k)) = 0 \/ Cardinality(LiveOf(k)) = 1
    BY <2>2, FS_EmptySet, FS_Singleton
  <2> QED BY <2>3 DEF LiveOf
<1> QED BY <1>1, InitSole, NextSole, InvariantHolds, PTL DEF Spec
=============================================================================
