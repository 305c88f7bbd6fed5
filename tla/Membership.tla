----------------------------- MODULE Membership -----------------------------
(***************************************************************************)
(* Who belongs to which family, and who owns it: the tables users,         *)
(* families, memberships and invites (auth-repo.ts, invite-accept.ts), the *)
(* first login (cognito.ts), invitations (invite-service.ts), and the      *)
(* requests that hand over, leave or delete (the members routes and        *)
(* account-deletion-service.ts).                                           *)
(*                                                                         *)
(* Every repository method is one transaction and one step here; a request *)
(* is a sequence of them, and requests interleave.  A row of memberships   *)
(* has the key of a row of users.  A signed-in person carries another key, *)
(* the Cognito sub, and the requests that act on the caller use that one.  *)
(* Reads that follow one another are one step with the write before them,  *)
(* and a request that its first reads refuse is no step: nothing is        *)
(* written; a loop over the members or invites of a family is one step.    *)
(* A child's profile and a family's data are left out.                     *)
(***************************************************************************)
EXTENDS Naturals, FiniteSets

CONSTANTS
    People,         \* persons with a Cognito account; also their subs
    Ids,            \* user_id: the rows users can ever hold (bound)
    Families,       \* family_id: the families that can ever be made (bound)
    Invites,        \* invite_id: the invites that can ever be made (bound)
    InviteRoles,    \* the roles an invite is made with
    Sessions,       \* requests in flight at a time (bound)
    MaxMembers,     \* maxFamilyMembers of the plan
    Requests,       \* the requests beyond login and invitation that are made
    NoOne           \* no key, no family, no invite

ASSUME MembershipAssumption ==
    /\ Ids \subseteq Nat /\ IsFiniteSet(Ids)
    /\ People \cap Ids = {} /\ NoOne \notin People \cup Ids
    /\ "free" \notin People /\ "gone" \notin People
    /\ NoOne \notin Families /\ NoOne \notin Invites
    /\ MaxMembers \in Nat /\ InviteRoles \subseteq {"owner", "parent", "child"}

Roles == {"owner", "parent", "child"}
Keys  == Ids \cup People            \* uuids: some name a user, some a Cognito account

VARIABLES
    users,      \* the person each row of users is for ("free": not made, "gone": deleted)
    cognito,    \* the persons who can sign in
    family,     \* state of each row of families and its owner_user_id
    member,     \* role of each key in each family ("none": no row)
    invites,    \* family and role of each invite; "closed" is taken up, revoked, past its
                \* date or deleted: nobody reads it again
    context,    \* the context token a person's browser holds
    call,       \* the request each session is at
    twice       \* history: the persons who have logged in twice at a time

vars == <<users, cognito, family, member, invites, context, call, twice>>

Closed    == [state |-> "closed", fam |-> NoOne, role |-> "none"]
NoContext == [fam |-> NoOne, role |-> "none"]
Idle == [op |-> "idle", at |-> "idle", by |-> NoOne, fam |-> NoOne, on |-> NoOne, inv |-> NoOne]

Steps == {"idle", "create", "check", "accept", "recheck", "tenant", "member", "user", "out", "in",
          "outOld", "inOld", "owner", "members", "invites", "erase"}
OnMember == {"remove", "leave", "quit", "transfer", "transferLeave"}
OnFamily == {"deleteAlone", "deleteAll"}

Calls == [op: {"idle", "login"} \cup OnMember \cup OnFamily, at: Steps,
          by: Keys \cup {NoOne}, fam: Families \cup {NoOne}, on: Keys \cup {NoOne},
          inv: Invites \cup {NoOne}]

(* What a request knows at each of its steps.                              *)
CallOK(c) ==
    /\ c.op = "login" => /\ c.by \in People
                         /\ c.at # "create" => c.on \in Ids
                         /\ c.at \in {"check", "accept"} => c.inv \in Invites
                         /\ c.at = "member" => c.fam \in Families
    /\ c.op \in OnMember \cup OnFamily => c.fam \in Families
    /\ c.op \in OnMember => c.on \in Keys
    /\ c.op \in {"transfer", "transferLeave"} => c.by \in Keys

(* What the program keeps.                                                 *)
StateOK ==
    /\ users \in [Ids -> People \cup {"free", "gone"}]
    /\ cognito \subseteq People
    /\ family \in [Families -> [state: {"unborn", "live", "gone"}, owner: Keys \cup {NoOne}]]
    /\ member \in [Families -> [Keys -> Roles \cup {"none"}]]
    /\ invites \in [Invites -> [state: {"unmade", "pending", "closed"},
                               fam: Families \cup {NoOne}, role: Roles \cup {"none"}]]
    /\ \A i \in Invites : invites[i].state = "pending" =>
           invites[i].fam \in Families /\ invites[i].role \in Roles
    /\ context \in [People -> {NoContext} \cup [fam: Families, role: Roles]]
    /\ call \in [Sessions -> Calls] /\ \A s \in Sessions : CallOK(call[s])

TypeOK == StateOK /\ twice \subseteq People

-----------------------------------------------------------------------------
(* Rows.                                                                   *)

MembersOf(f)  == {k \in Keys : member[f][k] # "none"}
FamiliesOwned(k) == {f \in Families : member[f][k] = "owner"}  \* variant: one's own families only
FamiliesOf(k) == {f \in Families : member[f][k] # "none"}      \* findUserTenants
OwnersOf(f)   == {k \in Keys : member[f][k] = "owner"}
Live(f)       == family[f].state = "live"

IdsOf(p)      == {k \in Ids : users[k] = p}             \* findUserByEmail; email_lower is UNIQUE
FreeId(k)     == users[k] = "free" /\ \A j \in Ids : users[j] = "free" => k <= j
Usable(i)     == i # NoOne /\ invites[i].state = "pending"   \* and not past expires_at

(* The key by which a request names the person who makes it.               *)
CallerKey(p) == p

(* An insert passes the primary key and the UNIQUE owner_guard.            *)
Insertable(f, k, r) ==
    /\ member[f][k] = "none"
    /\ r = "owner" => OwnersOf(f) = {}

(* Variant: deleteMembership without the look at the role.                 *)
DeletableAny(f, k) == TRUE

(* deleteMembership throws for an owner; no row is no error.               *)
Deletable(f, k) == member[f][k] # "owner"

SetRole(f, k, r) == [member EXCEPT ![f][k] = r]

(* Variant: the old owner is not demoted.                                  *)
PromotedToo(f, k) == SetRole(f, k, "owner")

(* updateTenantOwner, once the new owner is known to be a member.          *)
Promoted(f, k) ==
    [member EXCEPT ![f] = [j \in Keys |-> IF j = k THEN "owner"
                                          ELSE IF @[j] = "owner" THEN "parent" ELSE @[j]]]

-----------------------------------------------------------------------------
(* Requests and their ends.                                                *)

Start(s, c)  == call' = [call EXCEPT ![s] = c]
At(s, op, a) == call[s].op = op /\ call[s].at = a
Go(s, a)     == call' = [call EXCEPT ![s].at = a]
End(s)       == call' = [call EXCEPT ![s] = Idle]

Init ==
    /\ users = [k \in Ids |-> "free"]
    /\ cognito = People
    /\ family = [f \in Families |-> [state |-> "unborn", owner |-> NoOne]]
    /\ member = [f \in Families |-> [k \in Keys |-> "none"]]
    /\ invites = [i \in Invites |-> [state |-> "unmade", fam |-> NoOne, role |-> "none"]]
    /\ context = [p \in People |-> NoContext]
    /\ call = [s \in Sessions |-> Idle]
    /\ twice = {}

-----------------------------------------------------------------------------
(* Login (resolveMembership).  A person without a membership takes up an   *)
(* invite, if the browser holds one, and else gets a family of their own.  *)

(* The context token issued for a membership of key k.                     *)
Enter(p, f, r) == context' = [context EXCEPT ![p] = [fam |-> f, role |-> r]]

(* findUserByEmail: the row of the person, or the way to make one.         *)
Found(c) ==
    IF IdsOf(c.by) = {} THEN [c EXCEPT !.at = "create"]
    ELSE [c EXCEPT !.on = CHOOSE k \in Ids : k \in IdsOf(c.by),
                   !.at = IF c.inv = NoOne THEN "recheck" ELSE "check"]

Dropped(c) == Found([c EXCEPT !.inv = NoOne])           \* the invite cannot be taken up

InLogin(p) == \E t \in Sessions : call[t].op = "login" /\ call[t].by = p

\* The context token has expired or was never there.  The membership is read, and where there is
\* none the invite and the user.
Login(s, p, i) ==
    /\ call[s] = Idle /\ p \in cognito
    /\ \/ /\ \E k \in IdsOf(p) : \E f \in FamiliesOf(k) : Enter(p, f, member[f][k])
          /\ UNCHANGED <<call, twice>>
       \/ /\ \A k \in IdsOf(p) : FamiliesOf(k) = {}
          /\ Start(s, Found([Idle EXCEPT !.op = "login", !.by = p,
                                         !.inv = IF Usable(i) THEN i ELSE NoOne]))
          /\ context' = [context EXCEPT ![p] = NoContext]
          /\ twice' = IF InLogin(p) THEN twice \cup {p} ELSE twice
    /\ UNCHANGED <<users, cognito, family, member, invites>>

\* createUser.  A second row for the address throws: the invite is dropped, or the login ends.
LoginCreate(s) ==
    LET c == call[s] IN
    /\ At(s, "login", "create")
    /\ \/ /\ IdsOf(c.by) = {}
          /\ \E k \in Ids :
                /\ FreeId(k)
                /\ users' = [users EXCEPT ![k] = c.by]
                /\ Start(s, [c EXCEPT !.on = k, !.at = IF c.inv = NoOne THEN "recheck" ELSE "check"])
       \/ /\ IdsOf(c.by) # {}
          /\ Start(s, IF c.inv = NoOne THEN Idle ELSE Dropped(c))
          /\ UNCHANGED users
    /\ UNCHANGED <<cognito, family, member, invites, context, twice>>

\* acceptInvite before its transaction: the invite again and the user's families.
LoginCheck(s) ==
    LET c == call[s] IN
    /\ At(s, "login", "check")
    /\ Start(s, IF Usable(c.inv) /\ FamiliesOf(c.on) = {} /\ Live(invites[c.inv].fam)
                THEN [c EXCEPT !.at = "accept"] ELSE Dropped(c))
    /\ UNCHANGED <<users, cognito, family, member, invites, context, twice>>

\* The transaction that takes up the invite: both rows or neither.
LoginAccept(s) ==
    LET p == call[s].by  i == call[s].inv  k == call[s].on  f == invites[i].fam IN
    /\ At(s, "login", "accept")
    /\ \/ /\ Usable(i) /\ Insertable(f, k, invites[i].role)
          /\ invites' = [invites EXCEPT ![i] = Closed]
          /\ member' = SetRole(f, k, invites[i].role)
          /\ Enter(p, f, invites[i].role)
          /\ End(s)
       \/ /\ ~(Usable(i) /\ Insertable(f, k, invites[i].role))
          /\ Start(s, Dropped(call[s]))
          /\ UNCHANGED <<member, invites, context>>
    /\ UNCHANGED <<users, cognito, family, twice>>

\* provisionNewUser looks for a family once more, and then makes one with its owner.
LoginProvision(s) ==
    LET p == call[s].by  k == call[s].on IN
    /\ At(s, "login", "recheck")
    /\ \/ /\ FamiliesOf(k) # {}
          /\ \E f \in FamiliesOf(k) : Enter(p, f, member[f][k])
          /\ End(s)
       \/ /\ FamiliesOf(k) = {}
          /\ Go(s, "tenant")
          /\ UNCHANGED context
    /\ UNCHANGED <<users, cognito, family, member, invites, twice>>

CreateTenant(s) ==
    LET k == call[s].on IN
    /\ At(s, "login", "tenant")
    /\ \E f \in Families :
          /\ family[f].state = "unborn"
          /\ family' = [family EXCEPT ![f] = [state |-> "live", owner |-> k]]
          /\ member' = SetRole(f, k, "owner")
          /\ call' = [call EXCEPT ![s].fam = f, ![s].at = "member"]
    /\ UNCHANGED <<users, cognito, invites, context, twice>>

\* createMembership repeats what createTenant has done; its error ends the login without a context.
LoginMember(s) ==
    LET p == call[s].by  f == call[s].fam  k == call[s].on IN
    /\ At(s, "login", "member")
    /\ \/ /\ Insertable(f, k, "owner")
          /\ member' = SetRole(f, k, "owner")
          /\ Enter(p, f, "owner")
       \/ /\ ~Insertable(f, k, "owner")
          /\ UNCHANGED <<member, context>>
    /\ End(s)
    /\ UNCHANGED <<users, cognito, family, invites, twice>>

-----------------------------------------------------------------------------
(* Invitations.  The state of an invite moves on from pending only.        *)

CreateInvite(p, r) ==
    LET f == context[p].fam IN
    /\ context[p].role = "owner" /\ r # "owner"
    /\ Cardinality(MembersOf(f)) < MaxMembers
    /\ \E i \in Invites :
          /\ invites[i].state = "unmade"
          /\ invites' = [invites EXCEPT ![i] = [state |-> "pending", fam |-> f, role |-> r]]
    /\ UNCHANGED <<users, cognito, family, member, context, call, twice>>

RevokeInvite(p, i) ==
    /\ context[p].role = "owner" /\ invites[i].fam = context[p].fam
    /\ invites[i].state = "pending"
    /\ invites' = [invites EXCEPT ![i] = Closed]
    /\ UNCHANGED <<users, cognito, family, member, context, call, twice>>

\* Time passes the date of an invite.
InviteAges(i) ==
    /\ invites[i].state = "pending"
    /\ invites' = [invites EXCEPT ![i] = Closed]
    /\ UNCHANGED <<users, cognito, family, member, context, call, twice>>

-----------------------------------------------------------------------------
(* Requests about members.  The role comes from the context token, however *)
(* old; whoever has no account any more makes no request (bound).          *)

Ask(s, p, op, a, me, k) ==
    /\ op \in Requests
    /\ call[s] = Idle
    /\ Start(s, [Idle EXCEPT !.op = op, !.at = a, !.by = me, !.fam = context[p].fam, !.on = k])
    /\ UNCHANGED <<users, cognito, family, member, invites, context, twice>>

AskAsOwner(s, p) ==
    LET f == context[p].fam IN
    /\ context[p].role = "owner" /\ p \in cognito
    /\ \/ \E k \in Ids :
             \/ member[f][k] \in {"parent", "child"} /\ Ask(s, p, "remove", "member", NoOne, k)
             \/ member[f][k] # "none" /\ Ask(s, p, "transfer", "out", CallerKey(p), k)
             \/ member[f][k] \in {"owner", "parent"} /\ Ask(s, p, "transferLeave", "owner", CallerKey(p), k)
       \/ Cardinality(MembersOf(f)) <= 1 /\ Ask(s, p, "deleteAlone", "members", NoOne, NoOne)
       \/ Ask(s, p, "deleteAll", "invites", NoOne, CallerKey(p))

AskAsMember(s, p) ==
    /\ context[p].role \in {"parent", "child"} /\ p \in cognito
    /\ \/ /\ Cardinality(MembersOf(context[p].fam)) > 1          \* never the last one
          /\ Ask(s, p, "leave", "member", NoOne, CallerKey(p))
       \/ Ask(s, p, "quit", "member", NoOne, CallerKey(p))

(* The next step of a request, or its end.                                 *)
GoOn(s, then) == IF then = "end" THEN End(s) ELSE Go(s, then)

(* deleteMembership as one step of a request.                              *)
Delete(s, k, then) ==
    LET f == call[s].fam IN
    /\ \/ Deletable(f, k) /\ member' = SetRole(f, k, "none") /\ GoOn(s, then)
       \/ ~Deletable(f, k) /\ UNCHANGED member /\ End(s)
    /\ UNCHANGED <<users, cognito, family, invites, context, twice>>

(* createMembership.                                                       *)
Insert(s, k, r, then) ==
    LET f == call[s].fam IN
    /\ \/ Insertable(f, k, r) /\ member' = SetRole(f, k, r) /\ GoOn(s, then)
       \/ ~Insertable(f, k, r) /\ UNCHANGED member /\ End(s)
    /\ UNCHANGED <<users, cognito, family, invites, context, twice>>

(* updateTenantOwner.                                                      *)
Promote(s, k, then) ==
    LET f == call[s].fam IN
    /\ \/ /\ member[f][k] # "none"
          /\ member' = Promoted(f, k)
          /\ family' = IF family[f].state = "live" THEN [family EXCEPT ![f].owner = k] ELSE family
          /\ GoOn(s, then)
       \/ /\ member[f][k] = "none"
          /\ End(s)
          /\ UNCHANGED <<family, member>>
    /\ UNCHANGED <<users, cognito, invites, context, twice>>

(* deleteCognitoUser and deleteUser: the address comes from the row of     *)
(* users, and without one there is nothing to delete.                      *)
Forget(ks) ==
    /\ cognito' = cognito \ {users[k] : k \in ks \cap Ids}
    /\ users' = [k \in Ids |-> IF k \in ks /\ users[k] # "free" THEN "gone" ELSE users[k]]

\* DELETE members/[userId], POST members/leave.
Remove(s) == At(s, "remove", "member") /\ Delete(s, call[s].on, "end")
Leave(s)  == At(s, "leave", "member") /\ Delete(s, call[s].on, "end")

\* deleteMemberAccount and deleteChildAccount.
Quit(s) ==
    \/ At(s, "quit", "member") /\ Delete(s, call[s].on, "user")
    \/ /\ At(s, "quit", "user")
       /\ Forget({call[s].on})
       /\ End(s)
       /\ UNCHANGED <<family, member, invites, context, twice>>

\* POST members/[userId]/transfer-ownership: both rows are deleted and created again.
Transfer(s) ==
    LET k == call[s].on  me == call[s].by IN
    \/ At(s, "transfer", "out") /\ Delete(s, k, "in")
    \/ At(s, "transfer", "in") /\ Insert(s, k, "owner", "outOld")
    \/ At(s, "transfer", "outOld") /\ Delete(s, me, "inOld")
    \/ At(s, "transfer", "inOld") /\ Insert(s, me, "parent", "owner")
    \/ At(s, "transfer", "owner") /\ Promote(s, k, "end")

\* transferOwnershipAndLeave.
TransferLeave(s) ==
    LET k == call[s].on  me == call[s].by IN
    \/ At(s, "transferLeave", "owner") /\ Promote(s, k, "out")
    \/ At(s, "transferLeave", "out") /\ Delete(s, k, "in")
    \/ At(s, "transferLeave", "in") /\ Insert(s, k, "owner", "outOld")
    \/ At(s, "transferLeave", "outOld") /\ Delete(s, me, "user")
    \/ /\ At(s, "transferLeave", "user")
       /\ Forget({me})
       /\ End(s)
       /\ UNCHANGED <<family, member, invites, context, twice>>

(* deleteAllMemberships: the refusal for the owner is logged and passed over. *)
AllButOwner(f) == [member EXCEPT ![f] = [k \in Keys |-> IF @[k] = "owner" THEN "owner" ELSE "none"]]

NoInvites(f) == [i \in Invites |-> IF invites[i].fam = f THEN Closed ELSE invites[i]]

\* deleteTenant, one transaction over the four tables.
DeleteTenant(s) ==
    LET f == call[s].fam IN
    /\ call[s].at = "erase" /\ call[s].op \in OnFamily
    /\ family' = [family EXCEPT ![f] = [state |-> "gone", owner |-> NoOne]]
    /\ member' = [member EXCEPT ![f] = [k \in Keys |-> "none"]]
    /\ invites' = NoInvites(f)
    /\ End(s)
    /\ UNCHANGED <<users, cognito, context, twice>>

\* deleteOwnerOnlyAccount: the accounts of all members go, whoever they are by then.
DeleteAlone(s) ==
    LET f == call[s].fam IN
    \/ /\ At(s, "deleteAlone", "members")
       /\ member' = AllButOwner(f)
       /\ Forget(MembersOf(f))
       /\ Go(s, "invites")
       /\ UNCHANGED <<family, invites, context, twice>>
    \/ /\ At(s, "deleteAlone", "invites")
       /\ invites' = NoInvites(f)
       /\ Go(s, "erase")
       /\ UNCHANGED <<users, cognito, family, member, context, twice>>

\* deleteOwnerFullDelete: the other members keep their accounts.
DeleteAll(s) ==
    LET f == call[s].fam IN
    \/ /\ At(s, "deleteAll", "invites")
       /\ invites' = NoInvites(f)
       /\ Go(s, "members")
       /\ UNCHANGED <<users, cognito, family, member, context, twice>>
    \/ /\ At(s, "deleteAll", "members")
       /\ member' = AllButOwner(f)
       /\ Go(s, "user")
       /\ UNCHANGED <<users, cognito, family, invites, context, twice>>
    \/ /\ At(s, "deleteAll", "user")
       /\ Forget({call[s].on})
       /\ Go(s, "erase")
       /\ UNCHANGED <<family, member, invites, context, twice>>

\* A request ends half way: an error of the database, or its time is up.
CutOff(s) ==
    /\ call[s] # Idle
    /\ End(s)
    /\ UNCHANGED <<users, cognito, family, member, invites, context, twice>>

-----------------------------------------------------------------------------
LoginStep(s) ==
    \/ LoginCreate(s) \/ LoginCheck(s) \/ LoginAccept(s)
    \/ LoginProvision(s) \/ CreateTenant(s) \/ LoginMember(s)

Step(s) ==
    \/ LoginStep(s) \/ Remove(s) \/ Leave(s) \/ Quit(s) \/ Transfer(s) \/ TransferLeave(s)
    \/ DeleteAlone(s) \/ DeleteAll(s) \/ DeleteTenant(s)

AskFor(s, p) ==
    \/ \E i \in {NoOne} \cup {j \in Invites : invites[j].state # "unmade"} : Login(s, p, i)
    \/ AskAsOwner(s, p) \/ AskAsMember(s, p)

Next ==
    \/ \E s \in Sessions : Step(s) \/ CutOff(s) \/ \E p \in People : AskFor(s, p)
    \/ \E p \in People, r \in InviteRoles : CreateInvite(p, r)
    \/ \E p \in People, i \in Invites : RevokeInvite(p, i)
    \/ \E i \in Invites : InviteAges(i)

Spec == Init /\ [][Next]_vars

-----------------------------------------------------------------------------
(* Properties.                                                             *)

(* I-OWN: a family that exists has exactly one owner, whatever transfers,  *)
(* removals, logins and deletions interleave or end half way: owner_guard  *)
(* for at most one, the refusal of deleteMembership for at least one.      *)
OneOwner == \A f \in Families : Live(f) => Cardinality(OwnersOf(f)) = 1

(* families.owner_user_id, which the callers read as a cache, names that   *)
(* owner.                                                                  *)
OwnerCacheAgrees == \A f \in Families : Live(f) => OwnersOf(f) = {family[f].owner}

(* "1 user = 1 tenant" (entities.ts:60) for everyone who has never had two *)
(* logins under way at a time, whatever the others do, their double logins  *)
(* included: invitations, handovers and deletions give nobody a second one. *)
OneFamily ==
    \A k \in Ids : users[k] \in People \ twice => Cardinality({f \in FamiliesOf(k) : Live(f)}) <= 1

-----------------------------------------------------------------------------
(* What the documents promise and the code does not keep.                  *)

(* "1 user = 1 tenant" for everyone.  Each of two first logins of a person *)
(* looks for a family before either makes one, and no key stops the second. *)
OneFamilyEver ==
    \A k \in Ids : users[k] \in People => Cardinality({f \in FamiliesOf(k) : Live(f)}) <= 1

(* A handover that is refused leaves its target a member, and one that     *)
(* succeeds too (14-セキュリティ設計書.md:439).  owner_guard refuses a     *)
(* second owner, after the target's row has been deleted.                  *)
TransferKeepsTarget ==
    [][\A s \in Sessions : Transfer(s) /\ call'[s] = Idle =>
           member'[call[s].fam][call[s].on] # "none"]_vars

(* Who leaves is a member no longer (07-API設計書.md:169).  The request     *)
(* deletes under the sub, and there is no such row.                        *)
LeaveTakesEffect ==
    [][\A s \in Sessions : Leave(s) /\ Deletable(call[s].fam, call[s].on) =>
           \A p \in People : CallerKey(p) = call[s].on =>
               \A k \in IdsOf(p) : member'[call[s].fam][k] = "none"]_vars

(* Nobody is a member of a family that is gone.  A handover or a second    *)
(* login that was on its way writes its row after deleteTenant.            *)
GoneIsEmpty == \A f \in Families : family[f].state = "gone" => MembersOf(f) = {}

(* Deleting a family with its owner alone deletes the account of no one    *)
(* else (account-deletion-flow.md, table of section 2).  Who joins after   *)
(* the count is deleted with them.                                         *)
BystanderKeepsAccount ==
    [][\A s \in Sessions : DeleteAlone(s) => cognito \ cognito' \subseteq {users[k] : k \in OwnersOf(call[s].fam) \cap Ids}]_vars

=============================================================================
