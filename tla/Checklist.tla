------------------------------ MODULE Checklist ------------------------------
(***************************************************************************)
(* A child ticks the items of a list on one day (toggleCheckItem of        *)
(* checklist-service.ts) while a parent adds and removes items.  The tick  *)
(* reads items and log, writes the log back as a whole, and then posts the *)
(* points of the completed list, or takes them back.                       *)
(*                                                                         *)
(* A repository call is a step, consecutive reads are one; a tick may be   *)
(* cut off at any step.  A tick of an item that is not on the list is      *)
(* refused and no step.                                                    *)
(***************************************************************************)
EXTENDS Integers, Sequences, FiniteSets, FiniteSetsExt

CONSTANTS
    Items,          \* items a parent may put on the list
    Given,          \* those on it in the morning
    PerItem,        \* pointsPerItem
    Bonus,          \* completionBonus
    MaxEdits,       \* changes a parent makes (bound)
    MaxLost,        \* entries that are not posted (bound)
    MaxPosted,      \* sum of the entries, either way, up to which ticks are made (bound)
    Sessions        \* requests in flight at a time (bound)

ChecklistAssumption ==
    /\ IsFiniteSet(Items) /\ Given \subseteq Items
    /\ PerItem \in Nat /\ Bonus \in Nat /\ MaxEdits \in Nat
    /\ MaxLost \in Nat /\ MaxPosted \in Nat
    /\ IsFiniteSet(Sessions)

VARIABLES
    items,      \* what findTemplateItems and findOverrides give for today
    log,        \* the row of checklist_logs: items_json, points_awarded
    posted,     \* sum of the ledger entries of this list
    request,    \* the tick each session is at: what to write and what to post
    edits,      \* changes so far (for the bound)
    lost,       \* history: the entries that ticks did not post when they were cut off
    raced,      \* history: the list was read or changed while a tick was about to write it
    shifted     \* history: a parent changed a list that was complete, or made it so

vars == <<items, log, posted, request, edits, lost, raced, shifted>>

Idle == [at |-> "idle", ticked |-> {}, points |-> 0, entry |-> 0]

Init == /\ items = Given
        /\ log = [ticked |-> {}, points |-> 0]
        /\ posted = 0
        /\ request = [s \in Sessions |-> Idle]
        /\ edits = 0 /\ lost = <<>> /\ raced = FALSE /\ shifted = FALSE

----------------------------------------------------------------------------
\* completedAll of a list: the ticks of items that are gone do not count.
CompletedAll(list, ticks) == list # {} /\ list \subseteq ticks

Complete == CompletedAll(items, log.ticked)

Writing == {s \in Sessions : request[s].at = "write"}

Award(ticks) == Cardinality(ticks) * PerItem + (IF CompletedAll(items, ticks) THEN Bonus ELSE 0)

EntryAgain(ticks) == CASE CompletedAll(items, ticks) -> Award(ticks)
                       [] Complete /\ ~CompletedAll(items, ticks) -> -log.points
                       [] OTHER -> 0

\* Newly completed: the points of the whole list; not completed any more: those of the log, back.
Entry(ticks) == CASE CompletedAll(items, ticks) /\ ~Complete -> Award(ticks)
                  [] Complete /\ ~CompletedAll(items, ticks) -> -log.points
                  [] OTHER -> 0

\* getTodayChecklist, and what follows from it for the tick.
Read(s, i, checked) ==
    LET ticks == IF checked THEN (log.ticked \cap items) \cup {i} ELSE (log.ticked \cap items) \ {i}
    IN  /\ request[s].at = "idle" /\ i \in items
        /\ posted \in -MaxPosted .. MaxPosted
        /\ request' = [request EXCEPT ![s] = [at |-> "write", ticked |-> ticks,
                                              points |-> Award(ticks), entry |-> Entry(ticks)]]
        /\ raced' = (raced \/ Writing # {})
        /\ UNCHANGED <<items, log, posted, edits, lost, shifted>>

End(s) == request' = [request EXCEPT ![s] = Idle]

\* upsertLog.
Write(s) == /\ request[s].at = "write"
            /\ log' = [ticked |-> request[s].ticked, points |-> request[s].points]
            /\ IF request[s].entry # 0 THEN request' = [request EXCEPT ![s].at = "post"] ELSE End(s)
            /\ UNCHANGED <<items, posted, edits, lost, raced, shifted>>

\* insertPointEntry.
Post(s) == /\ request[s].at = "post"
           /\ posted' = posted + request[s].entry
           /\ End(s)
           /\ UNCHANGED <<items, log, edits, lost, raced, shifted>>

CutOff(s) == /\ \/ request[s].at = "write" /\ UNCHANGED lost
                \/ /\ request[s].at = "post" /\ Len(lost) < MaxLost
                   /\ lost' = Append(lost, request[s].entry)
             /\ End(s)
             /\ UNCHANGED <<items, log, posted, edits, raced, shifted>>

\* A parent adds an item, or removes one, in the template or for the day.
Change(list) == /\ edits < MaxEdits /\ edits' = edits + 1
                /\ items' = list
                /\ raced' = (raced \/ Writing # {})
                /\ shifted' = (shifted \/ Complete \/ CompletedAll(list, log.ticked))
                /\ UNCHANGED <<log, posted, request, lost>>

Step(s) == Write(s) \/ Post(s) \/ CutOff(s)

Next == \/ \E s \in Sessions : Step(s)
        \/ \E s \in Sessions, i \in Items, checked \in BOOLEAN : Read(s, i, checked)
        \/ \E i \in Items \ items : Change(items \cup {i})
        \/ \E i \in items : Change(items \ {i})

Spec == Init /\ [][Next]_vars

----------------------------------------------------------------------------
ToCome  == MapThenSumSet(LAMBDA s : request[s].entry, {s \in Sessions : request[s].at = "post"})
Missing == MapThenSumSet(LAMBDA n : lost[n], DOMAIN lost)

\* The ledger holds what the log says of a completed list and nothing for another, up to the
\* entries that were cut off, however often items are ticked and unticked: unless ticks read
\* the list while another was about to write it, or a parent changed a completed list.
ChecklistPaid == ~raced /\ ~shifted
    => posted + ToCome + Missing = (IF Complete THEN log.points ELSE 0)

\* The points of a list are given when it is complete (toggleCheckItem, its comment), to a
\* list as it is shown.  Two taps on the last item are paid twice; an item that a parent adds
\* to a completed list has it paid again.
PaidAsShown == Writing = {} /\ ToCome = 0 /\ lost = <<>>
    => posted = (IF Complete THEN log.points ELSE 0)

=============================================================================
