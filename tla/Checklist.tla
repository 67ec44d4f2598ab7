----------------------------- MODULE Checklist -----------------------------
(***************************************************************************)
(* The checklist of events (EventChecklistService) and the list people     *)
(* keep on their Home page (UsersService), whose rows may be tied to a row *)
(* of an event: UserChecklist.eventChecklistId.                            *)
(*                                                                         *)
(* What may be read and written is decided first; each statement after     *)
(* that is a step, a transaction is one step. A host hides rows from       *)
(* members, and a row is not given to a member it is hidden from.          *)
(*                                                                         *)
(* Title, due date and completion are one "text". Everybody here may edit  *)
(* the checklist of every event; a person keeps one Home row at a time.    *)
(* "orderly" is true while no two handlers ever overlapped and none was    *)
(* cut off. "made" tells which Home row an event row was made for.         *)
(***************************************************************************)
EXTENDS Naturals, FiniteSets

CONSTANTS
    Item, Event, Text, Person, Caller,
    Host,       \* the host of every event; hidden rows are hidden from others
    NoItem, NoEvent, NoText, NoOne,
    Keep,       \* the request leaves this field out
    MaxCalls    \* bound: requests

ASSUME HostAssumption == Host \in Person
ASSUME NoneAssumption ==
    /\ NoItem \notin Item
    /\ {NoEvent, Keep} \cap Event = {} /\ NoEvent # Keep
    /\ NoText \notin Text
    /\ {NoOne, Keep} \cap Person = {} /\ NoOne # Keep
ASSUME BoundAssumption == MaxCalls \in Nat

VARIABLES
    item,    \* [Item -> ...]    EventChecklist
    home,    \* [Person -> ...]  UserChecklist
    call,    \* [Caller -> ...]  the request in hand and what it has read
    made,    \* [Item -> ...]
    orderly,
    calls

vars == <<item, home, call, made, orderly, calls>>

Member == Person \ {Host}

ItemRow == [ev: Event \cup {NoEvent}, text: Text \cup {NoText},
            hidden: SUBSET Member, who: Person \cup {NoOne}]
NoRow   == [ev |-> NoEvent, text |-> NoText, hidden |-> {}, who |-> NoOne]

\* apart: the row was written while its event row could not be.
HomeRow == [there: BOOLEAN, ev: Event \cup {NoEvent}, link: Item \cup {NoItem},
            text: Text \cup {NoText}, apart: BOOLEAN]
NoHome  == [there |-> FALSE, ev |-> NoEvent, link |-> NoItem, text |-> NoText, apart |-> FALSE]

Stages == {"idle", "import", "patch", "bare", "cover", "sync", "dropHome", "dropItem",
           "homeWrite", "homeDelete"}

Held == [at: Stages, by: Person \cup {NoOne}, item: Item \cup {NoItem},
         text: Text \cup {NoText}, ev: Event \cup {NoEvent, Keep},
         who: Person \cup {NoOne, Keep}, hides: BOOLEAN, hidden: SUBSET Member,
         seen: SUBSET (Text \cup {NoText}), row: HomeRow]
Idle == [at |-> "idle", by |-> NoOne, item |-> NoItem, text |-> NoText, ev |-> NoEvent,
         who |-> NoOne, hides |-> FALSE, hidden |-> {}, seen |-> {}, row |-> NoHome]

TypeOK ==
    /\ item \in [Item -> ItemRow]
    /\ home \in [Person -> HomeRow]
    /\ call \in [Caller -> Held]
    /\ made \in [Item -> Person \cup {NoOne}]
    /\ orderly \in BOOLEAN
    /\ calls \in 0..MaxCalls

Init ==
    /\ item = [i \in Item |-> NoRow]
    /\ home = [p \in Person |-> NoHome]
    /\ call = [c \in Caller |-> Idle]
    /\ made = [i \in Item |-> NoOne]
    /\ orderly = TRUE
    /\ calls = 0

-----------------------------------------------------------------------------

There(i)   == item[i].ev # NoEvent
Sees(p, i) == There(i) /\ p \notin item[i].hidden

\* Ids are not used again while somebody holds them.
Fresh == {i \in Item : ~There(i) /\ \A c \in Caller : call[c].item # i /\ call[c].row.link # i}

NewRow(e, t, w) == [ev |-> e, text |-> t, hidden |-> {}, who |-> w]

Begin(c, held) ==
    /\ call[c].at = "idle"
    /\ calls < MaxCalls
    /\ calls' = calls + 1
    /\ orderly' = (orderly /\ \A d \in Caller : call[d].at = "idle")
    /\ call' = [call EXCEPT ![c] = held]

Goes(c, at) ==
    /\ call' = [call EXCEPT ![c] = IF at = "idle" THEN Idle ELSE [@ EXCEPT !.at = at]]
    /\ UNCHANGED <<orderly, calls>>

\* A statement throws or the process restarts; what is written stays.
Cut(c) ==
    /\ call[c].at # "idle"
    /\ call' = [call EXCEPT ![c] = Idle]
    /\ orderly' = FALSE
    /\ UNCHANGED <<item, home, made, calls>>

-----------------------------------------------------------------------------
(* addChecklistItem(), importChecklistItems()                              *)

AddItem(c, p, e, t, w) ==
    /\ Begin(c, Idle)
    /\ \E i \in Fresh :
          /\ item' = [item EXCEPT ![i] = NewRow(e, t, w)]
          /\ made' = [made EXCEPT ![i] = NoOne]
    /\ UNCHANGED home

\* listTitles()
TitlesFor(p, e) == {item[i].text : i \in {j \in Item : item[j].ev = e}}

ImportRead(c, p, e) ==
    /\ Begin(c, [Idle EXCEPT !.at = "import", !.by = p, !.ev = e, !.seen = TitlesFor(p, e)])
    /\ UNCHANGED <<item, home, made>>

ImportCreate(c) ==
    /\ call[c].at = "import"
    /\ \/ \E i \in Fresh, t \in Text \ call[c].seen :
             /\ item' = [item EXCEPT ![i] = NewRow(call[c].ev, t, NoOne)]
             /\ made' = [made EXCEPT ![i] = NoOne]
       \/ UNCHANGED <<item, made>>
    /\ Goes(c, "idle")
    /\ UNCHANGED home

-----------------------------------------------------------------------------
(* updateChecklistItem(). The request brings a text, an assignee, and the  *)
(* members to hide the row from, or leaves them out.                       *)

\* Bug: who the row is hidden from is looked at only when the request says.
HiddenThen_NotRead(i, hides, hidden) == IF hides THEN hidden ELSE {}

HiddenThen(i, hides, hidden) == IF hides THEN hidden ELSE item[i].hidden

\* assertAssignee(): the row must not be hidden from who it is given to.
MayHold(i, w, hides, hidden) ==
    w # Keep \/ hides =>
        (IF w = Keep THEN item[i].who ELSE w) \notin HiddenThen(i, hides, hidden)

PatchCheck(c, p, i, t, w, hides, hidden) ==
    /\ Sees(p, i)
    /\ hides => p = Host
    /\ MayHold(i, w, hides, hidden)
    /\ Begin(c, [Idle EXCEPT !.at = "patch", !.by = p, !.item = i, !.text = t, !.who = w,
                             !.hides = hides, !.hidden = hidden])
    /\ UNCHANGED <<item, home, made>>

AfterPatch(c) == IF call[c].text = NoText THEN "idle" ELSE "sync"

\* updateItem() throws when the row is gone.
PatchItem(c) ==
    LET i == call[c].item
        t == call[c].text
        w == call[c].who
    IN
    /\ call[c].at = "patch"
    /\ \/ /\ There(i)
          /\ item' = [item EXCEPT ![i].text = IF t = NoText THEN @ ELSE t,
                                  ![i].who  = IF w = Keep THEN @ ELSE w]
          /\ Goes(c, IF call[c].hides THEN "bare" ELSE AfterPatch(c))
       \/ ~There(i) /\ UNCHANGED item /\ Goes(c, "idle")
    /\ UNCHANGED <<home, made>>

\* replaceConcealments(): all go, then the new ones come.
Uncover(c) ==
    /\ call[c].at = "bare"
    /\ item' = [item EXCEPT ![call[c].item].hidden = {}]
    /\ Goes(c, IF call[c].hidden = {} THEN AfterPatch(c) ELSE "cover")
    /\ UNCHANGED <<home, made>>

\* createMany() throws when the row is gone or a pair is there already.
Cover(c) ==
    LET i == call[c].item IN
    /\ call[c].at = "cover"
    /\ \/ /\ There(i) /\ item[i].hidden \cap call[c].hidden = {}
          /\ item' = [item EXCEPT ![i].hidden = @ \cup call[c].hidden]
          /\ Goes(c, AfterPatch(c))
       \/ /\ ~There(i) \/ item[i].hidden \cap call[c].hidden # {}
          /\ UNCHANGED item
          /\ Goes(c, "idle")
    /\ UNCHANGED <<home, made>>

\* Bug: only the Home row of the person at work follows.
Follow_Own(c) == {p \in Person : home[p].link = call[c].item /\ p = call[c].by}

Follow(c) == {p \in Person : home[p].link = call[c].item}

\* syncHomeChecklist()
Sync(c) ==
    /\ call[c].at = "sync"
    /\ home' = [p \in Person |->
                  IF p \in Follow(c)
                  THEN [home[p] EXCEPT !.text = call[c].text, !.apart = FALSE]
                  ELSE home[p]]
    /\ Goes(c, "idle")
    /\ UNCHANGED <<item, made>>

-----------------------------------------------------------------------------
(* deleteChecklistItem(): the Home rows first, then the row itself.        *)

DeleteCheck(c, p, i) ==
    /\ Sees(p, i)
    /\ Begin(c, [Idle EXCEPT !.at = "dropHome", !.by = p, !.item = i])
    /\ UNCHANGED <<item, home, made>>

DropHome(c) ==
    /\ call[c].at = "dropHome"
    /\ home' = [p \in Person |-> IF home[p].link = call[c].item THEN NoHome ELSE home[p]]
    /\ Goes(c, "dropItem")
    /\ UNCHANGED <<item, made>>

\* What still refers to a deleted row loses the reference (onDelete: SetNull).
Unlinked(i) == [p \in Person |-> IF home[p].link = i THEN [home[p] EXCEPT !.link = NoItem]
                                                     ELSE home[p]]

DropItem(c) ==
    /\ call[c].at = "dropItem"
    /\ item' = [item EXCEPT ![call[c].item] = NoRow]
    /\ home' = Unlinked(call[c].item)
    /\ Goes(c, "idle")
    /\ UNCHANGED made

-----------------------------------------------------------------------------
(* createChecklist(), updateChecklist(), deleteChecklist() of Home.        *)

Tied(e, i, t) == [there |-> TRUE, ev |-> e, link |-> i, text |-> t, apart |-> FALSE]

CreateHome(c, p, e, t) ==
    /\ ~home[p].there
    /\ \A d \in Caller : call[d].row.there => call[d].by # p
    /\ Begin(c, Idle)
    /\ \/ /\ e = NoEvent
          /\ home' = [home EXCEPT ![p] = Tied(NoEvent, NoItem, t)]
          /\ UNCHANGED <<item, made>>
       \/ /\ e # NoEvent
          /\ \E i \in Fresh :
                /\ item' = [item EXCEPT ![i] = NewRow(e, t, NoOne)]
                /\ made' = [made EXCEPT ![i] = p]
                /\ home' = [home EXCEPT ![p] = Tied(e, i, t)]

HomeRead(c, p, e, t) ==
    /\ home[p].there
    /\ Begin(c, [Idle EXCEPT !.at = "homeWrite", !.by = p, !.ev = e, !.text = t, !.row = home[p]])
    /\ UNCHANGED <<item, home, made>>

\* Bug: an event that the request leaves out is taken for one.
NextEvent_Raw(c) == call[c].ev

NextEvent(c) == IF call[c].ev = Keep THEN call[c].row.ev ELSE call[c].ev

NextText(c) == IF call[c].text = NoText THEN call[c].row.text ELSE call[c].text

\* Bug: the event row a Home row leaves behind stays.
Without_Nothing(i) == item

Without(i) == [j \in Item |-> IF j = i THEN NoRow ELSE item[j]]

\* The row goes to another event, or to none: the event row it was tied to
\* when it was read is deleted, and another is made.
Move(c) ==
    LET p == call[c].by
        e == NextEvent(c)
        t == NextText(c)
    IN
    /\ call[c].at = "homeWrite" /\ home[p].there
    /\ e # call[c].row.ev
    /\ \/ /\ e = NoEvent
          /\ item' = Without(call[c].row.link)
          /\ home' = [home EXCEPT ![p] = Tied(NoEvent, NoItem, t)]
          /\ UNCHANGED made
       \/ /\ e # NoEvent
          /\ \E i \in Fresh :
                /\ item' = [Without(call[c].row.link) EXCEPT ![i] = NewRow(e, t, NoOne)]
                /\ made' = [made EXCEPT ![i] = p]
                /\ home' = [home EXCEPT ![p] = Tied(e, i, t)]
    /\ Goes(c, "idle")

\* Bug: what the request leaves out is not written again.
Again_TextOnly(p, row, t, apart) == [home[p] EXCEPT !.ev = row.ev, !.text = t, !.apart = apart]

\* Event and link are written as they were read.
Again(p, row, t, apart) == [row EXCEPT !.text = t, !.apart = apart]

\* The event stays: the event row follows if its owner can see it; if not,
\* the row is written alone, and its link must still be good.
Stay(c) ==
    LET p == call[c].by
        row == call[c].row
        t == NextText(c)
        linked == row.link # NoItem /\ row.ev # NoEvent
    IN
    /\ call[c].at = "homeWrite" /\ home[p].there
    /\ NextEvent(c) = row.ev
    /\ \/ /\ ~linked
          /\ home' = [home EXCEPT ![p] = Again(p, row, t, row.apart)]
          /\ UNCHANGED item
       \/ /\ linked /\ Sees(p, row.link)
          /\ item' = [item EXCEPT ![row.link].text = t]
          /\ home' = [home EXCEPT ![p] = Again(p, row, t, FALSE)]
       \/ /\ linked /\ There(row.link) /\ ~Sees(p, row.link)
          /\ home' = [home EXCEPT ![p] = Again(p, row, t, TRUE)]
          /\ UNCHANGED item
    /\ Goes(c, "idle")
    /\ UNCHANGED made

HomeDeleteRead(c, p) ==
    /\ home[p].there
    /\ Begin(c, [Idle EXCEPT !.at = "homeDelete", !.by = p, !.row = home[p]])
    /\ UNCHANGED <<item, home, made>>

HomeDelete(c) ==
    /\ call[c].at = "homeDelete" /\ home[call[c].by].there
    /\ item' = Without(call[c].row.link)
    /\ home' = [home EXCEPT ![call[c].by] = NoHome]
    /\ Goes(c, "idle")
    /\ UNCHANGED made

-----------------------------------------------------------------------------

Asks(c) ==
    \E p \in Person :
        \/ \E e \in Event, t \in Text, w \in Person \cup {NoOne} : AddItem(c, p, e, t, w)
        \/ \E e \in Event : ImportRead(c, p, e)
        \/ \E i \in Item, t \in Text \cup {NoText}, w \in Person \cup {NoOne, Keep} :
               \/ PatchCheck(c, p, i, t, w, FALSE, {})
               \/ \E hidden \in SUBSET Member : PatchCheck(c, p, i, t, w, TRUE, hidden)
        \/ \E i \in Item : DeleteCheck(c, p, i)
        \/ \E e \in Event \cup {NoEvent}, t \in Text : CreateHome(c, p, e, t)
        \/ \E e \in Event \cup {NoEvent, Keep}, t \in Text \cup {NoText} : HomeRead(c, p, e, t)
        \/ HomeDeleteRead(c, p)

GoesOn(c) ==
    \/ ImportCreate(c)
    \/ PatchItem(c) \/ Uncover(c) \/ Cover(c) \/ Sync(c)
    \/ DropHome(c) \/ DropItem(c)
    \/ Move(c) \/ Stay(c) \/ HomeDelete(c)
    \/ Cut(c)

Next == \E c \in Caller : Asks(c) \/ GoesOn(c)

Spec == Init /\ [][Next]_vars

-----------------------------------------------------------------------------
(* What is promised.                                                       *)

Quiet == orderly /\ \A c \in Caller : call[c].at = "idle"

\* However requests overlap, a Home row that is tied to an event row names
\* the event that row is of, and no two Home rows are tied to one. What
\* updateChecklist() read before its transaction may be long gone (:579-592).
LinkAgrees ==
    \A p \in Person : home[p].there /\ home[p].link # NoItem =>
        /\ There(home[p].link)
        /\ item[home[p].link].ev = home[p].ev
        /\ \A q \in Person \ {p} : home[q].link # home[p].link

\* Between requests a Home row says what its event row says, unless it was
\* changed while the event row was hidden (updateChecklist() :619-632,
\* updateChecklistItem() :181-187).
InStep ==
    Quiet => \A p \in Person :
        home[p].link # NoItem /\ ~home[p].apart => home[p].text = item[home[p].link].text

\* Between requests no row is given to a member it is hidden from
\* (assertAssignee() :319-352, which reads who a row is hidden from).
NotHiddenFromAssignee == Quiet => \A i \in Item : item[i].who \notin item[i].hidden

\* Between requests, an event row that was made for a Home row has it still:
\* moving or deleting a Home row leaves nothing behind.
NoRowLeftBehind ==
    Quiet => \A i \in Item :
        There(i) /\ made[i] # NoOne => home[made[i]].link = i

\* What a member does, on an event or at Home, leaves the rows that are
\* hidden from them as they are.
HiddenRowsStay ==
    [][orderly => \A c \in Caller, i \in Item :
           There(i) /\ call[c].at # "idle" /\ call'[c] = Idle /\ call[c].by \in item[i].hidden
               => item'[i] = item[i]]_vars

-----------------------------------------------------------------------------
(* The abstract specification                                              *)

Ends(row) == [there |-> row.there, ev |-> row.ev, link |-> row.link]

Seen(p) == {Ends(call[c].row) : c \in {d \in Caller : call[d].row.there /\ call[d].by = p}}

Home == INSTANCE HomeTies WITH
    of    <- [i \in Item |-> item[i].ev],
    entry <- [p \in Person |-> Ends(home[p])],
    seen  <- [p \in Person |-> Seen(p)]

\* However requests overlap, Home rows and event rows are tied and come loose as
\* HomeTies says: updateChecklist() and deleteChecklist() (:563-659) take away or
\* tie again only the event row that their Home row had when they read it.
ImplementsTies == Home!Spec
=============================================================================
