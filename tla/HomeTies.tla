----------------------------- MODULE HomeTies ------------------------------
(***************************************************************************)
(* What becomes of the ties between Home rows and rows of an event, with   *)
(* statements, texts and hidden rows left out. A request on Home works     *)
(* with an entry its person had earlier: it may write that again while the *)
(* event row is there, or put another in its place, and takes away the     *)
(* event row of that entry and no other. Checklist implements this however *)
(* its requests overlap.                                                   *)
(*                                                                         *)
(* Source: UsersService in src/apps/api/src/users/users.service.ts and     *)
(* EventChecklistService in src/apps/api/src/events/.                      *)
(***************************************************************************)
CONSTANTS Item, Event, Person, NoItem, NoEvent

VARIABLES
    of,    \* the event each row is of, NoEvent: there is no such row
    entry, \* [Person -> Entry] what people have on their Home page
    seen   \* the entries people had when a request looked, and that it holds

ties == <<of, entry, seen>>

Entry == [there : BOOLEAN, ev : Event \cup {NoEvent}, link : Item \cup {NoItem}]
None  == [there |-> FALSE, ev |-> NoEvent, link |-> NoItem]
Tied(e, i) == [there |-> TRUE, ev |-> e, link |-> i]

Init ==
    /\ of = [i \in Item |-> NoEvent]
    /\ entry = [p \in Person |-> None]
    /\ seen = [p \in Person |-> {}]

\* Ids that nothing refers to.
Free(i) == of[i] = NoEvent /\ \A p \in Person : \A x \in seen[p] : x.link # i

Without(i) == [j \in Item |-> IF j = i THEN NoEvent ELSE of[j]]

Becomes(p, x) == entry' = [entry EXCEPT ![p] = x]

Forgets == seen' \in [Person -> SUBSET Entry] /\ \A p \in Person : seen'[p] \subseteq seen[p]

-----------------------------------------------------------------------------
\* What is done on the page of an event.

Add(i, e) ==
    /\ Free(i)
    /\ of' = [of EXCEPT ![i] = e]
    /\ UNCHANGED <<entry, seen>>

\* A row goes in two steps: the entry tied to it, and then the row, which
\* unties an entry that came back in between.
Clear(i) ==
    /\ entry' = [p \in Person |-> IF entry[p].link = i THEN None ELSE entry[p]]
    /\ UNCHANGED <<of, seen>>

Drop(i) ==
    /\ of' = Without(i)
    /\ entry' = [p \in Person |-> IF entry[p].link = i
                                  THEN [entry[p] EXCEPT !.link = NoItem] ELSE entry[p]]
    /\ UNCHANGED seen

-----------------------------------------------------------------------------
\* What is done at Home.

\* An entry, tied to a row that is made for it, or to none; old goes.
Place(p, old) ==
    \/ /\ of' = Without(old)
       /\ Becomes(p, Tied(NoEvent, NoItem))
    \/ \E i \in Item, e \in Event :
          /\ Free(i)
          /\ of' = [Without(old) EXCEPT ![i] = e]
          /\ Becomes(p, Tied(e, i))

Open(p) ==
    /\ ~entry[p].there /\ seen[p] = {}
    /\ Place(p, NoItem)
    /\ UNCHANGED seen

Look(p) ==
    /\ entry[p].there
    /\ seen' = [seen EXCEPT ![p] = @ \cup {entry[p]}]
    /\ UNCHANGED <<of, entry>>

Forget == Forgets /\ UNCHANGED <<of, entry>>

Move(p, x) ==
    /\ entry[p].there
    /\ Place(p, x.link)
    /\ entry'[p].ev # x.ev
    /\ Forgets

\* An entry is written as it was read, if its row is there still.
Rewrite(p, x) ==
    /\ entry[p].there
    /\ x.link # NoItem => of[x.link] # NoEvent
    /\ Becomes(p, x)
    /\ Forgets
    /\ UNCHANGED of

End(p, x) ==
    /\ entry[p].there
    /\ of' = Without(x.link)
    /\ Becomes(p, None)
    /\ Forgets

Next ==
    \/ \E i \in Item : Clear(i) \/ Drop(i) \/ \E e \in Event : Add(i, e)
    \/ \E p \in Person :
          \/ Open(p) \/ Look(p)
          \/ \E x \in seen[p] : Move(p, x) \/ Rewrite(p, x) \/ End(p, x)
    \/ Forget

Spec == Init /\ [][Next]_ties
=============================================================================
