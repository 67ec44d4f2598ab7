------------------------------- MODULE Circle -------------------------------
(***************************************************************************)
(* What the event handlers promise the host and the people of a circle     *)
(* while they do not overlap, with seat ids, statements and half-done work *)
(* left out: every operation is one step that looks at the circle as it    *)
(* is. A person has one place on an event at most, and is let into         *)
(* sub-events of that event only. EventCircle with one slot implements     *)
(* this.                                                                   *)
(*                                                                         *)
(* Source: EventsService, EventChildrenService and EventMembersService in  *)
(* src/apps/api/src/events/.                                               *)
(***************************************************************************)
CONSTANTS Events, People, Roles, Surfaces

VARIABLES
    live,   \* events there are
    gone,   \* events that were deleted; they do not come back
    under,  \* pairs of an event and its sub-event
    places, \* who is invited to which event, and as what
    given   \* pairs of a person and a sub-event they are let into

circle == <<live, gone, under, places, given>>

Place == [who : People, event : Events, role : Roles, surfaces : SUBSET Surfaces,
          accepted : BOOLEAN]

Children(e) == {c \in Events : <<e, c>> \in under}
Tops        == {e \in live : \A p \in Events : <<p, e>> \notin under}

SiteAllowed(place) == "SITE" \in place.surfaces => place.role = "EDITOR"

Init == live = {} /\ gone = {} /\ under = {} /\ places = {} /\ given = {}

Create(e) ==
    /\ e \notin live \cup gone
    /\ live' = live \cup {e}
    /\ UNCHANGED <<gone, under, places, given>>

Add(p, c) ==
    /\ p \in Tops
    /\ c \notin live \cup gone
    /\ live' = live \cup {c}
    /\ under' = under \cup {<<p, c>>}
    /\ UNCHANGED <<gone, places, given>>

\* What becomes a sub-event has none, and nobody is let into it thereby.
Attach(p, c) ==
    /\ {p, c} \subseteq Tops /\ p # c
    /\ Children(c) = {}
    /\ under' = under \cup {<<p, c>>}
    /\ UNCHANGED <<live, gone, places, given>>

\* Detaching takes two steps; between them nobody is let in.
Close(c) ==
    /\ given' = {x \in given : x[2] # c}
    /\ UNCHANGED <<live, gone, under, places>>

Detach(c) ==
    /\ \A who \in People : <<who, c>> \notin given
    /\ under' = {x \in under : x[2] # c}
    /\ UNCHANGED <<live, gone, places, given>>

\* The sub-events go with the event.
Delete(e) ==
    LET ended == {e} \cup Children(e)
    IN  /\ e \in live
        /\ live' = live \ ended
        /\ gone' = gone \cup ended
        /\ under' = {x \in under : x[2] \notin ended}
        /\ given' = {x \in given : x[2] \notin ended}
        /\ UNCHANGED places

Invite(place, give) ==
    /\ place.event \in live /\ ~place.accepted
    /\ SiteAllowed(place)
    /\ give \subseteq Children(place.event)
    /\ \A other \in places : other.who # place.who \/ other.event # place.event
    /\ places' = places \cup {place}
    /\ given' = given \cup ({place.who} \X give)
    /\ UNCHANGED <<live, gone, under>>

\* Who is let in but for what goes with a place.
Without(place) == {x \in given : x[1] # place.who \/ x[2] \notin Children(place.event)}

\* The role and the surfaces change, and perhaps the sub-events.
Update(place, role, surfaces, give) ==
    LET new == [place EXCEPT !.role = role, !.surfaces = surfaces]
    IN  /\ place.event \in live
        /\ SiteAllowed(new)
        /\ give \subseteq Children(place.event)
        /\ places' = (places \ {place}) \cup {new}
        /\ \/ given' = given
           \/ given' = Without(place) \cup ({place.who} \X give)
    /\ UNCHANGED <<live, gone, under>>

\* A person leaves, or the host removes them.
Leave(place) ==
    /\ place.event \in live
    /\ places' = places \ {place}
    /\ given' = Without(place)
    /\ UNCHANGED <<live, gone, under>>

GiveBack(who, c) ==
    /\ given' = given \ {<<who, c>>}
    /\ UNCHANGED <<live, gone, under, places>>

Accept(place) ==
    /\ place.event \in live
    /\ places' = (places \ {place}) \cup {[place EXCEPT !.accepted = TRUE]}
    /\ UNCHANGED <<live, gone, under, given>>

Next ==
    \/ \E e \in Events : Create(e) \/ Close(e) \/ Detach(e) \/ Delete(e)
    \/ \E p, c \in Events : Add(p, c) \/ Attach(p, c)
    \/ \E place \in Place, give \in SUBSET Events : Invite(place, give)
    \/ \E place \in places : Leave(place) \/ Accept(place)
    \/ \E place \in places, role \in Roles, surfaces \in SUBSET Surfaces,
          give \in SUBSET Events : Update(place, role, surfaces, give)
    \/ \E who \in People, c \in Events : GiveBack(who, c)

Spec == Init /\ [][Next]_circle
=============================================================================
