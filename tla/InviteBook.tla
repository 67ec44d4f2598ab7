----------------------------- MODULE InviteBook -----------------------------
(***************************************************************************)
(* What a guest list promises of invites, as if every request took effect  *)
(* at once: a guest gets one invite and keeps its link, answers are only   *)
(* replaced by answers to that same invite, and whoever is removed takes   *)
(* the invite, the link and the answers on their way along.  GuestList     *)
(* implements this however its requests overlap.                           *)
(*                                                                         *)
(* Source: GuestsService in src/apps/api/src/guests/ and rsvp() in         *)
(* src/apps/api/src/event-sites/event-sites.service.ts.                    *)
(***************************************************************************)
CONSTANT Guest

VARIABLES
    standing, \* where each guest stands
    linked,   \* the guests who hold a link or code that works
    asked     \* the answers that were given and not stored yet

book == <<standing, linked, asked>>

Answers   == {"ATTENDING", "DECLINED"}
Standings == {"absent", "listed", "invited"} \cup Answers

HasInvite(g) == standing[g] \in Answers \cup {"invited"}

Init ==
    /\ standing = [g \in Guest |-> "absent"]
    /\ linked = {}
    /\ asked = {}

Moves(g, to) == standing' = [standing EXCEPT ![g] = to]

\* A host adds guests, one or a list of them.
List(new) ==
    /\ \A g \in new : standing[g] = "absent"
    /\ standing' = [g \in Guest |-> IF g \in new THEN "listed" ELSE standing[g]]
    /\ UNCHANGED <<linked, asked>>

\* The host invites a guest and is shown the link.
Invite(g) ==
    /\ standing[g] = "listed"
    /\ Moves(g, "invited")
    /\ linked' = linked \cup {g}
    /\ UNCHANGED asked

\* At the door of an open event an answer brings its invite along, and its
\* guest when nobody has the address.
Welcome(g, a) ==
    /\ standing[g] \in {"absent", "listed"}
    /\ Moves(g, "invited")
    /\ asked' = asked \cup {<<g, a>>}
    /\ UNCHANGED linked

\* The link there is is shown or sent again.
Show(g) ==
    /\ HasInvite(g)
    /\ linked' = linked \cup {g}
    /\ UNCHANGED <<standing, asked>>

\* Someone answers an invite that is there ...
Ask(g, a) ==
    /\ HasInvite(g)
    /\ asked' = asked \cup {<<g, a>>}
    /\ UNCHANGED <<standing, linked>>

\* ... and the answer is stored, in the invite it was given to.
Store(g, a) ==
    /\ <<g, a>> \in asked
    /\ Moves(g, a)
    /\ asked' \in {asked, asked \ {<<g, a>>}}
    /\ UNCHANGED linked

Remove(g) ==
    /\ standing[g] # "absent"
    /\ Moves(g, "absent")
    /\ linked' = linked \ {g}
    /\ asked' = {x \in asked : x[1] # g}

Next ==
    \/ \E new \in SUBSET Guest : List(new)
    \/ \E g \in Guest :
          \/ Invite(g) \/ Show(g) \/ Remove(g)
          \/ \E a \in Answers : Welcome(g, a) \/ Ask(g, a) \/ Store(g, a)

Spec == Init /\ [][Next]_book
=============================================================================
