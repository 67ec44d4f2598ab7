---------------------------- MODULE EventCircle ----------------------------
(***************************************************************************)
(* One host's events, the people invited to them, and who may open what:   *)
(* the tree of events and sub-events (EventChildrenService, EventsService),*)
(* the seats people are offered on an event and the sub-events a seat is   *)
(* granted (EventMembersService), all under src/apps/api/src/events/.      *)
(*                                                                         *)
(* A handler awaits one SQL statement after another without a lock, so a   *)
(* statement (or one $transaction) is an atomic step and other handlers    *)
(* run between two of them.  `req[r]` is the handler in slot r; with one   *)
(* slot the handlers run one after another.  Only the reads with which     *)
(* EventAccessService.load decides a non-host's access are one step.       *)
(*                                                                         *)
(* All events belong to one host: attachChild accepts only the caller's    *)
(* own events and addChild copies the owner.  A person is identified with  *)
(* their address, so a seat's address never changes hands here.  Of the    *)
(* surfaces, SITE is told apart and "TABS" stands for the planning tabs.   *)
(*                                                                         *)
(* A definition named X_Y is a seeded fault: X with the one bug Y names.   *)
(***************************************************************************)
EXTENDS FiniteSets

CONSTANTS Events,    \* event ids; bounds how many events are ever created
          People,    \* the people the host invites
          Seats,     \* event_members ids; bounds how many invitations are made
          Requests,  \* handler slots
          Terms,     \* the pairs of a role and surfaces the host offers
          Ops,       \* the operations clients call
          Updates,   \* the sets of fields an update carries
          Faults,    \* whether a handler may die between two statements
          NoEvent, NoSeat, Nobody

Roles == {"EDITOR", "COMMENTER", "VIEWER"}

Surfaces == {"SITE", "TABS"}

AllOps == {"add", "attach", "detach", "delete", "invite", "update", "remove", "leave", "accept"}

\* The members of UpdateMemberDto, all of them optional.
Fields == {"role", "surfaces", "childGrants"}

ASSUME CircleAssumption ==
    /\ NoEvent \notin Events /\ NoSeat \notin Seats /\ Nobody \notin People
    /\ Terms \subseteq [role : Roles, surfaces : SUBSET Surfaces]
    /\ Ops \subseteq AllOps /\ Updates \subseteq SUBSET Fields
    /\ Faults \in BOOLEAN

VARIABLES parent,    \* events.parent_id
          life,      \* whether the events row exists, and its deleted_at
          seat,      \* the event_members rows
          grants,    \* the event_sub_grants rows
          req,       \* the handlers in flight
          everChild  \* history: every pair of a parent and its child there ever was

rows == <<parent, life, seat, grants>>
vars == <<rows, req, everChild>>

---------------------------------------------------------------------------
Seat == [state    : {"none", "held", "gone"},
         event    : Events \cup {NoEvent},
         person   : People \cup {Nobody},
         role     : Roles,
         surfaces : SUBSET Surfaces,
         accepted : BOOLEAN]

Unborn == [state |-> "none", event |-> NoEvent, person |-> Nobody, role |-> "VIEWER",
           surfaces |-> {}, accepted |-> FALSE]

Request == [op   : AllOps \cup {"none"},
            at   : {"idle", "child", "count", "children", "grants", "existing", "seat", "write",
                    "second"},
            e    : Events \cup {NoEvent},      \* the event the call is about
            c    : Events \cup {NoEvent},      \* the sub-event the call is about
            s    : Seats \cup {NoSeat},
            who  : People \cup {Nobody},
            role : Roles,
            surfaces : SUBSET Surfaces,
            has  : SUBSET Fields,           \* the fields the request carries
            give : SUBSET Events]              \* dto.childGrants, or the children read

Idle == [op |-> "none", at |-> "idle", e |-> NoEvent, c |-> NoEvent, s |-> NoSeat,
         who |-> Nobody, role |-> "VIEWER", surfaces |-> {}, has |-> {}, give |-> {}]

TypeOK ==
    /\ parent \in [Events -> Events \cup {NoEvent}]
    /\ life \in [Events -> {"unborn", "live", "deleted"}]
    /\ seat \in [Seats -> Seat]
    /\ grants \subseteq Seats \X Events
    /\ req \in [Requests -> Request]
    /\ everChild \subseteq Events \X Events

Init ==
    /\ parent = [e \in Events |-> NoEvent]
    /\ life = [e \in Events |-> "unborn"]
    /\ seat = [s \in Seats |-> Unborn]
    /\ grants = {}
    /\ req = [r \in Requests |-> Idle]
    /\ everChild = {}

---------------------------------------------------------------------------
Live(e) == life[e] = "live"

\* A live event that may have sub-events: requireParentHost.
LiveRoot(e) == Live(e) /\ parent[e] = NoEvent

LiveChildren(e) == {c \in Events : Live(c) /\ parent[c] = e}

Held(s) == seat[s].state = "held"

\* Accepted, held seats of person p on event e: findAcceptedMemberByUser.
SeatsOf(p, e) ==
    {s \in Seats : Held(s) /\ seat[s].event = e /\ seat[s].person = p /\ seat[s].accepted}

Ways_AnyChild(p, e) ==
    IF ~Live(e) THEN {}
    ELSE IF SeatsOf(p, e) # {} THEN SeatsOf(p, e)
    ELSE IF parent[e] = NoEvent \/ ~Live(parent[e]) THEN {}
    ELSE SeatsOf(p, parent[e])

\* The seats through which load() lets person p see event e.
Ways(p, e) ==
    IF ~Live(e) THEN {}
    ELSE IF SeatsOf(p, e) # {} THEN SeatsOf(p, e)
    ELSE IF parent[e] = NoEvent \/ ~Live(parent[e]) THEN {}
    ELSE {s \in SeatsOf(p, parent[e]) : <<s, e>> \in grants}

CanOpen(p, e) == Ways(p, e) # {}

\* The events findByUser and listAccessibleEventIds list for person p.
Listed(p, e) ==
    /\ Live(e)
    /\ \E s \in Seats :
          /\ Held(s) /\ seat[s].person = p /\ seat[s].accepted /\ Live(seat[s].event)
          /\ seat[s].event = e \/ <<s, e>> \in grants

\* What is left of a deleted row: its id is never used again.
Gone == [Unborn EXCEPT !.state = "gone"]

\* Only an editor may hold the SITE surface: assertSiteGrant.
SiteAllowed(role, surfaces) == "SITE" \in surfaces => role = "EDITOR"

Start(r, h) == req[r].at = "idle" /\ req' = [req EXCEPT ![r] = h]
Goto(r, phase) == req' = [req EXCEPT ![r].at = phase]
Return(r) == req' = [req EXCEPT ![r] = Idle]

\* The handler goes on to its next statement, or answers with an error.
Check(r, condition, phase) == IF condition THEN Goto(r, phase) ELSE Return(r)

At(r, op, phase) == req[r].op = op /\ req[r].at = phase

---------------------------------------------------------------------------
(* The tree: addChild, attachChild, detachChild, softDelete *)

\* EventsService.create: one insert.
CreateEvent(e) ==
    /\ life[e] = "unborn"
    /\ life' = [life EXCEPT ![e] = "live"]
    /\ UNCHANGED <<parent, seat, grants, req, everChild>>

AddRead(r, p) ==
    /\ LiveRoot(p)
    /\ Start(r, [Idle EXCEPT !.op = "add", !.at = "write", !.e = p])
    /\ UNCHANGED <<rows, everChild>>

\* c is the id the new row gets.
AddCreate(r, c) ==
    /\ At(r, "add", "write") /\ life[c] = "unborn"
    /\ life' = [life EXCEPT ![c] = "live"]
    /\ parent' = [parent EXCEPT ![c] = req[r].e]
    /\ everChild' = everChild \cup {<<req[r].e, c>>}
    /\ Return(r)
    /\ UNCHANGED <<seat, grants>>

AttachRead(r, p, c) ==
    /\ LiveRoot(p)
    /\ Start(r, [Idle EXCEPT !.op = "attach", !.at = "child", !.e = p, !.c = c])
    /\ UNCHANGED <<rows, everChild>>

AttachFindChild(r) ==
    /\ At(r, "attach", "child")
    /\ Check(r, LiveRoot(req[r].c) /\ req[r].c # req[r].e, "count")
    /\ UNCHANGED <<rows, everChild>>

AttachCount_Skipped(r) ==
    /\ At(r, "attach", "count")
    /\ Goto(r, "write")
    /\ UNCHANGED <<rows, everChild>>

\* countChildren: only live sub-events stand in the way.
AttachCount(r) ==
    /\ At(r, "attach", "count")
    /\ Check(r, LiveChildren(req[r].c) = {}, "write")
    /\ UNCHANGED <<rows, everChild>>

\* The update names the child by id only.
AttachWrite(r) ==
    /\ At(r, "attach", "write")
    /\ parent' = [parent EXCEPT ![req[r].c] = req[r].e]
    /\ everChild' = everChild \cup {<<req[r].e, req[r].c>>}
    /\ Return(r)
    /\ UNCHANGED <<life, seat, grants>>

DetachRead(r, p, c) ==
    /\ LiveRoot(p)
    /\ Start(r, [Idle EXCEPT !.op = "detach", !.at = "child", !.e = p, !.c = c])
    /\ UNCHANGED <<rows, everChild>>

DetachFindChild(r) ==
    /\ At(r, "detach", "child")
    /\ Check(r, req[r].c \in LiveChildren(req[r].e), "write")
    /\ UNCHANGED <<rows, everChild>>

\* The grants go first, in a statement of their own.
DetachRevoke(r) ==
    /\ At(r, "detach", "write")
    /\ grants' = {g \in grants : g[2] # req[r].c}
    /\ Goto(r, "second")
    /\ UNCHANGED <<parent, life, seat, everChild>>

DetachUnlink(r) ==
    /\ At(r, "detach", "second")
    /\ parent' = [parent EXCEPT ![req[r].c] = NoEvent]
    /\ Return(r)
    /\ UNCHANGED <<life, seat, grants, everChild>>

\* A sub-event is deleted alone, without a look for children.
DeleteRead(r, e) ==
    /\ Live(e)
    /\ Start(r, [Idle EXCEPT !.op = "delete", !.e = e,
                             !.at = IF parent[e] = NoEvent THEN "children" ELSE "write"])
    /\ UNCHANGED <<rows, everChild>>

DeleteListChildren(r) ==
    /\ At(r, "delete", "children")
    /\ req' = [req EXCEPT ![r].at = "write", ![r].give = LiveChildren(req[r].e)]
    /\ UNCHANGED <<rows, everChild>>

DeleteWrite(r) ==
    /\ At(r, "delete", "write")
    /\ life' = [e \in Events |-> IF e \in {req[r].e} \cup req[r].give /\ Live(e)
                                 THEN "deleted" ELSE life[e]]
    /\ Return(r)
    /\ UNCHANGED <<parent, seat, grants, everChild>>

---------------------------------------------------------------------------
(* Invitations: invite, update, remove, leave, accept *)

\* A sub-event takes invitations too, but only its parent's invitations carry
\* sub-events; an invitation offers something.
InviteRead(r, e, who, terms, give) ==
    /\ Live(e)
    /\ parent[e] = NoEvent \/ give = {}
    /\ terms.surfaces # {} \/ give # {}
    /\ SiteAllowed(terms.role, terms.surfaces)
    /\ Start(r, [Idle EXCEPT !.op = "invite", !.at = "grants", !.e = e, !.who = who,
                             !.role = terms.role, !.surfaces = terms.surfaces, !.give = give])
    /\ UNCHANGED <<rows, everChild>>

ChildGrants_AnyEvent(r) == \A c \in req[r].give : Live(c)

\* assertChildGrants: every sub-event offered is a live child of the event.
ChildGrants(r) == req[r].give \subseteq LiveChildren(req[r].e)

InviteCheckGrants(r) ==
    /\ At(r, "invite", "grants")
    /\ Check(r, ChildGrants(r), "existing")
    /\ UNCHANGED <<rows, everChild>>

NewSeat(h) == [state |-> "held", event |-> h.e, person |-> h.who, role |-> h.role,
               surfaces |-> h.surfaces, accepted |-> FALSE]

\* A seat with this event and address, whether accepted or not.
Invited(e, who) == \E s \in Seats : Held(s) /\ seat[s].event = e /\ seat[s].person = who

InviteFindExisting(r) ==
    /\ At(r, "invite", "existing")
    /\ Check(r, ~Invited(req[r].e, req[r].who), "write")
    /\ UNCHANGED <<rows, everChild>>

InviteCreate_SwapsKeys(r, s) ==
    /\ At(r, "invite", "write") /\ seat[s].state = "none"
    /\ ~Invited(req[r].e, req[r].who)
    /\ seat' = [seat EXCEPT ![s] = NewSeat(req[r])]
    /\ grants' = grants \cup (req[r].give \X {s})
    /\ Return(r)
    /\ UNCHANGED <<parent, life, everChild>>

\* The insert of the seat and its grants, all or none; the unique key over event
\* and address fails it when another invitation came first.
InviteCreate(r, s) ==
    /\ At(r, "invite", "write") /\ seat[s].state = "none"
    /\ IF Invited(req[r].e, req[r].who)
       THEN UNCHANGED <<seat, grants>>
       ELSE /\ seat' = [seat EXCEPT ![s] = NewSeat(req[r])]
            /\ grants' = grants \cup ({s} \X req[r].give)
    /\ Return(r)
    /\ UNCHANGED <<parent, life, everChild>>

\* has: which of the optional fields the request carries.
UpdateRead(r, e, s, has, terms, give) ==
    /\ Live(e)
    /\ "childGrants" \in has \/ give = {}
    /\ Start(r, [Idle EXCEPT !.op = "update", !.at = "seat", !.e = e, !.s = s, !.has = has,
                             !.role = IF "role" \in has THEN terms.role ELSE @,
                             !.surfaces = IF "surfaces" \in has THEN terms.surfaces ELSE @,
                             !.give = give])
    /\ UNCHANGED <<rows, everChild>>

\* The role and the surfaces the seat will have.
NextRole(h) == IF "role" \in h.has THEN h.role ELSE seat[h.s].role
NextSurfaces(h) == IF "surfaces" \in h.has THEN h.surfaces ELSE seat[h.s].surfaces

UpdateFindSeat_ChecksRequestOnly(r) ==
    /\ At(r, "update", "seat")
    /\ Check(r, /\ Held(req[r].s) /\ seat[req[r].s].event = req[r].e
                /\ "surfaces" \in req[r].has => SiteAllowed(NextRole(req[r]), req[r].surfaces),
             "grants")
    /\ UNCHANGED <<rows, everChild>>

\* What the request leaves out is taken from the seat as it is read here.
UpdateFindSeat(r) ==
    /\ At(r, "update", "seat")
    /\ Check(r, /\ Held(req[r].s) /\ seat[req[r].s].event = req[r].e
                /\ SiteAllowed(NextRole(req[r]), NextSurfaces(req[r])),
             "grants")
    /\ UNCHANGED <<rows, everChild>>

UpdateCheckGrants(r) ==
    /\ At(r, "update", "grants")
    /\ Check(r, "childGrants" \in req[r].has => ChildGrants(r), "write")
    /\ UNCHANGED <<rows, everChild>>

UpdateWrite_NoRollback(r) ==
    /\ At(r, "update", "write")
    /\ grants' = IF "childGrants" \in req[r].has
                 THEN {g \in grants : g[1] # req[r].s} \cup ({req[r].s} \X req[r].give)
                 ELSE grants
    /\ seat' = IF Held(req[r].s)
               THEN [seat EXCEPT ![req[r].s].role = NextRole(req[r]),
                                 ![req[r].s].surfaces = NextSurfaces(req[r])]
               ELSE seat
    /\ Return(r)
    /\ UNCHANGED <<parent, life, everChild>>

\* One transaction: it rolls back when the seat is gone by then.
UpdateWrite(r) ==
    /\ At(r, "update", "write")
    /\ IF Held(req[r].s)
       THEN /\ grants' = IF "childGrants" \in req[r].has
                         THEN {g \in grants : g[1] # req[r].s} \cup ({req[r].s} \X req[r].give)
                         ELSE grants
            /\ seat' = [seat EXCEPT ![req[r].s].role = NextRole(req[r]),
                                    ![req[r].s].surfaces = NextSurfaces(req[r])]
       ELSE UNCHANGED <<seat, grants>>
    /\ Return(r)
    /\ UNCHANGED <<parent, life, everChild>>

\* The caller is the host or the seat's own person; the effect is the same.
RemoveRead(r, e, s) ==
    /\ Live(e)
    /\ Start(r, [Idle EXCEPT !.op = "remove", !.at = "seat", !.e = e, !.s = s])
    /\ UNCHANGED <<rows, everChild>>

RemoveFindSeat(r) ==
    /\ At(r, "remove", "seat")
    /\ Check(r, Held(req[r].s) /\ seat[req[r].s].event = req[r].e, "write")
    /\ UNCHANGED <<rows, everChild>>

\* The person leaves through the seat that lets them in.
LeaveRead(r, e, p, s) ==
    /\ s \in Ways(p, e)
    /\ Start(r, [Idle EXCEPT !.op = "leave", !.at = "seat", !.e = e, !.s = s, !.who = p])
    /\ UNCHANGED <<rows, everChild>>

\* A seat on the event itself goes; of a seat on the parent only the grant.
LeaveFindSeat(r) ==
    /\ At(r, "leave", "seat")
    /\ Goto(r, IF Held(req[r].s) /\ seat[req[r].s].event = req[r].e THEN "write" ELSE "second")
    /\ UNCHANGED <<rows, everChild>>

\* The row goes, and its grants with it (onDelete: Cascade).
DeleteSeat(r) ==
    /\ At(r, "remove", "write") \/ At(r, "leave", "write")
    /\ IF Held(req[r].s)
       THEN /\ seat' = [seat EXCEPT ![req[r].s] = Gone]
            /\ grants' = {g \in grants : g[1] # req[r].s}
       ELSE UNCHANGED <<seat, grants>>
    /\ Return(r)
    /\ UNCHANGED <<parent, life, everChild>>

LeaveGrant(r) ==
    /\ At(r, "leave", "second")
    /\ grants' = grants \ {<<req[r].s, req[r].e>>}
    /\ Return(r)
    /\ UNCHANGED <<parent, life, seat, everChild>>

\* The token names the seat; only the person it was sent to may accept.
AcceptRead(r, s) ==
    /\ Held(s) /\ Live(seat[s].event) /\ ~seat[s].accepted
    /\ Start(r, [Idle EXCEPT !.op = "accept", !.at = "write", !.s = s])
    /\ UNCHANGED <<rows, everChild>>

AcceptWrite(r) ==
    /\ At(r, "accept", "write")
    /\ seat' = IF Held(req[r].s) THEN [seat EXCEPT ![req[r].s].accepted = TRUE] ELSE seat
    /\ Return(r)
    /\ UNCHANGED <<parent, life, grants, everChild>>

---------------------------------------------------------------------------
\* The process restarts or a statement throws: the rest of the handler never runs.
Die(r) ==
    /\ Faults /\ req[r].at # "idle"
    /\ Return(r)
    /\ UNCHANGED <<rows, everChild>>

\* A client calls the API.
Arrive(r) ==
    \/ "add" \in Ops /\ \E p \in Events : AddRead(r, p)
    \/ "attach" \in Ops /\ \E p, c \in Events : AttachRead(r, p, c)
    \/ "detach" \in Ops /\ \E p, c \in Events : DetachRead(r, p, c)
    \/ "delete" \in Ops /\ \E e \in Events : DeleteRead(r, e)
    \/ /\ "invite" \in Ops
       /\ \E e \in Events, who \in People, terms \in Terms, give \in SUBSET Events :
             InviteRead(r, e, who, terms, give)
    \/ /\ "update" \in Ops
       /\ \E e \in Events, s \in Seats, has \in Updates, terms \in Terms,
             give \in SUBSET Events : UpdateRead(r, e, s, has, terms, give)
    \/ "remove" \in Ops /\ \E e \in Events, s \in Seats : RemoveRead(r, e, s)
    \/ "leave" \in Ops /\ \E e \in Events, p \in People, s \in Seats : LeaveRead(r, e, p, s)
    \/ "accept" \in Ops /\ \E s \in Seats : AcceptRead(r, s)

\* A handler in flight runs its next statement.
Step(r) ==
    \/ \E c \in Events : AddCreate(r, c)
    \/ AttachFindChild(r) \/ AttachCount(r) \/ AttachWrite(r)
    \/ DetachFindChild(r) \/ DetachRevoke(r) \/ DetachUnlink(r)
    \/ DeleteListChildren(r) \/ DeleteWrite(r)
    \/ InviteCheckGrants(r) \/ InviteFindExisting(r) \/ \E s \in Seats : InviteCreate(r, s)
    \/ UpdateFindSeat(r) \/ UpdateCheckGrants(r) \/ UpdateWrite(r)
    \/ RemoveFindSeat(r) \/ LeaveFindSeat(r) \/ DeleteSeat(r) \/ LeaveGrant(r)
    \/ AcceptWrite(r)

Next ==
    \/ \E e \in Events : CreateEvent(e)
    \/ \E r \in Requests : Arrive(r) \/ Step(r) \/ Die(r)

Spec == Init /\ [][Next]_vars

---------------------------------------------------------------------------
(* What holds however the handlers interleave *)

\* A grant belongs to a seat that is still held, and names an event that is or was a
\* sub-event of the seat's event: a sub-event of someone else's circle never slips in,
\* although assertChildGrants looks before the write and the seat may be removed or
\* the sub-event detached in between.
GrantsAreRooted ==
    \A g \in grants : Held(g[1]) /\ <<seat[g[1]].event, g[2]>> \in everChild

---------------------------------------------------------------------------
(* What holds when handlers do not overlap (one request slot) *)

\* "Sub-events cannot have their own sub-events" (event-children.service.ts:165), and
\* a live sub-event's parent is live: softDelete takes the sub-events along, and a
\* parent with live sub-events is never attached elsewhere.
TreeIsFlat ==
    \A e \in Events : Live(e) /\ parent[e] # NoEvent => LiveRoot(parent[e])

\* A list shows only what can be opened: findByUser and listAccessibleEventIds take
\* every grant of an accepted seat, load() also asks that the event still be a
\* sub-event of the seat's event.
ListedOpens ==
    \A p \in People, e \in Events : Listed(p, e) => CanOpen(p, e)

\* "Only an editor can be granted site access" (event-members.service.ts:57).
SiteNeedsEditor ==
    \A s \in Seats : Held(s) => SiteAllowed(seat[s].role, seat[s].surfaces)

\* A person comes to see an event only because they accepted a seat in this step or
\* because the host granted it in this step; moving events around the tree opens
\* nothing to anyone, so a sub-event that was detached takes no viewer back.
OnlyGrantsOpen ==
    [][\A p \in People, e \in Events :
         ~CanOpen(p, e) /\ CanOpen(p, e)' =>
            \E s \in Seats : \/ seat'[s].accepted /\ ~seat[s].accepted
                             \/ <<s, e>> \in grants' \ grants]_vars


---------------------------------------------------------------------------
(* The abstract specification *)

\* What seat s stands for.
PlaceOf(s) == [who |-> seat[s].person, event |-> seat[s].event, role |-> seat[s].role,
               surfaces |-> seat[s].surfaces, accepted |-> seat[s].accepted]

Places == {PlaceOf(s) : s \in {t \in Seats : Held(t)}}

Links == {x \in Events \X Events : Live(x[2]) /\ parent[x[2]] = x[1]}

\* Who is let into which live sub-event by a seat on its parent.
LetIn == {x \in People \X Events :
             /\ Live(x[2])
             /\ \E s \in Seats : /\ Held(s) /\ seat[s].person = x[1]
                                 /\ seat[s].event = parent[x[2]]
                                 /\ <<s, x[2]>> \in grants}

Promise == INSTANCE Circle WITH
    live   <- {e \in Events : Live(e)},
    gone   <- {e \in Events : life[e] = "deleted"},
    under  <- Links,
    places <- Places,
    given  <- LetIn

\* With handlers one after another, each of them possibly cut short, the tree, the
\* invitations and who is let into what change as if every operation were one step
\* that looked at them: whatever a handler checked holds when it writes.
ImplementsCircle == Promise!Spec
=============================================================================
