------------------------- MODULE EventCircleProofs -------------------------
(***************************************************************************)
(* Proofs about EventCircle for any number of events, people, seats and    *)
(* offers.  First however many handlers overlap: types, and that a grant   *)
(* never leaves the circle it was given in.                                *)
(*                                                                         *)
(* Then for handlers that do not overlap: Solo says that there is one      *)
(* request slot.  Handlers may still die between two statements, and       *)
(* events are still created while one is in flight.  The inductive         *)
(* invariant SInv adds to IInv that what a handler has checked is still so *)
(* when it writes (Sure), that grants follow the tree (GrantsFollow), and  *)
(* that nothing refers to an event before it exists. CInv adds to SInv     *)
(* that a person has one seat on an event, and on it rests the proof that  *)
(* the handlers implement Circle.                                          *)
(***************************************************************************)
EXTENDS EventCircle, TLAPS

---------------------------------------------------------------------------
(* What handlers know, however they interleave *)

\* Every link in the table is in the history.
LinksKnown == \A c \in Events : parent[c] # NoEvent => <<parent[c], c>> \in everChild

\* h is past the check of the sub-events it is about to grant.
Offering(h) ==
    \/ h.op = "invite" /\ h.at \in {"existing", "write"}
    \/ h.op = "update" /\ h.at = "write" /\ "childGrants" \in h.has

\* Seat s was found on event e: the row is that one, or gone by now.
SeatOn(s, e) == seat[s].state # "none" /\ (Held(s) => seat[s].event = e)

\* What the reads a handler has behind it still tell.
Knows(h) ==
    /\ h.op \in AllOps \ {"accept"} => h.e \in Events
    /\ h.op \in {"attach", "detach"} => h.c \in Events
    /\ h.op = "invite" => h.who \in People
    /\ h.op \in {"update", "remove", "leave", "accept"} => h.s \in Seats
    /\ Offering(h) => \A c \in h.give : <<h.e, c>> \in everChild
    /\ h.op = "update" /\ h.at \in {"grants", "write"} => SeatOn(h.s, h.e)

IInv ==
    /\ TypeOK
    /\ GrantsAreRooted
    /\ LinksKnown
    /\ \A r \in Requests : Knows(req[r])

\* A row keeps its event until it is deleted, and a deleted row stays deleted.
SeatsStay ==
    \A s \in Seats : seat[s].state # "none" =>
        /\ seat'[s].state # "none"
        /\ seat'[s].state = "held" => seat[s].state = "held" /\ seat'[s].event = seat[s].event

LEMMA IdleType == Idle \in Request /\ Idle.op = "none" /\ Idle.at = "idle"
BY DEF Idle, Request, Roles

LEMMA IdleKnows == Knows(Idle) /\ Knows(Idle)'
BY DEF Knows, Offering, Idle, AllOps

\* What every step has to show: types, the grants and links it leaves behind, and that
\* each handler knows no more than it may.
LEMMA StepKeeps ==
    ASSUME IInv, TypeOK', GrantsAreRooted', LinksKnown', SeatsStay,
           everChild \subseteq everChild',
           \A q \in Requests : req'[q] = req[q] \/ Knows(req[q])'
    PROVE  IInv'
<1>1. ASSUME NEW q \in Requests PROVE Knows(req[q])'
  <2>1. CASE req'[q] = req[q]
    <3>1. Knows(req[q])
      BY DEF IInv
    <3>2. ASSUME SeatOn(req[q].s, req[q].e), req[q].s \in Seats PROVE SeatOn(req[q].s, req[q].e)'
      BY <2>1, <3>2 DEF SeatOn, SeatsStay, Held
    <3> QED BY <2>1, <3>1, <3>2 DEF Knows, Offering
  <2>2. CASE req'[q] # req[q]
    BY <2>2
  <2> QED BY <2>1, <2>2
<1> QED BY <1>1 DEF IInv

\* A step that only reads: the handler in slot r goes on as h.
LEMMA ReadKeeps ==
    ASSUME IInv, NEW r \in Requests, NEW h \in Request, Knows(h),
           req' = [req EXCEPT ![r] = h], UNCHANGED <<rows, everChild>>
    PROVE  IInv'
<1>1. /\ \A q \in Requests : req'[q] = IF q = r THEN h ELSE req[q]
      /\ req' \in [Requests -> Request]
  BY DEF IInv, TypeOK
<1>2. UNCHANGED <<parent, life, seat, grants, everChild>>
  BY DEF rows
<1>3. Knows(h)'
  BY <1>2 DEF Knows, Offering, SeatOn, Held
<1>4. \A q \in Requests : req'[q] = req[q] \/ Knows(req[q])'
  BY <1>1, <1>3 DEF Knows, Offering, SeatOn
<1>5. TypeOK'
  BY <1>1, <1>2 DEF IInv, TypeOK
<1>6. GrantsAreRooted' /\ LinksKnown' /\ SeatsStay
  BY <1>2 DEF IInv, GrantsAreRooted, LinksKnown, SeatsStay, Held
<1> QED BY <1>2, <1>4, <1>5, <1>6, StepKeeps

LEMMA ReturnType ==
    ASSUME IInv, NEW r \in Requests, Return(r)
    PROVE  /\ req' \in [Requests -> Request]
           /\ \A q \in Requests : req'[q] = req[q] \/ Knows(req[q])'
<1>1. \A q \in Requests : req'[q] = IF q = r THEN Idle ELSE req[q]
  BY DEF IInv, TypeOK, Return
<1>2. \A q \in Requests : req'[q] = req[q] \/ Knows(req[q])'
  BY <1>1, IdleKnows DEF Knows, Offering, SeatOn
<1> QED BY <1>2, IdleType DEF IInv, TypeOK, Return

\* The handler in slot r, one await further.
Then(r, phase) == [req[r] EXCEPT !.at = phase]

\* A read that decides whether the handler goes on.
LEMMA CheckKeeps ==
    ASSUME IInv, NEW r \in Requests, NEW condition \in BOOLEAN, NEW phase,
           Check(r, condition, phase), UNCHANGED <<rows, everChild>>,
           condition => /\ Then(r, phase) \in Request
                        /\ Knows(Then(r, phase))
    PROVE  IInv'
<1>1. CASE condition
  <2>1. req' = [req EXCEPT ![r] = Then(r, phase)]
    BY <1>1 DEF Check, Goto, Then
  <2> QED BY <1>1, <2>1, ReadKeeps
<1>2. CASE ~condition
  BY <1>2, IdleType, IdleKnows, ReadKeeps DEF Check, Return
<1> QED BY <1>1, <1>2

---------------------------------------------------------------------------
(* The calls arriving *)

LEMMA AddReadKeeps ==
    ASSUME IInv, NEW r \in Requests, NEW p \in Events, AddRead(r, p)
    PROVE  IInv'
<1> DEFINE h == [Idle EXCEPT !.op = "add", !.at = "write", !.e = p]
<1>1. h \in Request
  BY IdleType DEF Request, AllOps, Idle
<1>2. Knows(h)
  BY DEF Knows, Offering, Idle
<1> QED BY <1>1, <1>2, ReadKeeps DEF AddRead, Start

LEMMA AttachReadKeeps ==
    ASSUME IInv, NEW r \in Requests, NEW p \in Events, NEW c \in Events,
           AttachRead(r, p, c)
    PROVE  IInv'
<1> DEFINE h == [Idle EXCEPT !.op = "attach", !.at = "child", !.e = p, !.c = c]
<1>1. h \in Request
  BY IdleType DEF Request, AllOps, Idle
<1>2. Knows(h)
  BY DEF Knows, Offering, Idle
<1> QED BY <1>1, <1>2, ReadKeeps DEF AttachRead, Start

LEMMA DetachReadKeeps ==
    ASSUME IInv, NEW r \in Requests, NEW p \in Events, NEW c \in Events,
           DetachRead(r, p, c)
    PROVE  IInv'
<1> DEFINE h == [Idle EXCEPT !.op = "detach", !.at = "child", !.e = p, !.c = c]
<1>1. h \in Request
  BY IdleType DEF Request, AllOps, Idle
<1>2. Knows(h)
  BY DEF Knows, Offering, Idle
<1> QED BY <1>1, <1>2, ReadKeeps DEF DetachRead, Start

LEMMA DeleteReadKeeps ==
    ASSUME IInv, NEW r \in Requests, NEW e \in Events, DeleteRead(r, e)
    PROVE  IInv'
<1> DEFINE phase == IF parent[e] = NoEvent THEN "children" ELSE "write"
           h == [Idle EXCEPT !.op = "delete", !.e = e, !.at = phase]
<1>1. phase \in {"children", "write"}
  OBVIOUS
<1>2. req' = [req EXCEPT ![r] = h] /\ UNCHANGED <<rows, everChild>>
  BY DEF DeleteRead, Start
<1> HIDE DEF phase
<1>3. h \in Request
  BY <1>1, IdleType DEF Request, AllOps, Idle
<1>4. Knows(h)
  BY <1>1 DEF Knows, Offering, Idle
<1> QED BY <1>2, <1>3, <1>4, ReadKeeps

LEMMA InviteReadKeeps ==
    ASSUME IInv, NEW r \in Requests, NEW e \in Events, NEW who \in People,
           NEW terms \in Terms, NEW give \in SUBSET Events,
           InviteRead(r, e, who, terms, give)
    PROVE  IInv'
<1> DEFINE h == [Idle EXCEPT !.op = "invite", !.at = "grants", !.e = e, !.who = who,
                             !.role = terms.role, !.surfaces = terms.surfaces, !.give = give]
<1>1. terms.role \in Roles /\ terms.surfaces \in SUBSET Surfaces
  BY CircleAssumption
<1>2. h \in Request
  BY <1>1, IdleType DEF Request, AllOps, Idle
<1>3. Knows(h)
  BY DEF Knows, Offering, Idle
<1> QED BY <1>2, <1>3, ReadKeeps DEF InviteRead, Start

LEMMA UpdateReadKeeps ==
    ASSUME IInv, NEW r \in Requests, NEW e \in Events, NEW s \in Seats,
           NEW has \in Updates, NEW terms \in Terms, NEW give \in SUBSET Events,
           UpdateRead(r, e, s, has, terms, give)
    PROVE  IInv'
<1> DEFINE role == IF "role" \in has THEN terms.role ELSE Idle.role
           surfaces == IF "surfaces" \in has THEN terms.surfaces ELSE Idle.surfaces
           h == [Idle EXCEPT !.op = "update", !.at = "seat", !.e = e, !.s = s, !.has = has,
                             !.role = role, !.surfaces = surfaces, !.give = give]
<1>1. role \in Roles /\ surfaces \in SUBSET Surfaces /\ has \in SUBSET Fields
  BY CircleAssumption, IdleType DEF Request
<1>2. req' = [req EXCEPT ![r] = h] /\ UNCHANGED <<rows, everChild>>
  BY DEF UpdateRead, Start
<1> HIDE DEF role, surfaces
<1>3. h \in Request
  BY <1>1, IdleType DEF Request, AllOps, Idle
<1>4. Knows(h)
  BY DEF Knows, Offering, Idle
<1> QED BY <1>2, <1>3, <1>4, ReadKeeps

LEMMA RemoveReadKeeps ==
    ASSUME IInv, NEW r \in Requests, NEW e \in Events, NEW s \in Seats, RemoveRead(r, e, s)
    PROVE  IInv'
<1> DEFINE h == [Idle EXCEPT !.op = "remove", !.at = "seat", !.e = e, !.s = s]
<1>1. h \in Request
  BY IdleType DEF Request, AllOps, Idle
<1>2. Knows(h)
  BY DEF Knows, Offering, Idle
<1> QED BY <1>1, <1>2, ReadKeeps DEF RemoveRead, Start

LEMMA LeaveReadKeeps ==
    ASSUME IInv, NEW r \in Requests, NEW e \in Events, NEW p \in People, NEW s \in Seats,
           LeaveRead(r, e, p, s)
    PROVE  IInv'
<1> DEFINE h == [Idle EXCEPT !.op = "leave", !.at = "seat", !.e = e, !.s = s, !.who = p]
<1>1. h \in Request
  BY IdleType DEF Request, AllOps, Idle
<1>2. Knows(h)
  BY DEF Knows, Offering, Idle
<1> QED BY <1>1, <1>2, ReadKeeps DEF LeaveRead, Start

LEMMA AcceptReadKeeps ==
    ASSUME IInv, NEW r \in Requests, NEW s \in Seats, AcceptRead(r, s)
    PROVE  IInv'
<1> DEFINE h == [Idle EXCEPT !.op = "accept", !.at = "write", !.s = s]
<1>1. h \in Request
  BY IdleType DEF Request, AllOps, Idle
<1>2. Knows(h)
  BY DEF Knows, Offering, Idle
<1> QED BY <1>1, <1>2, ReadKeeps DEF AcceptRead, Start

---------------------------------------------------------------------------
(* The reads of a handler in flight *)

LEMMA NextPhase ==
    ASSUME IInv, NEW r \in Requests,
           NEW phase \in {"count", "grants", "existing", "write", "second"}
    PROVE  /\ Then(r, phase) \in Request /\ Then(r, phase).at = phase
           /\ Then(r, phase).op = req[r].op /\ Then(r, phase).e = req[r].e
           /\ Then(r, phase).c = req[r].c /\ Then(r, phase).s = req[r].s
           /\ Then(r, phase).who = req[r].who /\ Then(r, phase).has = req[r].has
           /\ Then(r, phase).give = req[r].give /\ Then(r, phase).role = req[r].role
           /\ Then(r, phase).surfaces = req[r].surfaces
<1>1. req[r] \in Request
  BY DEF IInv, TypeOK
<1> QED BY <1>1 DEF Request, Then

LEMMA FindKeeps ==
    ASSUME IInv, NEW r \in Requests,
           \/ AttachFindChild(r) \/ AttachCount(r) \/ DetachFindChild(r)
           \/ RemoveFindSeat(r) \/ LeaveFindSeat(r)
    PROVE  IInv'
<1>1. Knows(req[r])
  BY DEF IInv
<1>2. ASSUME req[r].op \in {"attach", "detach", "remove", "leave"},
             NEW phase \in {"count", "write", "second"}
      PROVE  Then(r, phase) \in Request /\ Knows(Then(r, phase))
  <2> QED BY <1>1, <1>2, NextPhase DEF Knows, Offering
<1>3. CASE AttachFindChild(r)
  <2>1. (LiveRoot(req[r].c) /\ req[r].c # req[r].e) \in BOOLEAN
    OBVIOUS
  <2> QED BY <1>2, <1>3, <2>1, CheckKeeps DEF AttachFindChild, At
<1>4. CASE AttachCount(r)
  <2>1. (LiveChildren(req[r].c) = {}) \in BOOLEAN
    OBVIOUS
  <2> QED BY <1>2, <1>4, <2>1, CheckKeeps DEF AttachCount, At
<1>5. CASE DetachFindChild(r)
  <2>1. (req[r].c \in LiveChildren(req[r].e)) \in BOOLEAN
    OBVIOUS
  <2> QED BY <1>2, <1>5, <2>1, CheckKeeps DEF DetachFindChild, At
<1>6. CASE RemoveFindSeat(r)
  <2>1. (Held(req[r].s) /\ seat[req[r].s].event = req[r].e) \in BOOLEAN
    BY DEF Held
  <2> QED BY <1>2, <1>6, <2>1, CheckKeeps DEF RemoveFindSeat, At
<1>7. CASE LeaveFindSeat(r)
  <2> DEFINE phase == IF Held(req[r].s) /\ seat[req[r].s].event = req[r].e
                      THEN "write" ELSE "second"
  <2>1. phase \in {"count", "write", "second"}
    OBVIOUS
  <2>2. req' = [req EXCEPT ![r] = Then(r, phase)]
    BY <1>7 DEF LeaveFindSeat, Goto, Then
  <2> HIDE DEF phase
  <2>3. Then(r, phase) \in Request /\ Knows(Then(r, phase))
    BY <1>2, <1>7, <2>1 DEF LeaveFindSeat, At
  <2> QED BY <1>7, <2>2, <2>3, ReadKeeps DEF LeaveFindSeat
<1> QED BY <1>3, <1>4, <1>5, <1>6, <1>7

LEMMA DeleteListChildrenKeeps ==
    ASSUME IInv, NEW r \in Requests, DeleteListChildren(r)
    PROVE  IInv'
<1> DEFINE h == [req[r] EXCEPT !.at = "write", !.give = LiveChildren(req[r].e)]
<1>1. req[r] \in Request /\ Knows(req[r]) /\ LiveChildren(req[r].e) \in SUBSET Events
  BY DEF IInv, TypeOK, LiveChildren
<1>2. h \in Request /\ h.op = "delete" /\ h.e = req[r].e
  BY <1>1 DEF Request, DeleteListChildren, At
<1>3. req' = [req EXCEPT ![r] = h]
  BY DEF DeleteListChildren
<1> HIDE DEF h
<1>4. Knows(h)
  BY <1>1, <1>2 DEF Knows, Offering, DeleteListChildren, At, AllOps
<1> QED BY <1>2, <1>3, <1>4, ReadKeeps DEF DeleteListChildren

\* assertChildGrants: what it lets through is in the history.
LEMMA ChildGrantsKnown ==
    ASSUME IInv, NEW r \in Requests, ChildGrants(r), req[r].e \in Events
    PROVE  \A c \in req[r].give : <<req[r].e, c>> \in everChild
BY CircleAssumption DEF IInv, LinksKnown, ChildGrants, LiveChildren

LEMMA InviteCheckKeeps ==
    ASSUME IInv, NEW r \in Requests, InviteCheckGrants(r) \/ InviteFindExisting(r)
    PROVE  IInv'
<1>1. Knows(req[r]) /\ req[r].op = "invite" /\ req[r].e \in Events
  BY DEF IInv, Knows, InviteCheckGrants, InviteFindExisting, At, AllOps
<1>2. ASSUME NEW phase \in {"existing", "write"},
             \A c \in req[r].give : <<req[r].e, c>> \in everChild
      PROVE  Then(r, phase) \in Request /\ Knows(Then(r, phase))
  <2> QED BY <1>1, <1>2, NextPhase DEF Knows, Offering
<1>3. CASE InviteCheckGrants(r)
  <2>1. ChildGrants(r) \in BOOLEAN
    BY DEF ChildGrants
  <2> QED BY <1>1, <1>2, <1>3, <2>1, ChildGrantsKnown, CheckKeeps DEF InviteCheckGrants
<1>4. CASE InviteFindExisting(r)
  <2>1. \A c \in req[r].give : <<req[r].e, c>> \in everChild
    BY <1>1, <1>4 DEF InviteFindExisting, At, Knows, Offering
  <2>2. (~Invited(req[r].e, req[r].who)) \in BOOLEAN
    BY DEF Invited
  <2> QED BY <1>2, <1>4, <2>1, <2>2, CheckKeeps DEF InviteFindExisting
<1> QED BY <1>3, <1>4

LEMMA UpdateCheckKeeps ==
    ASSUME IInv, NEW r \in Requests, UpdateFindSeat(r) \/ UpdateCheckGrants(r)
    PROVE  IInv'
<1>1. Knows(req[r]) /\ req[r].op = "update" /\ req[r].e \in Events
  BY DEF IInv, Knows, UpdateFindSeat, UpdateCheckGrants, At, AllOps
<1>2. ASSUME NEW phase \in {"grants", "write"}, SeatOn(req[r].s, req[r].e),
             phase = "write" /\ "childGrants" \in req[r].has
                => \A c \in req[r].give : <<req[r].e, c>> \in everChild
      PROVE  Then(r, phase) \in Request /\ Knows(Then(r, phase))
  <2> QED BY <1>1, <1>2, NextPhase DEF Knows, Offering
<1>3. CASE UpdateFindSeat(r)
  <2> DEFINE ok == /\ Held(req[r].s) /\ seat[req[r].s].event = req[r].e
                   /\ SiteAllowed(NextRole(req[r]), NextSurfaces(req[r]))
  <2>1. ok \in BOOLEAN /\ (ok => SeatOn(req[r].s, req[r].e))
    BY DEF Held, SiteAllowed, SeatOn
  <2>2. Check(r, ok, "grants") /\ UNCHANGED <<rows, everChild>>
    BY <1>3 DEF UpdateFindSeat
  <2> HIDE DEF ok
  <2> QED BY <1>2, <2>1, <2>2, CheckKeeps
<1>4. CASE UpdateCheckGrants(r)
  <2> DEFINE ok == "childGrants" \in req[r].has => ChildGrants(r)
  <2>1. ok \in BOOLEAN /\ SeatOn(req[r].s, req[r].e)
    BY <1>1, <1>4 DEF UpdateCheckGrants, At, Knows
  <2>2. ok => ("childGrants" \in req[r].has
                 => \A c \in req[r].give : <<req[r].e, c>> \in everChild)
    BY <1>1, ChildGrantsKnown
  <2>3. Check(r, ok, "write") /\ UNCHANGED <<rows, everChild>>
    BY <1>4 DEF UpdateCheckGrants
  <2> HIDE DEF ok
  <2> QED BY <1>2, <2>1, <2>2, <2>3, CheckKeeps
<1> QED BY <1>3, <1>4

---------------------------------------------------------------------------
(* The writes *)

\* A write that leaves the seats alone and gives no grant.
LEMMA TreeWriteKeeps ==
    ASSUME IInv, seat' = seat, grants' \subseteq grants,
           parent' \in [Events -> Events \cup {NoEvent}],
           life' \in [Events -> {"unborn", "live", "deleted"}],
           everChild \subseteq everChild', everChild' \subseteq Events \X Events,
           LinksKnown',
           req' \in [Requests -> Request],
           \A q \in Requests : req'[q] = req[q] \/ Knows(req[q])'
    PROVE  IInv'
<1>1. TypeOK'
  BY DEF IInv, TypeOK
<1>2. GrantsAreRooted' /\ SeatsStay
  BY DEF IInv, GrantsAreRooted, SeatsStay, Held
<1> QED BY <1>1, <1>2, StepKeeps

LEMMA TreeWritesKeep ==
    ASSUME IInv, NEW r \in Requests,
           \/ \E c \in Events : AddCreate(r, c)
           \/ AttachWrite(r) \/ DetachUnlink(r) \/ DeleteWrite(r) \/ LeaveGrant(r)
    PROVE  IInv'
<1>1. /\ req[r] \in Request /\ Knows(req[r])
      /\ everChild \subseteq Events \X Events
  BY DEF IInv, TypeOK
<1>2. ASSUME NEW c \in Events, AddCreate(r, c) PROVE IInv'
  <2>1. Return(r) /\ req[r].e \in Events
    BY <1>1, <1>2 DEF AddCreate, At, Knows, AllOps
  <2>2. LinksKnown'
    BY <1>2, <2>1 DEF IInv, TypeOK, LinksKnown, AddCreate
  <2>3. /\ parent' \in [Events -> Events \cup {NoEvent}]
        /\ life' \in [Events -> {"unborn", "live", "deleted"}]
        /\ everChild \subseteq everChild' /\ everChild' \subseteq Events \X Events
        /\ seat' = seat /\ grants' \subseteq grants
    BY <1>1, <1>2, <2>1 DEF IInv, TypeOK, AddCreate
  <2> QED BY <2>1, <2>2, <2>3, ReturnType, TreeWriteKeeps
<1>3. CASE AttachWrite(r)
  <2>1. Return(r) /\ req[r].e \in Events /\ req[r].c \in Events
    BY <1>1, <1>3 DEF AttachWrite, At, Knows, AllOps
  <2>2. LinksKnown'
    BY <1>3, <2>1 DEF IInv, TypeOK, LinksKnown, AttachWrite
  <2>3. /\ parent' \in [Events -> Events \cup {NoEvent}]
        /\ life' \in [Events -> {"unborn", "live", "deleted"}]
        /\ everChild \subseteq everChild' /\ everChild' \subseteq Events \X Events
        /\ seat' = seat /\ grants' \subseteq grants
    BY <1>1, <1>3, <2>1 DEF IInv, TypeOK, AttachWrite
  <2> QED BY <2>1, <2>2, <2>3, ReturnType, TreeWriteKeeps
<1>4. CASE DetachUnlink(r)
  <2>1. Return(r)
    BY <1>4 DEF DetachUnlink
  <2>2. LinksKnown'
    BY <1>4 DEF IInv, TypeOK, LinksKnown, DetachUnlink
  <2>3. /\ parent' \in [Events -> Events \cup {NoEvent}]
        /\ life' \in [Events -> {"unborn", "live", "deleted"}]
        /\ everChild' = everChild /\ seat' = seat /\ grants' \subseteq grants
    BY <1>4 DEF IInv, TypeOK, DetachUnlink
  <2> QED BY <1>1, <2>1, <2>2, <2>3, ReturnType, TreeWriteKeeps
<1>5. CASE DeleteWrite(r)
  <2>1. Return(r) /\ UNCHANGED <<parent, seat, grants, everChild>>
    BY <1>5 DEF DeleteWrite
  <2>2. life' \in [Events -> {"unborn", "live", "deleted"}]
    BY <1>5 DEF IInv, TypeOK, DeleteWrite
  <2>3. LinksKnown' /\ parent' \in [Events -> Events \cup {NoEvent}]
    BY <2>1 DEF IInv, TypeOK, LinksKnown
  <2> QED BY <1>1, <2>1, <2>2, <2>3, ReturnType, TreeWriteKeeps
<1>6. CASE LeaveGrant(r)
  <2>1. Return(r) /\ UNCHANGED <<parent, life, seat, everChild>> /\ grants' \subseteq grants
    BY <1>6 DEF LeaveGrant
  <2>2. /\ LinksKnown' /\ parent' \in [Events -> Events \cup {NoEvent}]
        /\ life' \in [Events -> {"unborn", "live", "deleted"}]
    BY <2>1 DEF IInv, TypeOK, LinksKnown
  <2> QED BY <1>1, <2>1, <2>2, ReturnType, TreeWriteKeeps
<1> QED BY <1>2, <1>3, <1>4, <1>5, <1>6

LEMMA DetachRevokeKeeps ==
    ASSUME IInv, NEW r \in Requests, DetachRevoke(r)
    PROVE  IInv'
<1>1. /\ req' = [req EXCEPT ![r] = Then(r, "second")]
      /\ UNCHANGED <<parent, life, seat, everChild>> /\ grants' \subseteq grants
  BY DEF DetachRevoke, Goto, Then
<1>2. Knows(req[r]) /\ req[r].op = "detach"
  BY DEF IInv, DetachRevoke, At
<1>3. Then(r, "second") \in Request /\ Knows(Then(r, "second"))
  BY <1>2, NextPhase DEF Knows, Offering
<1>4. /\ req' \in [Requests -> Request]
      /\ \A q \in Requests : req'[q] = IF q = r THEN Then(r, "second") ELSE req[q]
  BY <1>1, <1>3 DEF IInv, TypeOK
<1>5. \A q \in Requests : req'[q] = req[q] \/ Knows(req[q])'
  BY <1>1, <1>3, <1>4 DEF Knows, Offering, SeatOn, Held
<1>6. /\ LinksKnown' /\ parent' \in [Events -> Events \cup {NoEvent}]
      /\ life' \in [Events -> {"unborn", "live", "deleted"}]
      /\ everChild' \subseteq Events \X Events
  BY <1>1 DEF IInv, TypeOK, LinksKnown
<1> QED BY <1>1, <1>4, <1>5, <1>6, TreeWriteKeeps

LEMMA CreateEventKeeps ==
    ASSUME IInv, NEW e \in Events, CreateEvent(e)
    PROVE  IInv'
<1>1. life' \in [Events -> {"unborn", "live", "deleted"}]
  BY DEF IInv, TypeOK, CreateEvent
<1>2. UNCHANGED <<parent, seat, grants, req, everChild>>
  BY DEF CreateEvent
<1>3. /\ LinksKnown' /\ parent' \in [Events -> Events \cup {NoEvent}]
      /\ everChild' \subseteq Events \X Events /\ req' \in [Requests -> Request]
  BY <1>2 DEF IInv, TypeOK, LinksKnown
<1> QED BY <1>1, <1>2, <1>3, TreeWriteKeeps

\* A write of seats and grants that returns.
LEMMA SeatWriteKeeps ==
    ASSUME IInv, NEW r \in Requests, Return(r),
           seat' \in [Seats -> Seat], grants' \subseteq Seats \X Events,
           GrantsAreRooted', SeatsStay,
           UNCHANGED <<parent, life, everChild>>
    PROVE  IInv'
<1>1. TypeOK'
  BY ReturnType DEF IInv, TypeOK
<1>2. LinksKnown'
  BY DEF IInv, LinksKnown
<1> QED BY <1>1, <1>2, ReturnType, StepKeeps

\* The insert takes an id nothing refers to yet; its grants were checked, and a link
\* once made stays in the history.
LEMMA InviteCreateKeeps ==
    ASSUME IInv, NEW r \in Requests, NEW s \in Seats, InviteCreate(r, s)
    PROVE  IInv'
<1> DEFINE h == req[r]
<1>1. /\ h \in Request /\ Knows(h) /\ h.op = "invite" /\ h.at = "write"
      /\ seat[s].state = "none" /\ Return(r) /\ UNCHANGED <<parent, life, everChild>>
  BY DEF IInv, TypeOK, InviteCreate, At
<1>2. CASE Invited(h.e, h.who)
  <2>1. UNCHANGED <<seat, grants>>
    BY <1>2 DEF InviteCreate
  <2> QED BY <1>1, <2>1, SeatWriteKeeps DEF IInv, TypeOK, GrantsAreRooted, SeatsStay, Held
<1>3. CASE ~Invited(h.e, h.who)
  <2>1. /\ seat' = [seat EXCEPT ![s] = NewSeat(h)]
        /\ grants' = grants \cup ({s} \X h.give)
    BY <1>3 DEF InviteCreate
  <2>2. NewSeat(h) \in Seat /\ NewSeat(h).event = h.e /\ NewSeat(h).state = "held"
    BY <1>1 DEF NewSeat, Seat, Request
  <2>3. /\ seat' \in [Seats -> Seat]
        /\ \A t \in Seats : seat'[t] = IF t = s THEN NewSeat(h) ELSE seat[t]
    BY <2>1, <2>2 DEF IInv, TypeOK
  <2>4. SeatsStay
    BY <1>1, <2>3 DEF SeatsStay
  <2>5. grants' \subseteq Seats \X Events
    BY <1>1, <2>1 DEF IInv, TypeOK, Request
  <2>6. \A c \in h.give : <<h.e, c>> \in everChild
    BY <1>1 DEF Knows, Offering
  <2>7. GrantsAreRooted'
    <3> SUFFICES ASSUME NEW g \in grants'
                 PROVE  seat'[g[1]].state = "held" /\ <<seat'[g[1]].event, g[2]>> \in everChild'
      BY DEF GrantsAreRooted, Held
    <3>1. CASE g \in grants
      <4>1. g[1] \in Seats /\ Held(g[1]) /\ <<seat[g[1]].event, g[2]>> \in everChild
        BY <3>1 DEF IInv, TypeOK, GrantsAreRooted
      <4>2. g[1] # s
        BY <1>1, <4>1 DEF Held
      <4> QED BY <1>1, <2>3, <4>1, <4>2 DEF Held
    <3>2. CASE g \in {s} \X h.give
      <4>1. g[1] = s /\ g[2] \in h.give
        BY <3>2
      <4> QED BY <1>1, <2>2, <2>3, <2>6, <4>1
    <3> QED BY <2>1, <3>1, <3>2
  <2> QED BY <1>1, <2>3, <2>4, <2>5, <2>7, SeatWriteKeeps
<1> QED BY <1>2, <1>3

\* The transaction rolls back on a seat that is gone; a seat that is still there is on
\* the event whose sub-events were checked.
LEMMA UpdateWriteKeeps ==
    ASSUME IInv, NEW r \in Requests, UpdateWrite(r)
    PROVE  IInv'
<1> DEFINE h == req[r]
           s == req[r].s
<1>1. /\ h \in Request /\ Knows(h) /\ h.op = "update" /\ h.at = "write" /\ s \in Seats
      /\ SeatOn(s, h.e) /\ Return(r) /\ UNCHANGED <<parent, life, everChild>>
  BY DEF IInv, TypeOK, UpdateWrite, At, Knows
<1>2. CASE ~Held(s)
  <2>1. UNCHANGED <<seat, grants>>
    BY <1>2 DEF UpdateWrite
  <2> QED BY <1>1, <2>1, SeatWriteKeeps DEF IInv, TypeOK, GrantsAreRooted, SeatsStay, Held
<1>3. CASE Held(s)
  <2> DEFINE row == [seat[s] EXCEPT !.role = NextRole(h), !.surfaces = NextSurfaces(h)]
  <2>1. /\ seat[s] \in Seat /\ seat[s].state = "held" /\ seat[s].event = h.e
        /\ NextRole(h) \in Roles /\ NextSurfaces(h) \in SUBSET Surfaces
    BY <1>1, <1>3 DEF IInv, TypeOK, SeatOn, Held, NextRole, NextSurfaces, Request, Seat
  <2>2. row \in Seat /\ row.event = h.e /\ row.state = "held"
    BY <2>1 DEF Seat
  <2>3. seat' = [seat EXCEPT ![s] = row]
    BY <1>3 DEF UpdateWrite
  <2> HIDE DEF row
  <2>4. /\ seat' \in [Seats -> Seat]
        /\ \A t \in Seats : seat'[t] = IF t = s THEN row ELSE seat[t]
    BY <1>1, <2>2, <2>3 DEF IInv, TypeOK
  <2>5. SeatsStay
    BY <2>1, <2>2, <2>4 DEF SeatsStay
  <2>6. \A g \in grants' : \/ g \in grants
                           \/ /\ "childGrants" \in h.has /\ g \in {s} \X h.give
    BY <1>3 DEF UpdateWrite
  <2>7. grants' \subseteq Seats \X Events
    <3>1. grants \subseteq Seats \X Events /\ {s} \X h.give \subseteq Seats \X Events
      BY <1>1 DEF IInv, TypeOK, Request
    <3> QED BY <2>6, <3>1
  <2>8. GrantsAreRooted'
    <3> SUFFICES ASSUME NEW g \in grants'
                 PROVE  seat'[g[1]].state = "held" /\ <<seat'[g[1]].event, g[2]>> \in everChild'
      BY DEF GrantsAreRooted, Held
    <3>1. CASE g \in grants
      <4>1. g[1] \in Seats /\ Held(g[1]) /\ <<seat[g[1]].event, g[2]>> \in everChild
        BY <3>1 DEF IInv, TypeOK, GrantsAreRooted
      <4> QED BY <1>1, <2>1, <2>2, <2>4, <4>1 DEF Held
    <3>2. CASE "childGrants" \in h.has /\ g \in {s} \X h.give
      <4>1. g[1] = s /\ g[2] \in h.give
        BY <3>2
      <4>2. \A c \in h.give : <<h.e, c>> \in everChild
        BY <1>1, <3>2 DEF Knows, Offering
      <4> QED BY <1>1, <2>2, <2>4, <4>1, <4>2
    <3> QED BY <2>6, <3>1, <3>2
  <2> QED BY <1>1, <2>4, <2>5, <2>7, <2>8, SeatWriteKeeps
<1> QED BY <1>2, <1>3

LEMMA DeleteSeatKeeps ==
    ASSUME IInv, NEW r \in Requests, DeleteSeat(r)
    PROVE  IInv'
<1> DEFINE s == req[r].s
<1>1. /\ s \in Seats /\ Return(r) /\ UNCHANGED <<parent, life, everChild>>
  BY DEF IInv, DeleteSeat, At, Knows
<1>2. CASE ~Held(s)
  <2>1. UNCHANGED <<seat, grants>>
    BY <1>2 DEF DeleteSeat
  <2> QED BY <1>1, <2>1, SeatWriteKeeps DEF IInv, TypeOK, GrantsAreRooted, SeatsStay, Held
<1>3. CASE Held(s)
  <2>1. Gone \in Seat /\ Gone.state = "gone"
    BY DEF Gone, Unborn, Seat, Roles
  <2>2. /\ seat' = [seat EXCEPT ![s] = Gone]
        /\ grants' = {g \in grants : g[1] # s}
    BY <1>3 DEF DeleteSeat
  <2>3. /\ seat' \in [Seats -> Seat]
        /\ \A t \in Seats : seat'[t] = IF t = s THEN Gone ELSE seat[t]
    BY <2>1, <2>2 DEF IInv, TypeOK
  <2>4. SeatsStay
    BY <2>1, <2>3 DEF SeatsStay
  <2>5. \A g \in grants' : /\ g \in Seats \X Events /\ g[1] \in Seats /\ g[1] # s
                           /\ seat[g[1]].state = "held"
                           /\ <<seat[g[1]].event, g[2]>> \in everChild
    BY <2>2 DEF IInv, TypeOK, GrantsAreRooted, Held
  <2>6. GrantsAreRooted' /\ grants' \subseteq Seats \X Events
    BY <1>1, <2>3, <2>5 DEF GrantsAreRooted, Held
  <2> QED BY <1>1, <2>3, <2>4, <2>6, SeatWriteKeeps
<1> QED BY <1>2, <1>3

LEMMA AcceptWriteKeeps ==
    ASSUME IInv, NEW r \in Requests, AcceptWrite(r)
    PROVE  IInv'
<1> DEFINE s == req[r].s
           row == [seat[s] EXCEPT !.accepted = TRUE]
<1>1. /\ s \in Seats /\ Return(r) /\ UNCHANGED <<parent, life, grants, everChild>>
      /\ seat[s] \in Seat
  BY DEF IInv, TypeOK, AcceptWrite, At, Knows
<1>2. row \in Seat /\ row.event = seat[s].event /\ row.state = seat[s].state
  BY <1>1 DEF Seat
<1>3. seat' = [seat EXCEPT ![s] = row] \/ seat' = seat
  BY DEF AcceptWrite
<1> HIDE DEF row
<1>4. /\ seat' \in [Seats -> Seat]
      /\ \A t \in Seats : seat'[t].event = seat[t].event /\ seat'[t].state = seat[t].state
  BY <1>1, <1>2, <1>3 DEF IInv, TypeOK
<1>5. SeatsStay
  BY <1>4 DEF SeatsStay
<1>6. GrantsAreRooted' /\ grants' \subseteq Seats \X Events
  BY <1>1, <1>4 DEF IInv, TypeOK, GrantsAreRooted, Held
<1> QED BY <1>1, <1>4, <1>5, <1>6, SeatWriteKeeps

LEMMA DieKeeps ==
    ASSUME IInv, NEW r \in Requests, Die(r)
    PROVE  IInv'
BY IdleType, IdleKnows, ReadKeeps DEF Die, Return

---------------------------------------------------------------------------
LEMMA InitEstablishes == Init => IInv
<1> SUFFICES ASSUME Init PROVE IInv
  OBVIOUS
<1>1. Unborn \in Seat
  BY DEF Unborn, Seat, Roles
<1>2. TypeOK
  BY <1>1, IdleType DEF Init, TypeOK
<1>3. GrantsAreRooted /\ LinksKnown
  BY DEF Init, GrantsAreRooted, LinksKnown
<1>4. \A r \in Requests : Knows(req[r])
  BY IdleKnows DEF Init
<1> QED BY <1>2, <1>3, <1>4 DEF IInv

LEMMA NextKeeps == IInv /\ [Next]_vars => IInv'
<1> SUFFICES ASSUME IInv, [Next]_vars PROVE IInv'
  OBVIOUS
<1>1. CASE UNCHANGED vars
  <2>1. UNCHANGED <<parent, life, seat, grants, req, everChild>>
    BY <1>1 DEF vars, rows
  <2>2. /\ LinksKnown' /\ parent' \in [Events -> Events \cup {NoEvent}]
        /\ life' \in [Events -> {"unborn", "live", "deleted"}]
        /\ everChild' \subseteq Events \X Events /\ req' \in [Requests -> Request]
    BY <2>1 DEF IInv, TypeOK, LinksKnown
  <2> QED BY <2>1, <2>2, TreeWriteKeeps
<1>2. ASSUME NEW r \in Requests, Arrive(r) PROVE IInv'
  BY <1>2, AddReadKeeps, AttachReadKeeps, DetachReadKeeps, DeleteReadKeeps, InviteReadKeeps,
     UpdateReadKeeps, RemoveReadKeeps, LeaveReadKeeps, AcceptReadKeeps DEF Arrive
<1>3. ASSUME NEW r \in Requests, Step(r) PROVE IInv'
  BY <1>3, TreeWritesKeep, FindKeeps, DetachRevokeKeeps, DeleteListChildrenKeeps,
     InviteCheckKeeps, InviteCreateKeeps, UpdateCheckKeeps, UpdateWriteKeeps, DeleteSeatKeeps,
     AcceptWriteKeeps DEF Step
<1>4. ASSUME NEW r \in Requests, Die(r) PROVE IInv'
  BY <1>4, DieKeeps
<1>5. ASSUME NEW e \in Events, CreateEvent(e) PROVE IInv'
  BY <1>5, CreateEventKeeps
<1> QED BY <1>1, <1>2, <1>3, <1>4, <1>5 DEF Next

\* The inductive invariant of the event handlers, however many are in flight.
THEOREM CircleInvariant == Spec => []IInv
BY InitEstablishes, NextKeeps, PTL DEF Spec

\* Events, seats, grants and handlers keep their types.
THEOREM CircleTypes == Spec => []TypeOK
<1>1. IInv => TypeOK
  BY DEF IInv
<1> QED BY <1>1, CircleInvariant, PTL

\* However invitations, updates, removals and moves in the tree interleave, a grant
\* belongs to a seat that is held and names a present or former sub-event of its event.
THEOREM GrantsStayRooted == Spec => []GrantsAreRooted
<1>1. IInv => GrantsAreRooted
  BY DEF IInv
<1> QED BY <1>1, CircleInvariant, PTL

---------------------------------------------------------------------------
(* One handler at a time *)

Solo == \A q, r \in Requests : q = r

\* A grant names a sub-event of its seat's event, now and not just once.
GrantsFollow == \A g \in grants : parent[g[2]] = seat[g[1]].event

UnbornIsBare == \A e \in Events : life[e] = "unborn" => parent[e] = NoEvent

SeatsOnEvents ==
    \A s \in Seats : Held(s) => seat[s].event \in Events /\ life[seat[s].event] # "unborn"

\* What a handler has checked still holds.
Sure(h) ==
    /\ h.op = "add" => LiveRoot(h.e)
    /\ h.op = "attach" => LiveRoot(h.e)
    /\ h.op = "attach" /\ h.at \in {"count", "write"} => LiveRoot(h.c) /\ h.c # h.e
    /\ h.op = "attach" /\ h.at = "write" => LiveChildren(h.c) = {}
    /\ h.op = "detach" /\ h.at = "second" => \A g \in grants : g[2] # h.c
    /\ h.op = "delete" => life[h.e] # "unborn"
    /\ h.op = "delete" /\ h.at = "write" => h.give = LiveChildren(h.e)
    /\ h.op = "invite" => life[h.e] # "unborn" /\ SiteAllowed(h.role, h.surfaces)
    /\ h.op = "update" /\ h.at \in {"grants", "write"} =>
          SiteAllowed(NextRole(h), NextSurfaces(h))
    /\ Offering(h) => h.give \subseteq LiveChildren(h.e)

SInv ==
    /\ IInv
    /\ TreeIsFlat
    /\ GrantsFollow
    /\ UnbornIsBare
    /\ SeatsOnEvents
    /\ SiteNeedsEditor
    /\ \A r \in Requests : Sure(req[r])

LEMMA IdleSure == Sure(Idle) /\ Sure(Idle)'
BY DEF Sure, Idle, Offering

\* A step that only reads.
LEMMA SoloRead ==
    ASSUME Solo, SInv, IInv', NEW r \in Requests, NEW h \in Request, Sure(h),
           req' = [req EXCEPT ![r] = h], UNCHANGED <<rows, everChild>>
    PROVE  SInv'
<1>1. UNCHANGED <<parent, life, seat, grants, everChild>>
  BY DEF rows
<1>2. \A q \in Requests : req'[q] = h
  BY DEF Solo, SInv, IInv, TypeOK
<1>3. \A q \in Requests : Sure(req[q])'
  BY <1>1, <1>2 DEF Sure, Offering, LiveRoot, LiveChildren, Live, NextRole, NextSurfaces
<1>4. TreeIsFlat' /\ GrantsFollow' /\ UnbornIsBare' /\ SeatsOnEvents' /\ SiteNeedsEditor'
  BY <1>1 DEF SInv, TreeIsFlat, GrantsFollow, UnbornIsBare, SeatsOnEvents, SiteNeedsEditor,
              LiveRoot, Live, Held
<1> QED BY <1>3, <1>4 DEF SInv

\* A read that decides whether the handler goes on.
LEMMA SoloCheck ==
    ASSUME Solo, SInv, IInv', NEW r \in Requests, NEW condition \in BOOLEAN, NEW phase,
           Check(r, condition, phase), UNCHANGED <<rows, everChild>>,
           condition => Then(r, phase) \in Request /\ Sure(Then(r, phase))
    PROVE  SInv'
<1>1. CASE condition
  <2>1. req' = [req EXCEPT ![r] = Then(r, phase)]
    BY <1>1 DEF Check, Goto, Then
  <2> QED BY <1>1, <2>1, SoloRead
<1>2. CASE ~condition
  BY <1>2, IdleType, IdleSure, SoloRead DEF Check, Return
<1> QED BY <1>1, <1>2

\* A step that writes and returns: only the rows are left to look at.
LEMMA SoloReturn ==
    ASSUME Solo, SInv, IInv', NEW r \in Requests, Return(r),
           TreeIsFlat', GrantsFollow', UnbornIsBare', SeatsOnEvents', SiteNeedsEditor'
    PROVE  SInv'
<1>1. \A q \in Requests : req'[q] = Idle
  BY DEF Solo, SInv, IInv, TypeOK, Return
<1>2. \A q \in Requests : Sure(req[q])'
  BY <1>1 DEF Sure, Idle, Offering
<1> QED BY <1>2 DEF SInv

---------------------------------------------------------------------------
(* The calls arriving *)

LEMMA SoloArrive ==
    ASSUME Solo, SInv, IInv', NEW r \in Requests, Arrive(r)
    PROVE  SInv'
<1>1. ASSUME NEW p \in Events, AddRead(r, p) PROVE SInv'
  <2> DEFINE h == [Idle EXCEPT !.op = "add", !.at = "write", !.e = p]
  <2>1. h \in Request
    BY IdleType DEF Request, AllOps, Idle
  <2>2. Sure(h)
    BY <1>1 DEF AddRead, Sure, Offering, Idle
  <2> QED BY <1>1, <2>1, <2>2, SoloRead DEF AddRead, Start
<1>2. ASSUME NEW p \in Events, NEW c \in Events, AttachRead(r, p, c) PROVE SInv'
  <2> DEFINE h == [Idle EXCEPT !.op = "attach", !.at = "child", !.e = p, !.c = c]
  <2>1. h \in Request
    BY IdleType DEF Request, AllOps, Idle
  <2>2. Sure(h)
    BY <1>2 DEF AttachRead, Sure, Offering, Idle
  <2> QED BY <1>2, <2>1, <2>2, SoloRead DEF AttachRead, Start
<1>3. ASSUME NEW p \in Events, NEW c \in Events, DetachRead(r, p, c) PROVE SInv'
  <2> DEFINE h == [Idle EXCEPT !.op = "detach", !.at = "child", !.e = p, !.c = c]
  <2>1. h \in Request
    BY IdleType DEF Request, AllOps, Idle
  <2>2. Sure(h)
    BY DEF Sure, Offering, Idle
  <2> QED BY <1>3, <2>1, <2>2, SoloRead DEF DetachRead, Start
\* A sub-event has no live children, so listing none of them misses none.
<1>4. ASSUME NEW e \in Events, DeleteRead(r, e) PROVE SInv'
  <2> DEFINE phase == IF parent[e] = NoEvent THEN "children" ELSE "write"
             h == [Idle EXCEPT !.op = "delete", !.e = e, !.at = phase]
  <2>1. req' = [req EXCEPT ![r] = h] /\ UNCHANGED <<rows, everChild>> /\ Live(e)
    BY <1>4 DEF DeleteRead, Start
  <2>2. phase = "write" => LiveChildren(e) = {}
    <3> SUFFICES ASSUME parent[e] # NoEvent, NEW c \in LiveChildren(e) PROVE FALSE
      OBVIOUS
    <3>1. c \in Events /\ Live(c) /\ parent[c] = e
      BY DEF LiveChildren
    <3>2. LiveRoot(e)
      BY <3>1, CircleAssumption DEF SInv, TreeIsFlat
    <3> QED BY <3>2 DEF LiveRoot
  <2>3. phase \in {"children", "write"}
    OBVIOUS
  <2> HIDE DEF phase
  <2>4. h \in Request
    BY <2>3, IdleType DEF Request, AllOps, Idle
  <2>5. Sure(h)
    BY <2>1, <2>2, <2>3 DEF Sure, Offering, Idle, Live
  <2> QED BY <2>1, <2>4, <2>5, SoloRead
<1>5. ASSUME NEW e \in Events, NEW who \in People, NEW terms \in Terms,
             NEW give \in SUBSET Events, InviteRead(r, e, who, terms, give)
      PROVE  SInv'
  <2> DEFINE h == [Idle EXCEPT !.op = "invite", !.at = "grants", !.e = e, !.who = who,
                               !.role = terms.role, !.surfaces = terms.surfaces, !.give = give]
  <2>1. terms.role \in Roles /\ terms.surfaces \in SUBSET Surfaces
    BY CircleAssumption
  <2>2. h \in Request
    BY <2>1, IdleType DEF Request, AllOps, Idle
  <2>3. Sure(h)
    BY <1>5 DEF InviteRead, Sure, Offering, Idle, Live
  <2> QED BY <1>5, <2>2, <2>3, SoloRead DEF InviteRead, Start
<1>6. ASSUME NEW e \in Events, NEW s \in Seats, NEW has \in Updates, NEW terms \in Terms,
             NEW give \in SUBSET Events, UpdateRead(r, e, s, has, terms, give)
      PROVE  SInv'
  <2> DEFINE role == IF "role" \in has THEN terms.role ELSE Idle.role
             surfaces == IF "surfaces" \in has THEN terms.surfaces ELSE Idle.surfaces
             h == [Idle EXCEPT !.op = "update", !.at = "seat", !.e = e, !.s = s, !.has = has,
                               !.role = role, !.surfaces = surfaces, !.give = give]
  <2>1. role \in Roles /\ surfaces \in SUBSET Surfaces /\ has \in SUBSET Fields
    BY CircleAssumption, IdleType DEF Request
  <2>2. req' = [req EXCEPT ![r] = h] /\ UNCHANGED <<rows, everChild>>
    BY <1>6 DEF UpdateRead, Start
  <2> HIDE DEF role, surfaces
  <2>3. h \in Request
    BY <2>1, IdleType DEF Request, AllOps, Idle
  <2>4. Sure(h)
    BY DEF Sure, Offering, Idle
  <2> QED BY <2>2, <2>3, <2>4, SoloRead
<1>7. ASSUME NEW e \in Events, NEW s \in Seats, RemoveRead(r, e, s) PROVE SInv'
  <2> DEFINE h == [Idle EXCEPT !.op = "remove", !.at = "seat", !.e = e, !.s = s]
  <2>1. h \in Request
    BY IdleType DEF Request, AllOps, Idle
  <2>2. Sure(h)
    BY DEF Sure, Offering, Idle
  <2> QED BY <1>7, <2>1, <2>2, SoloRead DEF RemoveRead, Start
<1>8. ASSUME NEW e \in Events, NEW p \in People, NEW s \in Seats, LeaveRead(r, e, p, s)
      PROVE  SInv'
  <2> DEFINE h == [Idle EXCEPT !.op = "leave", !.at = "seat", !.e = e, !.s = s, !.who = p]
  <2>1. h \in Request
    BY IdleType DEF Request, AllOps, Idle
  <2>2. Sure(h)
    BY DEF Sure, Offering, Idle
  <2> QED BY <1>8, <2>1, <2>2, SoloRead DEF LeaveRead, Start
<1>9. ASSUME NEW s \in Seats, AcceptRead(r, s) PROVE SInv'
  <2> DEFINE h == [Idle EXCEPT !.op = "accept", !.at = "write", !.s = s]
  <2>1. h \in Request
    BY IdleType DEF Request, AllOps, Idle
  <2>2. Sure(h)
    BY DEF Sure, Offering, Idle
  <2> QED BY <1>9, <2>1, <2>2, SoloRead DEF AcceptRead, Start
<1> QED BY <1>1, <1>2, <1>3, <1>4, <1>5, <1>6, <1>7, <1>8, <1>9 DEF Arrive

---------------------------------------------------------------------------
(* The reads of a handler in flight *)

LEMMA SoloFind ==
    ASSUME Solo, SInv, IInv', NEW r \in Requests,
           \/ AttachFindChild(r) \/ AttachCount(r) \/ DetachFindChild(r)
           \/ RemoveFindSeat(r) \/ LeaveFindSeat(r)
    PROVE  SInv'
<1>1. IInv /\ Sure(req[r])
  BY DEF SInv
<1>2. ASSUME AttachFindChild(r) PROVE SInv'
  <2> DEFINE ok == LiveRoot(req[r].c) /\ req[r].c # req[r].e
  <2>1. ok \in BOOLEAN
    BY DEF LiveRoot, Live
  <2>2. ok => Then(r, "count") \in Request /\ Sure(Then(r, "count"))
    BY <1>1, <1>2, NextPhase DEF AttachFindChild, At, Sure, Offering
  <2> QED BY <1>2, <2>1, <2>2, SoloCheck DEF AttachFindChild
<1>3. ASSUME AttachCount(r) PROVE SInv'
  <2>1. (LiveChildren(req[r].c) = {}) \in BOOLEAN
    OBVIOUS
  <2>2. LiveChildren(req[r].c) = {} => Then(r, "write") \in Request /\ Sure(Then(r, "write"))
    BY <1>1, <1>3, NextPhase DEF AttachCount, At, Sure, Offering
  <2> QED BY <1>3, <2>1, <2>2, SoloCheck DEF AttachCount
<1>4. ASSUME NEW phase \in {"write", "second"}, req[r].op \in {"detach", "remove", "leave"},
             req[r].op = "detach" => phase = "write"
      PROVE  Then(r, phase) \in Request /\ Sure(Then(r, phase))
  BY <1>1, <1>4, NextPhase DEF Sure, Offering
<1>5. ASSUME DetachFindChild(r) PROVE SInv'
  <2>1. (req[r].c \in LiveChildren(req[r].e)) \in BOOLEAN
    OBVIOUS
  <2> QED BY <1>4, <1>5, <2>1, SoloCheck DEF DetachFindChild, At
<1>6. ASSUME RemoveFindSeat(r) PROVE SInv'
  <2>1. (Held(req[r].s) /\ seat[req[r].s].event = req[r].e) \in BOOLEAN
    BY DEF Held
  <2> QED BY <1>4, <1>6, <2>1, SoloCheck DEF RemoveFindSeat, At
<1>7. ASSUME LeaveFindSeat(r) PROVE SInv'
  <2> DEFINE phase == IF Held(req[r].s) /\ seat[req[r].s].event = req[r].e
                      THEN "write" ELSE "second"
  <2>1. phase \in {"write", "second"}
    OBVIOUS
  <2>2. req' = [req EXCEPT ![r] = Then(r, phase)]
    BY <1>7 DEF LeaveFindSeat, Goto, Then
  <2> HIDE DEF phase
  <2>3. Then(r, phase) \in Request /\ Sure(Then(r, phase))
    BY <1>4, <1>7, <2>1 DEF LeaveFindSeat, At
  <2> QED BY <1>7, <2>2, <2>3, SoloRead DEF LeaveFindSeat
<1> QED BY <1>2, <1>3, <1>5, <1>6, <1>7

LEMMA SoloDeleteListChildren ==
    ASSUME Solo, SInv, IInv', NEW r \in Requests, DeleteListChildren(r)
    PROVE  SInv'
<1> DEFINE h == [req[r] EXCEPT !.at = "write", !.give = LiveChildren(req[r].e)]
<1>1. /\ req[r] \in Request /\ Sure(req[r]) /\ LiveChildren(req[r].e) \in SUBSET Events
      /\ req[r].op = "delete"
  BY DEF SInv, IInv, TypeOK, LiveChildren, DeleteListChildren, At
<1>2. h \in Request /\ h.op = "delete" /\ h.e = req[r].e /\ h.give = LiveChildren(req[r].e)
  BY <1>1 DEF Request
<1>3. req' = [req EXCEPT ![r] = h]
  BY DEF DeleteListChildren
<1> HIDE DEF h
<1>4. Sure(h)
  BY <1>1, <1>2 DEF Sure, Offering
<1> QED BY <1>2, <1>3, <1>4, SoloRead DEF DeleteListChildren

LEMMA SoloInviteCheck ==
    ASSUME Solo, SInv, IInv', NEW r \in Requests, InviteCheckGrants(r) \/ InviteFindExisting(r)
    PROVE  SInv'
<1>1. IInv /\ Sure(req[r]) /\ req[r].op = "invite"
  BY DEF SInv, InviteCheckGrants, InviteFindExisting, At
<1>2. ASSUME NEW phase \in {"existing", "write"}, req[r].give \subseteq LiveChildren(req[r].e)
      PROVE  Then(r, phase) \in Request /\ Sure(Then(r, phase))
  BY <1>1, <1>2, NextPhase DEF Sure, Offering
<1>3. CASE InviteCheckGrants(r)
  <2>1. ChildGrants(r) \in BOOLEAN
    BY DEF ChildGrants
  <2> QED BY <1>2, <1>3, <2>1, SoloCheck DEF InviteCheckGrants, ChildGrants
<1>4. CASE InviteFindExisting(r)
  <2>1. req[r].give \subseteq LiveChildren(req[r].e)
    BY <1>1, <1>4 DEF InviteFindExisting, At, Sure, Offering
  <2>2. (~Invited(req[r].e, req[r].who)) \in BOOLEAN
    BY DEF Invited
  <2> QED BY <1>2, <1>4, <2>1, <2>2, SoloCheck DEF InviteFindExisting
<1> QED BY <1>3, <1>4

LEMMA SoloUpdateCheck ==
    ASSUME Solo, SInv, IInv', NEW r \in Requests, UpdateFindSeat(r) \/ UpdateCheckGrants(r)
    PROVE  SInv'
<1>1. IInv /\ Sure(req[r]) /\ req[r].op = "update"
  BY DEF SInv, UpdateFindSeat, UpdateCheckGrants, At
<1>2. ASSUME NEW phase \in {"grants", "write"},
             SiteAllowed(NextRole(req[r]), NextSurfaces(req[r])),
             phase = "write" /\ "childGrants" \in req[r].has => ChildGrants(r)
      PROVE  Then(r, phase) \in Request /\ Sure(Then(r, phase))
  <2>1. /\ NextRole(Then(r, phase)) = NextRole(req[r])
        /\ NextSurfaces(Then(r, phase)) = NextSurfaces(req[r])
    BY <1>1, NextPhase DEF NextRole, NextSurfaces
  <2> QED BY <1>1, <1>2, <2>1, NextPhase DEF Sure, Offering, ChildGrants
<1>3. CASE UpdateFindSeat(r)
  <2> DEFINE ok == /\ Held(req[r].s) /\ seat[req[r].s].event = req[r].e
                   /\ SiteAllowed(NextRole(req[r]), NextSurfaces(req[r]))
  <2>1. ok \in BOOLEAN /\ (ok => SiteAllowed(NextRole(req[r]), NextSurfaces(req[r])))
    BY DEF Held, SiteAllowed
  <2>2. Check(r, ok, "grants") /\ UNCHANGED <<rows, everChild>>
    BY <1>3 DEF UpdateFindSeat
  <2> HIDE DEF ok
  <2> QED BY <1>2, <2>1, <2>2, SoloCheck
<1>4. CASE UpdateCheckGrants(r)
  <2> DEFINE ok == "childGrants" \in req[r].has => ChildGrants(r)
  <2>1. ok \in BOOLEAN /\ SiteAllowed(NextRole(req[r]), NextSurfaces(req[r]))
    BY <1>1, <1>4 DEF UpdateCheckGrants, At, Sure
  <2>2. Check(r, ok, "write") /\ UNCHANGED <<rows, everChild>>
    BY <1>4 DEF UpdateCheckGrants
  <2>3. ok /\ "childGrants" \in req[r].has => ChildGrants(r)
    OBVIOUS
  <2> HIDE DEF ok
  <2> QED BY <1>2, <2>1, <2>2, <2>3, SoloCheck
<1> QED BY <1>3, <1>4

LEMMA SoloDetachRevoke ==
    ASSUME Solo, SInv, IInv', NEW r \in Requests, DetachRevoke(r)
    PROVE  SInv'
<1>1. /\ req' = [req EXCEPT ![r] = Then(r, "second")]
      /\ UNCHANGED <<parent, life, seat, everChild>>
      /\ grants' = {g \in grants : g[2] # req[r].c} /\ req[r].op = "detach"
  BY DEF DetachRevoke, Goto, Then, At
<1>2. \A q \in Requests : req'[q] = Then(r, "second")
  BY <1>1 DEF Solo, SInv, IInv, TypeOK
<1>3. Then(r, "second").op = "detach" /\ Then(r, "second").c = req[r].c
  BY <1>1, NextPhase DEF SInv
<1>4. \A q \in Requests : Sure(req[q])'
  BY <1>1, <1>2, <1>3 DEF Sure, Offering
<1>5. TreeIsFlat' /\ GrantsFollow' /\ UnbornIsBare' /\ SeatsOnEvents' /\ SiteNeedsEditor'
  BY <1>1 DEF SInv, TreeIsFlat, GrantsFollow, UnbornIsBare, SeatsOnEvents, SiteNeedsEditor,
              LiveRoot, Live, Held
<1> QED BY <1>4, <1>5 DEF SInv

---------------------------------------------------------------------------
(* The writes *)

LEMMA SoloAddCreate ==
    ASSUME Solo, SInv, IInv', NEW r \in Requests, NEW c \in Events, AddCreate(r, c)
    PROVE  SInv'
<1> DEFINE p == req[r].e
<1>1. /\ LiveRoot(p) /\ p \in Events /\ life[c] = "unborn" /\ parent[c] = NoEvent
      /\ Return(r) /\ UNCHANGED <<seat, grants>>
  BY DEF SInv, IInv, Sure, Knows, AddCreate, At, AllOps, UnbornIsBare
<1>2. p # c
  BY <1>1 DEF LiveRoot, Live
<1>3. \A e \in Events : /\ life'[e] = IF e = c THEN "live" ELSE life[e]
                        /\ parent'[e] = IF e = c THEN p ELSE parent[e]
  BY DEF SInv, IInv, TypeOK, AddCreate
<1>4. TreeIsFlat'
  <2> SUFFICES ASSUME NEW e \in Events, life'[e] = "live", parent'[e] # NoEvent
               PROVE  life'[parent'[e]] = "live" /\ parent'[parent'[e]] = NoEvent
    BY DEF TreeIsFlat, LiveRoot, Live
  <2>1. CASE e = c
    BY <1>1, <1>2, <1>3, <2>1 DEF LiveRoot, Live
  <2>2. CASE e # c
    <3>1. LiveRoot(parent[e]) /\ parent[e] \in Events /\ parent[e] # c
      BY <1>1, <1>3, <2>2 DEF SInv, IInv, TypeOK, TreeIsFlat, LiveRoot, Live
    <3> QED BY <1>3, <2>2, <3>1 DEF LiveRoot, Live
  <2> QED BY <2>1, <2>2
<1>5. GrantsFollow'
  <2>1. \A g \in grants : g[2] # c
    BY <1>1, CircleAssumption DEF SInv, IInv, TypeOK, GrantsFollow, GrantsAreRooted
  <2> QED BY <1>1, <1>3, <2>1 DEF SInv, IInv, TypeOK, GrantsFollow
<1>6. UnbornIsBare' /\ SeatsOnEvents' /\ SiteNeedsEditor'
  BY <1>1, <1>3 DEF SInv, UnbornIsBare, SeatsOnEvents, SiteNeedsEditor, Held
<1> QED BY <1>1, <1>4, <1>5, <1>6, SoloReturn

LEMMA SoloAttachWrite ==
    ASSUME Solo, SInv, IInv', NEW r \in Requests, AttachWrite(r)
    PROVE  SInv'
<1> DEFINE p == req[r].e
           c == req[r].c
<1>1. /\ LiveRoot(p) /\ LiveRoot(c) /\ c # p /\ LiveChildren(c) = {}
      /\ p \in Events /\ c \in Events /\ Return(r) /\ UNCHANGED <<life, seat, grants>>
  BY DEF SInv, IInv, Sure, Knows, AttachWrite, At, AllOps
<1>2. \A e \in Events : parent'[e] = IF e = c THEN p ELSE parent[e]
  BY DEF SInv, IInv, TypeOK, AttachWrite
<1>3. TreeIsFlat'
  <2> SUFFICES ASSUME NEW e \in Events, life[e] = "live", parent'[e] # NoEvent
               PROVE  life[parent'[e]] = "live" /\ parent'[parent'[e]] = NoEvent
    BY <1>1 DEF TreeIsFlat, LiveRoot, Live
  <2>1. CASE e = c
    BY <1>1, <1>2, <2>1 DEF LiveRoot, Live
  <2>2. CASE e # c
    <3>1. LiveRoot(parent[e]) /\ parent[e] \in Events
      BY <1>2, <2>2 DEF SInv, IInv, TypeOK, TreeIsFlat, LiveRoot, Live
    <3>2. parent[e] # c
      BY <1>1 DEF LiveChildren, Live
    <3> QED BY <1>2, <2>2, <3>1, <3>2 DEF LiveRoot, Live
  <2> QED BY <2>1, <2>2
<1>4. GrantsFollow'
  <2>1. parent[c] = NoEvent
    BY <1>1 DEF LiveRoot
  <2>2. ASSUME NEW g \in grants PROVE g[2] # c
    <3>1. seat[g[1]].event \in Events /\ parent[g[2]] = seat[g[1]].event
      BY DEF SInv, IInv, TypeOK, GrantsFollow, GrantsAreRooted, SeatsOnEvents
    <3> QED BY <2>1, <3>1, CircleAssumption
  <2> QED BY <1>1, <1>2, <2>2 DEF SInv, IInv, TypeOK, GrantsFollow
<1>5. UnbornIsBare' /\ SeatsOnEvents' /\ SiteNeedsEditor'
  BY <1>1, <1>2 DEF SInv, UnbornIsBare, SeatsOnEvents, SiteNeedsEditor, Held, LiveRoot, Live
<1> QED BY <1>1, <1>3, <1>4, <1>5, SoloReturn

LEMMA SoloDetachUnlink ==
    ASSUME Solo, SInv, IInv', NEW r \in Requests, DetachUnlink(r)
    PROVE  SInv'
<1> DEFINE c == req[r].c
<1>1. /\ \A g \in grants : g[2] # c
      /\ Return(r) /\ UNCHANGED <<life, seat, grants>>
  BY DEF SInv, Sure, DetachUnlink, At
<1>2. \A e \in Events : parent'[e] = IF e = c THEN NoEvent ELSE parent[e]
  BY DEF SInv, IInv, TypeOK, DetachUnlink
<1>3. TreeIsFlat'
  <2> SUFFICES ASSUME NEW e \in Events, life[e] = "live", parent'[e] # NoEvent
               PROVE  life[parent'[e]] = "live" /\ parent'[parent'[e]] = NoEvent
    BY <1>1 DEF TreeIsFlat, LiveRoot, Live
  <2>1. LiveRoot(parent[e]) /\ parent[e] \in Events /\ parent'[e] = parent[e]
    BY <1>2 DEF SInv, IInv, TypeOK, TreeIsFlat, LiveRoot, Live
  <2> QED BY <1>2, <2>1 DEF LiveRoot, Live
<1>4. GrantsFollow' /\ UnbornIsBare' /\ SeatsOnEvents' /\ SiteNeedsEditor'
  BY <1>1, <1>2 DEF SInv, IInv, TypeOK, GrantsFollow, UnbornIsBare, SeatsOnEvents,
                    SiteNeedsEditor, Held
<1> QED BY <1>1, <1>3, <1>4, SoloReturn

\* Every live child goes with its parent, and no other event is a parent.
LEMMA SoloDeleteWrite ==
    ASSUME Solo, SInv, IInv', NEW r \in Requests, DeleteWrite(r)
    PROVE  SInv'
<1> DEFINE p == req[r].e
<1>1. /\ req[r].give = LiveChildren(p) /\ p \in Events
      /\ Return(r) /\ UNCHANGED <<parent, seat, grants>>
  BY DEF SInv, IInv, Sure, Knows, DeleteWrite, At, AllOps
<1>2. \A e \in Events : life'[e] = IF e \in {p} \cup LiveChildren(p) /\ Live(e)
                                   THEN "deleted" ELSE life[e]
  BY <1>1 DEF DeleteWrite
<1>3. TreeIsFlat'
  <2> SUFFICES ASSUME NEW e \in Events, life'[e] = "live", parent[e] # NoEvent
               PROVE  life'[parent[e]] = "live" /\ parent[parent[e]] = NoEvent
    BY <1>1 DEF TreeIsFlat, LiveRoot, Live
  <2>1. Live(e) /\ e \notin LiveChildren(p)
    BY <1>2 DEF Live
  <2>2. LiveRoot(parent[e]) /\ parent[e] \in Events /\ parent[e] # p
    BY <2>1 DEF SInv, IInv, TypeOK, TreeIsFlat, LiveChildren
  <2>3. parent[e] \notin LiveChildren(p)
    BY <1>1, <2>2, CircleAssumption DEF LiveRoot, LiveChildren
  <2> QED BY <1>2, <2>2, <2>3 DEF LiveRoot, Live
<1>4. \A e \in Events : life'[e] = "unborn" <=> life[e] = "unborn"
  BY <1>2 DEF Live
<1>5. GrantsFollow' /\ UnbornIsBare' /\ SeatsOnEvents' /\ SiteNeedsEditor'
  BY <1>1, <1>4 DEF SInv, GrantsFollow, UnbornIsBare, SeatsOnEvents, SiteNeedsEditor, Held
<1> QED BY <1>1, <1>3, <1>5, SoloReturn

\* A write of seats and grants leaves the tree as it is.
LEMMA SoloSeatWrite ==
    ASSUME Solo, SInv, IInv', NEW r \in Requests, Return(r), UNCHANGED <<parent, life>>,
           GrantsFollow', SeatsOnEvents', SiteNeedsEditor'
    PROVE  SInv'
<1>1. TreeIsFlat' /\ UnbornIsBare'
  BY DEF SInv, TreeIsFlat, UnbornIsBare, LiveRoot, Live
<1> QED BY <1>1, SoloReturn

LEMMA SoloInviteCreate ==
    ASSUME Solo, SInv, IInv', NEW r \in Requests, NEW s \in Seats, InviteCreate(r, s)
    PROVE  SInv'
<1> DEFINE h == req[r]
<1>1. /\ h.give \subseteq LiveChildren(h.e) /\ SiteAllowed(h.role, h.surfaces)
      /\ life[h.e] # "unborn" /\ h.e \in Events /\ seat[s].state = "none"
      /\ Return(r) /\ UNCHANGED <<parent, life>>
  BY DEF SInv, IInv, Sure, Knows, Offering, InviteCreate, At, AllOps
<1>2. CASE Invited(h.e, h.who)
  <2>1. UNCHANGED <<seat, grants>>
    BY <1>2 DEF InviteCreate
  <2> QED BY <1>1, <2>1, SoloSeatWrite DEF SInv, GrantsFollow, SeatsOnEvents, SiteNeedsEditor, Held
<1>3. CASE ~Invited(h.e, h.who)
  <2>1. /\ \A t \in Seats : seat'[t] = IF t = s THEN NewSeat(h) ELSE seat[t]
        /\ grants' = grants \cup ({s} \X h.give)
    BY <1>3 DEF SInv, IInv, TypeOK, InviteCreate
  <2>2. /\ NewSeat(h).event = h.e /\ NewSeat(h).role = h.role
        /\ NewSeat(h).surfaces = h.surfaces
    BY DEF NewSeat
  <2>3. GrantsFollow'
    <3> SUFFICES ASSUME NEW g \in grants' PROVE parent[g[2]] = seat'[g[1]].event
      BY <1>1 DEF GrantsFollow
    <3>1. CASE g \in grants
      <4>1. g[1] \in Seats /\ g[1] # s
        BY <1>1, <3>1 DEF SInv, IInv, TypeOK, GrantsAreRooted, Held
      <4> QED BY <2>1, <3>1, <4>1 DEF SInv, GrantsFollow
    <3>2. CASE g \in {s} \X h.give
      BY <1>1, <2>1, <2>2, <3>2 DEF LiveChildren
    <3> QED BY <2>1, <3>1, <3>2
  <2>4. SeatsOnEvents' /\ SiteNeedsEditor'
    BY <1>1, <2>1, <2>2 DEF SInv, SeatsOnEvents, SiteNeedsEditor, SiteAllowed, Held
  <2> QED BY <1>1, <2>3, <2>4, SoloSeatWrite
<1> QED BY <1>2, <1>3

LEMMA SoloUpdateWrite ==
    ASSUME Solo, SInv, IInv', NEW r \in Requests, UpdateWrite(r)
    PROVE  SInv'
<1> DEFINE h == req[r]
           s == req[r].s
<1>1. /\ "childGrants" \in h.has => h.give \subseteq LiveChildren(h.e)
      /\ SiteAllowed(NextRole(h), NextSurfaces(h)) /\ SeatOn(s, h.e) /\ s \in Seats
      /\ Return(r) /\ UNCHANGED <<parent, life>>
  BY DEF SInv, IInv, Sure, Knows, Offering, UpdateWrite, At
<1>2. CASE ~Held(s)
  <2>1. UNCHANGED <<seat, grants>>
    BY <1>2 DEF UpdateWrite
  <2> QED BY <1>1, <2>1, SoloSeatWrite DEF SInv, GrantsFollow, SeatsOnEvents, SiteNeedsEditor, Held
<1>3. CASE Held(s)
  <2> DEFINE row == [seat[s] EXCEPT !.role = NextRole(h), !.surfaces = NextSurfaces(h)]
  <2>1. seat[s] \in Seat /\ seat[s].event = h.e
    BY <1>1, <1>3 DEF SInv, IInv, TypeOK, SeatOn
  <2>2. /\ row.event = h.e /\ row.role = NextRole(h) /\ row.surfaces = NextSurfaces(h)
    BY <2>1 DEF Seat
  <2>3. seat' = [seat EXCEPT ![s] = row]
    BY <1>3 DEF UpdateWrite
  <2> HIDE DEF row
  <2>4. \A t \in Seats : seat'[t] = IF t = s THEN row ELSE seat[t]
    BY <2>3 DEF SInv, IInv, TypeOK
  <2>5. \A g \in grants' : \/ g \in grants
                           \/ "childGrants" \in h.has /\ g \in {s} \X h.give
    BY <1>3 DEF UpdateWrite
  <2>6. GrantsFollow'
    <3> SUFFICES ASSUME NEW g \in grants' PROVE parent[g[2]] = seat'[g[1]].event
      BY <1>1 DEF GrantsFollow
    <3>1. CASE g \in grants
      <4>1. g[1] \in Seats /\ parent[g[2]] = seat[g[1]].event
        BY <3>1 DEF SInv, IInv, TypeOK, GrantsFollow
      <4> QED BY <2>1, <2>2, <2>4, <4>1
    <3>2. CASE "childGrants" \in h.has /\ g \in {s} \X h.give
      BY <1>1, <2>2, <2>4, <3>2 DEF LiveChildren
    <3> QED BY <2>5, <3>1, <3>2
  <2>7. \A t \in Seats : seat'[t].state = "held" => seat[t].state = "held"
    BY <1>3, <2>4 DEF Held
  <2>8. SeatsOnEvents' /\ SiteNeedsEditor'
    BY <1>1, <2>1, <2>2, <2>4, <2>7 DEF SInv, SeatsOnEvents, SiteNeedsEditor, SiteAllowed, Held
  <2> QED BY <1>1, <2>6, <2>8, SoloSeatWrite
<1> QED BY <1>2, <1>3

LEMMA SoloSeatWrites ==
    ASSUME Solo, SInv, IInv', NEW r \in Requests,
           DeleteSeat(r) \/ LeaveGrant(r) \/ AcceptWrite(r)
    PROVE  SInv'
<1> DEFINE s == req[r].s
<1>1. Return(r) /\ UNCHANGED <<parent, life>>
  BY DEF DeleteSeat, LeaveGrant, AcceptWrite
<1>2. CASE DeleteSeat(r)
  <2>1. \/ UNCHANGED <<seat, grants>>
        \/ /\ \A t \in Seats : t # s => seat'[t] = seat[t]
           /\ s \in Seats => seat'[s].state = "gone"
           /\ grants' = {g \in grants : g[1] # s}
    BY <1>2 DEF SInv, IInv, TypeOK, DeleteSeat, Gone, Unborn
  <2>2. grants' \subseteq grants /\ \A g \in grants' : seat'[g[1]] = seat[g[1]]
    BY <2>1 DEF SInv, IInv, TypeOK
  <2>3. \A t \in Seats : seat'[t].state = "held" => seat'[t] = seat[t]
    BY <2>1
  <2>4. GrantsFollow' /\ SeatsOnEvents' /\ SiteNeedsEditor'
    BY <1>1, <2>2, <2>3 DEF SInv, GrantsFollow, SeatsOnEvents, SiteNeedsEditor, Held
  <2> QED BY <1>1, <2>4, SoloSeatWrite
<1>3. CASE LeaveGrant(r)
  <2>1. seat' = seat /\ grants' \subseteq grants
    BY <1>3 DEF LeaveGrant
  <2> QED BY <1>1, <2>1, SoloSeatWrite DEF SInv, GrantsFollow, SeatsOnEvents, SiteNeedsEditor, Held
<1>4. CASE AcceptWrite(r)
  <2>1. grants' = grants /\ s \in Seats
    BY <1>4 DEF SInv, IInv, Knows, AcceptWrite, At
  <2>2. \A t \in Seats : /\ seat'[t].event = seat[t].event /\ seat'[t].state = seat[t].state
                        /\ seat'[t].role = seat[t].role /\ seat'[t].surfaces = seat[t].surfaces
    BY <1>4 DEF SInv, IInv, TypeOK, AcceptWrite, Seat
  <2>3. GrantsFollow' /\ SeatsOnEvents' /\ SiteNeedsEditor'
    BY <1>1, <2>1, <2>2 DEF SInv, IInv, TypeOK, GrantsFollow, SeatsOnEvents, SiteNeedsEditor, Held
  <2> QED BY <1>1, <2>3, SoloSeatWrite
<1> QED BY <1>2, <1>3, <1>4

\* The one step another client may take while a handler is in flight: a new event has no
\* parent, no sub-events and no seats.
LEMMA SoloCreateEvent ==
    ASSUME SInv, IInv', NEW e \in Events, CreateEvent(e)
    PROVE  SInv'
<1>1. /\ life[e] = "unborn" /\ parent[e] = NoEvent
      /\ UNCHANGED <<parent, seat, grants, req>>
      /\ \A c \in Events : life'[c] = IF c = e THEN "live" ELSE life[c]
  BY DEF SInv, IInv, TypeOK, UnbornIsBare, CreateEvent
<1>2. \A c \in Events : LiveRoot(c) => LiveRoot(c)'
  BY <1>1 DEF LiveRoot, Live
<1>3. \A c \in Events : LiveChildren(c)' = LiveChildren(c)
  BY <1>1, CircleAssumption DEF LiveChildren, Live
<1>4. TreeIsFlat'
  <2> SUFFICES ASSUME NEW c \in Events, life'[c] = "live", parent[c] # NoEvent
               PROVE  life'[parent[c]] = "live" /\ parent[parent[c]] = NoEvent
    BY <1>1 DEF TreeIsFlat, LiveRoot, Live
  <2>1. LiveRoot(parent[c]) /\ parent[c] \in Events
    BY <1>1 DEF SInv, IInv, TypeOK, TreeIsFlat, Live
  <2> QED BY <1>1, <2>1 DEF LiveRoot, Live
<1>5. GrantsFollow' /\ UnbornIsBare' /\ SeatsOnEvents' /\ SiteNeedsEditor'
  BY <1>1 DEF SInv, GrantsFollow, UnbornIsBare, SeatsOnEvents, SiteNeedsEditor, Held
<1>6. ASSUME NEW r \in Requests PROVE Sure(req[r])'
  <2>1. Sure(req[r]) /\ Knows(req[r]) /\ req'[r] = req[r]
    BY <1>1 DEF SInv, IInv
  <2>2. \A c \in Events : life[c] # "unborn" => life'[c] # "unborn"
    BY <1>1
  <2>3. /\ NextRole(req[r])' = NextRole(req[r])
        /\ NextSurfaces(req[r])' = NextSurfaces(req[r])
    BY <1>1 DEF NextRole, NextSurfaces
  <2> QED BY <1>1, <1>2, <1>3, <2>1, <2>2, <2>3 DEF Sure, Knows, Offering, AllOps
<1> QED BY <1>4, <1>5, <1>6 DEF SInv

---------------------------------------------------------------------------
(* The invariant *)

LEMMA SoloInit == Init => SInv
<1> SUFFICES ASSUME Init PROVE SInv
  OBVIOUS
<1>1. IInv
  BY InitEstablishes
<1>2. TreeIsFlat /\ GrantsFollow /\ UnbornIsBare /\ SeatsOnEvents /\ SiteNeedsEditor
  BY DEF Init, Unborn, TreeIsFlat, GrantsFollow, UnbornIsBare, SeatsOnEvents, SiteNeedsEditor,
         Live, Held
<1>3. \A r \in Requests : Sure(req[r])
  BY IdleSure DEF Init
<1> QED BY <1>1, <1>2, <1>3 DEF SInv

LEMMA SoloNext == Solo /\ SInv /\ [Next]_vars => SInv'
<1> SUFFICES ASSUME Solo, SInv, [Next]_vars PROVE SInv'
  OBVIOUS
<1>1. IInv'
  BY NextKeeps DEF SInv
<1>2. CASE UNCHANGED vars
  <2>1. UNCHANGED <<parent, life, seat, grants, req, everChild>>
    BY <1>2 DEF vars, rows
  <2>2. TreeIsFlat' /\ GrantsFollow' /\ UnbornIsBare' /\ SeatsOnEvents' /\ SiteNeedsEditor'
    BY <2>1 DEF SInv, TreeIsFlat, GrantsFollow, UnbornIsBare, SeatsOnEvents, SiteNeedsEditor,
                LiveRoot, Live, Held
  <2>3. \A r \in Requests : Sure(req[r])'
    BY <2>1 DEF SInv, Sure, Offering, LiveRoot, LiveChildren, Live, NextRole, NextSurfaces
  <2> QED BY <1>1, <2>2, <2>3 DEF SInv
<1>3. ASSUME NEW r \in Requests, Arrive(r) PROVE SInv'
  BY <1>1, <1>3, SoloArrive
<1>4. ASSUME NEW r \in Requests, Step(r) PROVE SInv'
  BY <1>1, <1>4, SoloFind, SoloDeleteListChildren, SoloInviteCheck, SoloUpdateCheck,
     SoloDetachRevoke, SoloAddCreate, SoloAttachWrite, SoloDetachUnlink, SoloDeleteWrite,
     SoloInviteCreate, SoloUpdateWrite, SoloSeatWrites DEF Step
<1>5. ASSUME NEW r \in Requests, Die(r) PROVE SInv'
  BY <1>1, <1>5, IdleType, IdleSure, SoloRead DEF Die, Return
<1>6. ASSUME NEW e \in Events, CreateEvent(e) PROVE SInv'
  BY <1>1, <1>6, SoloCreateEvent
<1> QED BY <1>2, <1>3, <1>4, <1>5, <1>6 DEF Next

\* The inductive invariant of the event handlers run one after another.
THEOREM SoloInvariant == ASSUME Solo PROVE Spec => []SInv
<1>1. SInv /\ [Next]_vars => SInv'
  BY SoloNext
<1> QED BY <1>1, SoloInit, PTL DEF Spec

\* With handlers one after another, attachChild's and addChild's checks keep the tree
\* two levels deep, and softDelete leaves no live sub-event under a deleted parent.
THEOREM TreeStaysFlat == ASSUME Solo PROVE Spec => []TreeIsFlat
<1>1. SInv => TreeIsFlat
  BY DEF SInv
<1> QED BY <1>1, SoloInvariant, PTL

\* With handlers one after another, the role and surfaces an update leaves behind pass
\* assertSiteGrant whichever of the two the request carries: only editors hold SITE.
THEOREM OnlyEditorsHoldSite == ASSUME Solo PROVE Spec => []SiteNeedsEditor
<1>1. SInv => SiteNeedsEditor
  BY DEF SInv
<1> QED BY <1>1, SoloInvariant, PTL

\* With handlers one after another, every event a list shows a person passes load().
THEOREM WhatIsListedOpens == ASSUME Solo PROVE Spec => []ListedOpens
<1>1. ASSUME SInv PROVE ListedOpens
  <2> SUFFICES ASSUME NEW p \in People, NEW e \in Events, Listed(p, e)
               PROVE  CanOpen(p, e)
    BY DEF ListedOpens
  <2>1. PICK s \in Seats :
          /\ Held(s) /\ seat[s].person = p /\ seat[s].accepted /\ Live(seat[s].event)
          /\ seat[s].event = e \/ <<s, e>> \in grants
    BY DEF Listed
  <2>2. Live(e)
    BY DEF Listed
  <2>3. s \in SeatsOf(p, seat[s].event)
    BY <2>1 DEF SeatsOf
  <2>4. CASE seat[s].event = e
    BY <2>2, <2>3, <2>4 DEF CanOpen, Ways
  <2>5. CASE <<s, e>> \in grants
    <3>1. parent[e] = seat[s].event /\ parent[e] # NoEvent
      BY <1>1, <2>1, <2>5, CircleAssumption DEF SInv, GrantsFollow, SeatsOnEvents
    <3> QED BY <2>1, <2>2, <2>3, <2>5, <3>1 DEF CanOpen, Ways
  <2> QED BY <2>1, <2>4, <2>5
<1> QED BY <1>1, SoloInvariant, PTL

---------------------------------------------------------------------------
(* Who comes to see an event *)

\* The statements that write seats.
LEMMA SeatSteps ==
    ASSUME [Next]_vars
    PROVE  \/ seat' = seat
           \/ \E r \in Requests : \/ \E t \in Seats : InviteCreate(r, t)
                                  \/ DeleteSeat(r) \/ UpdateWrite(r) \/ AcceptWrite(r)
<1>1. CASE UNCHANGED vars
  BY <1>1 DEF vars, rows
<1>2. CASE \E e \in Events : CreateEvent(e)
  BY <1>2 DEF CreateEvent
<1>3. ASSUME NEW r \in Requests, Arrive(r) \/ Die(r) PROVE seat' = seat
  BY <1>3 DEF Arrive, Die, rows, AddRead, AttachRead, DetachRead, DeleteRead, InviteRead,
              UpdateRead, RemoveRead, LeaveRead, AcceptRead
<1>4. ASSUME NEW r \in Requests, Step(r)
      PROVE  \/ seat' = seat
             \/ \E t \in Seats : InviteCreate(r, t)
             \/ DeleteSeat(r) \/ UpdateWrite(r) \/ AcceptWrite(r)
  BY <1>4 DEF Step, rows, AddCreate, AttachFindChild, AttachCount, AttachWrite,
              DetachFindChild, DetachRevoke, DetachUnlink, DeleteListChildren, DeleteWrite,
              InviteCheckGrants, InviteFindExisting, UpdateFindSeat, UpdateCheckGrants,
              RemoveFindSeat, LeaveFindSeat, LeaveGrant
<1> QED BY <1>1, <1>2, <1>3, <1>4 DEF Next

\* An accepted seat was the same person's seat on the same event before: rows are created
\* unaccepted, and a deleted row's id is not used again.
LEMMA SeatMoves ==
    ASSUME IInv, [Next]_vars, NEW s \in Seats, Held(s)', seat'[s].accepted
    PROVE  /\ Held(s)
           /\ seat'[s].event = seat[s].event /\ seat'[s].person = seat[s].person
<1>1. CASE seat' = seat
  BY <1>1 DEF Held
<1>2. ASSUME NEW r \in Requests, NEW t \in Seats, InviteCreate(r, t), seat' # seat
      PROVE  seat'[s] = seat[s]
  <2>1. seat' = [seat EXCEPT ![t] = NewSeat(req[r])]
    BY <1>2 DEF InviteCreate
  <2>2. t # s
    BY <2>1 DEF IInv, TypeOK, NewSeat
  <2> QED BY <2>1, <2>2 DEF IInv, TypeOK
<1>3. ASSUME NEW r \in Requests, DeleteSeat(r), seat' # seat
      PROVE  seat'[s] = seat[s]
  <2>1. seat' = [seat EXCEPT ![req[r].s] = Gone]
    BY <1>3 DEF DeleteSeat
  <2>2. req[r].s # s
    BY <2>1 DEF IInv, TypeOK, Gone, Unborn
  <2> QED BY <2>1, <2>2 DEF IInv, TypeOK
<1>4. ASSUME NEW r \in Requests, UpdateWrite(r) \/ AcceptWrite(r)
      PROVE  /\ seat'[s].state = seat[s].state
             /\ seat'[s].event = seat[s].event /\ seat'[s].person = seat[s].person
  BY <1>4 DEF IInv, TypeOK, Seat, UpdateWrite, AcceptWrite
<1> QED BY <1>1, <1>2, <1>3, <1>4, SeatSteps DEF Held

\* A deleted event is not restored.
LEMMA LifeMoves ==
    ASSUME IInv, [Next]_vars, NEW e \in Events, life'[e] = "live"
    PROVE  life[e] \in {"live", "unborn"}
<1>1. ASSUME NEW c \in Events, life[c] = "unborn", life' = [life EXCEPT ![c] = "live"]
      PROVE  life[e] \in {"live", "unborn"}
  BY <1>1 DEF IInv, TypeOK
<1>2. ASSUME NEW r \in Requests, DeleteWrite(r) PROVE life[e] \in {"live", "unborn"}
  BY <1>2 DEF DeleteWrite
<1>3. \/ life' = life
      \/ \E c \in Events : life[c] = "unborn" /\ life' = [life EXCEPT ![c] = "live"]
      \/ \E r \in Requests : DeleteWrite(r)
  <2>1. CASE UNCHANGED vars
    BY <2>1 DEF vars, rows
  <2>2. ASSUME NEW c \in Events, CreateEvent(c)
        PROVE  life[c] = "unborn" /\ life' = [life EXCEPT ![c] = "live"]
    BY <2>2 DEF CreateEvent
  <2>3. ASSUME NEW r \in Requests, Arrive(r) \/ Die(r) PROVE life' = life
    BY <2>3 DEF Arrive, Die, rows, AddRead, AttachRead, DetachRead, DeleteRead, InviteRead,
                UpdateRead, RemoveRead, LeaveRead, AcceptRead
  <2>4. ASSUME NEW r \in Requests, NEW c \in Events, AddCreate(r, c)
        PROVE  life[c] = "unborn" /\ life' = [life EXCEPT ![c] = "live"]
    BY <2>4 DEF AddCreate
  <2>5. ASSUME NEW r \in Requests, Step(r)
        PROVE  life' = life \/ (\E c \in Events : AddCreate(r, c)) \/ DeleteWrite(r)
    BY <2>5 DEF Step, rows, AttachFindChild, AttachCount, AttachWrite, DetachFindChild,
                DetachRevoke, DetachUnlink, DeleteListChildren, InviteCheckGrants,
                InviteFindExisting, InviteCreate, UpdateFindSeat, UpdateCheckGrants, UpdateWrite,
                RemoveFindSeat, LeaveFindSeat, DeleteSeat, LeaveGrant, AcceptWrite
  <2> QED BY <2>1, <2>2, <2>3, <2>4, <2>5 DEF Next
<1> QED BY <1>1, <1>2, <1>3 DEF IInv, TypeOK

\* With handlers one after another, attaching, detaching, creating and deleting events,
\* removing seats and changing roles open no event to anyone: only accepting a seat and
\* granting a sub-event do, and a detached sub-event comes back without its old viewers.
THEOREM OnlyGrantsLetIn == ASSUME Solo PROVE Spec => OnlyGrantsOpen
<1>1. ASSUME SInv, SInv', [Next]_vars,
             NEW p \in People, NEW e \in Events, ~CanOpen(p, e), CanOpen(p, e)',
             \A t \in Seats : (seat'[t].accepted => seat[t].accepted)
                              /\ <<t, e>> \notin grants' \ grants
      PROVE  FALSE
  <2>1. PICK s \in Seats :
          /\ Held(s)' /\ seat'[s].accepted /\ seat'[s].person = p
          /\ \/ seat'[s].event = e
             \/ seat'[s].event = parent'[e] /\ life'[parent'[e]] = "live" /\ <<s, e>> \in grants'
    BY <1>1 DEF CanOpen, Ways, SeatsOf, Live
  <2>2. life'[e] = "live"
    BY <1>1 DEF CanOpen, Ways, Live
  <2>3. /\ Held(s) /\ seat[s].accepted /\ seat[s].person = p
        /\ seat'[s].event = seat[s].event
    BY <1>1, <2>1, SeatMoves DEF SInv
  <2>4. s \in SeatsOf(p, seat[s].event)
    BY <2>3 DEF SeatsOf
  <2>5. seat[s].event \in Events /\ life[seat[s].event] # "unborn"
    BY <1>1, <2>3 DEF SInv, SeatsOnEvents
  <2>6. CASE seat'[s].event = e
    <3>1. Live(e)
      BY <1>1, <2>2, <2>3, <2>5, <2>6, LifeMoves DEF SInv, Live
    <3> QED BY <1>1, <2>3, <2>4, <2>6, <3>1 DEF CanOpen, Ways
  <2>7. CASE seat'[s].event = parent'[e] /\ life'[parent'[e]] = "live" /\ <<s, e>> \in grants'
    <3>1. <<s, e>> \in grants
      BY <1>1, <2>7
    <3>2. parent[e] = seat[s].event
      BY <1>1, <3>1 DEF SInv, GrantsFollow
    <3>3. parent[e] # NoEvent /\ life[e] # "unborn"
      BY <1>1, <2>5, <3>2, CircleAssumption DEF SInv, UnbornIsBare
    <3>4. Live(e) /\ Live(parent[e])
      BY <1>1, <2>2, <2>3, <2>5, <2>7, <3>2, <3>3, LifeMoves DEF SInv, Live
    <3> QED BY <1>1, <2>4, <3>1, <3>2, <3>3, <3>4 DEF CanOpen, Ways
  <2> QED BY <2>1, <2>6, <2>7
<1>2. SInv /\ SInv' /\ [Next]_vars =>
        [\A p \in People, e \in Events :
           ~CanOpen(p, e) /\ CanOpen(p, e)' =>
              \E s \in Seats : \/ seat'[s].accepted /\ ~seat[s].accepted
                               \/ <<s, e>> \in grants' \ grants]_vars
  BY <1>1
<1> QED BY <1>2, SoloInvariant, PTL DEF Spec, OnlyGrantsOpen


---------------------------------------------------------------------------
(* The abstract specification *)

\* A person has one seat on an event at most.
Single ==
    /\ \A s \in Seats : Held(s) => seat[s].person \in People
    /\ \A s, t \in Seats :
          Held(s) /\ Held(t) /\ seat[s].event = seat[t].event
          /\ seat[s].person = seat[t].person => s = t

\* The event and the seat a handler has found are still there.
Firm(h) ==
    /\ h.op \in {"invite", "update", "remove", "leave"} => Live(h.e)
    /\ h.op = "update" /\ h.at \in {"grants", "write"} => Held(h.s)
    /\ h.op \in {"remove", "leave"} /\ h.at = "write" =>
          Held(h.s) /\ seat[h.s].event = h.e
    /\ h.op = "accept" => Held(h.s) /\ Live(seat[h.s].event)

CInv == SInv /\ Single /\ \A r \in Requests : Firm(req[r])

LEMMA SingleKept ==
    ASSUME IInv, Single, [Next]_vars
    PROVE  Single'
<1>1. CASE seat' = seat
  BY <1>1 DEF Single, Held
<1>2. ASSUME NEW r \in Requests, NEW t \in Seats, InviteCreate(r, t), seat' # seat
      PROVE  Single'
  <2>1. /\ seat' = [seat EXCEPT ![t] = NewSeat(req[r])]
        /\ ~Invited(req[r].e, req[r].who) /\ req[r].who \in People
    BY <1>2 DEF IInv, Knows, InviteCreate, At
  <2>2. \A s \in Seats : seat'[s] = IF s = t THEN NewSeat(req[r]) ELSE seat[s]
    BY <2>1 DEF IInv, TypeOK
  <2>3. NewSeat(req[r]).event = req[r].e /\ NewSeat(req[r]).person = req[r].who
    BY DEF NewSeat
  <2>4. ASSUME NEW s \in Seats, s # t, seat[s].state = "held", seat[s].event = req[r].e
        PROVE  seat[s].person # req[r].who
    BY <2>1, <2>4 DEF Invited, Held
  <2> QED BY <2>1, <2>2, <2>3, <2>4 DEF Single, Held
<1>3. ASSUME NEW r \in Requests, DeleteSeat(r), seat' # seat
      PROVE  Single'
  <2>1. seat' = [seat EXCEPT ![req[r].s] = Gone] /\ Gone.state = "gone"
    BY <1>3 DEF DeleteSeat, Gone, Unborn
  <2>2. \A s \in Seats : Held(s)' => seat'[s] = seat[s] /\ Held(s)
    BY <2>1 DEF IInv, TypeOK, Held
  <2> QED BY <2>2 DEF Single, Held
<1>4. ASSUME NEW r \in Requests, UpdateWrite(r) \/ AcceptWrite(r)
      PROVE  Single'
  <2>1. \A s \in Seats :
          /\ seat'[s].state = seat[s].state
          /\ seat'[s].event = seat[s].event /\ seat'[s].person = seat[s].person
    BY <1>4 DEF IInv, TypeOK, Seat, UpdateWrite, AcceptWrite
  <2> QED BY <2>1 DEF Single, Held
<1> QED BY <1>1, <1>2, <1>3, <1>4, SeatSteps

LEMMA IdleFirm == Firm(Idle)
BY DEF Firm, Idle

\* A step that only reads.
LEMMA FirmRead ==
    ASSUME Solo, IInv, NEW r \in Requests, NEW h, Firm(h),
           req' = [req EXCEPT ![r] = h], UNCHANGED <<rows, everChild>>
    PROVE  \A q \in Requests : Firm(req[q])'
<1>1. UNCHANGED <<parent, life, seat, grants, everChild>>
  BY DEF rows
<1>2. \A q \in Requests : req'[q] = h
  BY DEF Solo, IInv, TypeOK
<1> QED BY <1>1, <1>2 DEF Firm, Live, Held

LEMMA FirmReturn ==
    ASSUME Solo, IInv, NEW r \in Requests, Return(r)
    PROVE  \A q \in Requests : Firm(req[q])'
<1>1. \A q \in Requests : req'[q] = Idle
  BY DEF Solo, IInv, TypeOK, Return
<1> QED BY <1>1 DEF Firm, Idle

LEMMA FirmCheck ==
    ASSUME Solo, IInv, NEW r \in Requests, NEW condition \in BOOLEAN, NEW phase,
           Check(r, condition, phase), UNCHANGED <<rows, everChild>>,
           condition => Firm(Then(r, phase))
    PROVE  \A q \in Requests : Firm(req[q])'
<1>1. CASE condition
  <2>1. req' = [req EXCEPT ![r] = Then(r, phase)]
    BY <1>1 DEF Check, Goto, Then
  <2> QED BY <1>1, <2>1, FirmRead
<1>2. CASE ~condition
  BY <1>2, FirmReturn DEF Check
<1> QED BY <1>1, <1>2

LEMMA FirmArrive ==
    ASSUME Solo, IInv, NEW r \in Requests, Arrive(r)
    PROVE  \A q \in Requests : Firm(req[q])'
<1>1. ASSUME NEW p \in Events, AddRead(r, p) PROVE \A q \in Requests : Firm(req[q])'
  <2> DEFINE h == [Idle EXCEPT !.op = "add", !.at = "write", !.e = p]
  <2>1. Firm(h)
    BY DEF Firm, Idle
  <2> QED BY <1>1, <2>1, FirmRead DEF AddRead, Start
<1>2. ASSUME NEW p \in Events, NEW c \in Events, AttachRead(r, p, c)
      PROVE  \A q \in Requests : Firm(req[q])'
  <2> DEFINE h == [Idle EXCEPT !.op = "attach", !.at = "child", !.e = p, !.c = c]
  <2>1. Firm(h)
    BY DEF Firm, Idle
  <2> QED BY <1>2, <2>1, FirmRead DEF AttachRead, Start
<1>3. ASSUME NEW p \in Events, NEW c \in Events, DetachRead(r, p, c)
      PROVE  \A q \in Requests : Firm(req[q])'
  <2> DEFINE h == [Idle EXCEPT !.op = "detach", !.at = "child", !.e = p, !.c = c]
  <2>1. Firm(h)
    BY DEF Firm, Idle
  <2> QED BY <1>3, <2>1, FirmRead DEF DetachRead, Start
<1>4. ASSUME NEW e \in Events, DeleteRead(r, e) PROVE \A q \in Requests : Firm(req[q])'
  <2> DEFINE h == [Idle EXCEPT !.op = "delete", !.e = e,
                               !.at = IF parent[e] = NoEvent THEN "children" ELSE "write"]
  <2>1. Firm(h)
    BY DEF Firm, Idle
  <2> QED BY <1>4, <2>1, FirmRead DEF DeleteRead, Start
<1>5. ASSUME NEW e \in Events, NEW who \in People, NEW terms \in Terms,
             NEW give \in SUBSET Events, InviteRead(r, e, who, terms, give)
      PROVE  \A q \in Requests : Firm(req[q])'
  <2> DEFINE h == [Idle EXCEPT !.op = "invite", !.at = "grants", !.e = e, !.who = who,
                               !.role = terms.role, !.surfaces = terms.surfaces, !.give = give]
  <2>1. Firm(h)
    BY <1>5 DEF Firm, Idle, InviteRead
  <2> QED BY <1>5, <2>1, FirmRead DEF InviteRead, Start
<1>6. ASSUME NEW e \in Events, NEW s \in Seats, NEW has \in Updates, NEW terms \in Terms,
             NEW give \in SUBSET Events, UpdateRead(r, e, s, has, terms, give)
      PROVE  \A q \in Requests : Firm(req[q])'
  <2> DEFINE role == IF "role" \in has THEN terms.role ELSE Idle.role
             surfaces == IF "surfaces" \in has THEN terms.surfaces ELSE Idle.surfaces
             h == [Idle EXCEPT !.op = "update", !.at = "seat", !.e = e, !.s = s, !.has = has,
                               !.role = role, !.surfaces = surfaces, !.give = give]
  <2>1. req' = [req EXCEPT ![r] = h] /\ UNCHANGED <<rows, everChild>>
    BY <1>6 DEF UpdateRead, Start
  <2> HIDE DEF role, surfaces
  <2>2. Firm(h)
    BY <1>6 DEF Firm, Idle, UpdateRead
  <2> QED BY <2>1, <2>2, FirmRead
<1>7. ASSUME NEW e \in Events, NEW s \in Seats, RemoveRead(r, e, s)
      PROVE  \A q \in Requests : Firm(req[q])'
  <2> DEFINE h == [Idle EXCEPT !.op = "remove", !.at = "seat", !.e = e, !.s = s]
  <2>1. Firm(h)
    BY <1>7 DEF Firm, Idle, RemoveRead
  <2> QED BY <1>7, <2>1, FirmRead DEF RemoveRead, Start
<1>8. ASSUME NEW e \in Events, NEW p \in People, NEW s \in Seats, LeaveRead(r, e, p, s)
      PROVE  \A q \in Requests : Firm(req[q])'
  <2> DEFINE h == [Idle EXCEPT !.op = "leave", !.at = "seat", !.e = e, !.s = s, !.who = p]
  <2>1. Firm(h)
    BY <1>8 DEF Firm, Idle, LeaveRead, Ways
  <2> QED BY <1>8, <2>1, FirmRead DEF LeaveRead, Start
<1>9. ASSUME NEW s \in Seats, AcceptRead(r, s) PROVE \A q \in Requests : Firm(req[q])'
  <2> DEFINE h == [Idle EXCEPT !.op = "accept", !.at = "write", !.s = s]
  <2>1. Firm(h)
    BY <1>9 DEF Firm, Idle, AcceptRead
  <2> QED BY <1>9, <2>1, FirmRead DEF AcceptRead, Start
<1> QED BY <1>1, <1>2, <1>3, <1>4, <1>5, <1>6, <1>7, <1>8, <1>9 DEF Arrive

LEMMA FirmFind ==
    ASSUME Solo, IInv, NEW r \in Requests, Firm(req[r]),
           \/ AttachFindChild(r) \/ AttachCount(r) \/ DetachFindChild(r)
           \/ DeleteListChildren(r) \/ InviteCheckGrants(r) \/ InviteFindExisting(r)
           \/ UpdateFindSeat(r) \/ UpdateCheckGrants(r)
           \/ RemoveFindSeat(r) \/ LeaveFindSeat(r)
    PROVE  \A q \in Requests : Firm(req[q])'
<1>1. ASSUME NEW phase \in {"count", "grants", "existing", "write", "second"},
             \/ req[r].op \in {"attach", "detach", "invite"}
             \/ req[r].op = "update" /\ Held(req[r].s)
             \/ /\ req[r].op \in {"remove", "leave"}
                /\ phase = "write" => Held(req[r].s) /\ seat[req[r].s].event = req[r].e
      PROVE  Firm(Then(r, phase))
  BY <1>1, NextPhase DEF Firm
<1>2. CASE AttachFindChild(r)
  <2>1. (LiveRoot(req[r].c) /\ req[r].c # req[r].e) \in BOOLEAN
    BY DEF LiveRoot, Live
  <2> QED BY <1>1, <1>2, <2>1, FirmCheck DEF AttachFindChild, At
<1>3. CASE AttachCount(r)
  <2>1. (LiveChildren(req[r].c) = {}) \in BOOLEAN
    OBVIOUS
  <2> QED BY <1>1, <1>3, <2>1, FirmCheck DEF AttachCount, At
<1>4. CASE DetachFindChild(r)
  <2>1. (req[r].c \in LiveChildren(req[r].e)) \in BOOLEAN
    OBVIOUS
  <2> QED BY <1>1, <1>4, <2>1, FirmCheck DEF DetachFindChild, At
<1>5. CASE DeleteListChildren(r)
  <2> DEFINE h == [req[r] EXCEPT !.at = "write", !.give = LiveChildren(req[r].e)]
  <2>1. h.op = "delete"
    BY <1>5 DEF IInv, TypeOK, Request, DeleteListChildren, At
  <2>2. req' = [req EXCEPT ![r] = h]
    BY <1>5 DEF DeleteListChildren
  <2> HIDE DEF h
  <2> QED BY <1>5, <2>1, <2>2, FirmRead DEF DeleteListChildren, Firm
<1>6. CASE InviteCheckGrants(r)
  <2>1. ChildGrants(r) \in BOOLEAN
    BY DEF ChildGrants
  <2> QED BY <1>1, <1>6, <2>1, FirmCheck DEF InviteCheckGrants, At
<1>7. CASE InviteFindExisting(r)
  <2>1. (~Invited(req[r].e, req[r].who)) \in BOOLEAN
    BY DEF Invited
  <2> QED BY <1>1, <1>7, <2>1, FirmCheck DEF InviteFindExisting, At
<1>8. CASE UpdateFindSeat(r)
  <2> DEFINE ok == /\ Held(req[r].s) /\ seat[req[r].s].event = req[r].e
                   /\ SiteAllowed(NextRole(req[r]), NextSurfaces(req[r]))
  <2>1. ok \in BOOLEAN /\ (ok => Held(req[r].s))
    BY DEF Held, SiteAllowed
  <2>2. Check(r, ok, "grants") /\ UNCHANGED <<rows, everChild>> /\ req[r].op = "update"
    BY <1>8 DEF UpdateFindSeat, At
  <2> HIDE DEF ok
  <2> QED BY <1>1, <2>1, <2>2, FirmCheck
<1>9. CASE UpdateCheckGrants(r)
  <2> DEFINE ok == "childGrants" \in req[r].has => ChildGrants(r)
  <2>1. ok \in BOOLEAN
    OBVIOUS
  <2>2. /\ Check(r, ok, "write") /\ UNCHANGED <<rows, everChild>> /\ req[r].op = "update"
        /\ Held(req[r].s)
    BY <1>9 DEF UpdateCheckGrants, At, Firm
  <2> HIDE DEF ok
  <2> QED BY <1>1, <2>1, <2>2, FirmCheck
<1>10. CASE RemoveFindSeat(r)
  <2>1. (Held(req[r].s) /\ seat[req[r].s].event = req[r].e) \in BOOLEAN
    BY DEF Held
  <2> QED BY <1>1, <1>10, <2>1, FirmCheck DEF RemoveFindSeat, At
<1>11. CASE LeaveFindSeat(r)
  <2> DEFINE phase == IF Held(req[r].s) /\ seat[req[r].s].event = req[r].e
                      THEN "write" ELSE "second"
  <2>1. /\ phase \in {"write", "second"}
        /\ phase = "write" => Held(req[r].s) /\ seat[req[r].s].event = req[r].e
    BY DEF Held
  <2>2. /\ req' = [req EXCEPT ![r] = Then(r, phase)]
        /\ UNCHANGED <<rows, everChild>> /\ req[r].op = "leave"
    BY <1>11 DEF LeaveFindSeat, Goto, Then, At
  <2> HIDE DEF phase
  <2>3. Firm(Then(r, phase))
    BY <1>1, <2>1, <2>2
  <2> QED BY <2>2, <2>3, FirmRead
<1> QED BY <1>2, <1>3, <1>4, <1>5, <1>6, <1>7, <1>8, <1>9, <1>10, <1>11

LEMMA FirmStep ==
    ASSUME Solo, IInv, NEW r \in Requests, Step(r), Firm(req[r])
    PROVE  \A q \in Requests : Firm(req[q])'
<1>1. CASE DetachRevoke(r)
  <2>1. UNCHANGED <<life, seat>> /\ req' = [req EXCEPT ![r] = Then(r, "second")]
    BY <1>1 DEF DetachRevoke, Goto, Then
  <2>2. Then(r, "second").op = "detach"
    BY <1>1, NextPhase DEF DetachRevoke, At
  <2>3. \A q \in Requests : req'[q] = Then(r, "second")
    BY <2>1 DEF Solo, IInv, TypeOK
  <2> QED BY <2>2, <2>3 DEF Firm
<1>2. CASE Return(r)
  BY <1>2, FirmReturn
<1>3. \/ AttachFindChild(r) \/ AttachCount(r) \/ DetachFindChild(r)
      \/ DeleteListChildren(r) \/ InviteCheckGrants(r) \/ InviteFindExisting(r)
      \/ UpdateFindSeat(r) \/ UpdateCheckGrants(r)
      \/ RemoveFindSeat(r) \/ LeaveFindSeat(r) \/ DetachRevoke(r) \/ Return(r)
  BY DEF Step, AddCreate, AttachWrite, DetachUnlink, DeleteWrite, InviteCreate, UpdateWrite,
         DeleteSeat, LeaveGrant, AcceptWrite
<1> QED BY <1>1, <1>2, <1>3, FirmFind

LEMMA FirmNext == Solo /\ CInv /\ [Next]_vars => CInv'
<1> SUFFICES ASSUME Solo, CInv, [Next]_vars PROVE CInv'
  OBVIOUS
<1>1. SInv /\ IInv /\ Single /\ SInv' /\ Single' /\ \A r \in Requests : Firm(req[r])
  BY SoloNext, SingleKept DEF CInv, SInv
<1>2. CASE UNCHANGED vars
  BY <1>1, <1>2 DEF CInv, vars, rows, Firm, Live, Held
<1>3. ASSUME NEW e \in Events, CreateEvent(e) PROVE \A q \in Requests : Firm(req[q])'
  <2>1. /\ UNCHANGED <<seat, req>>
        /\ \A f \in Events : Live(f) => Live(f)'
    BY <1>1, <1>3 DEF CreateEvent, IInv, TypeOK, Live
  <2>2. \A q \in Requests : Firm(req[q]) /\ Knows(req[q])
    BY <1>1 DEF IInv
  <2>3. \A s \in Seats : Held(s) => seat[s].event \in Events
    BY <1>1 DEF SInv, SeatsOnEvents
  <2> QED BY <2>1, <2>2, <2>3 DEF Firm, Knows, AllOps, Held
<1>4. ASSUME NEW r \in Requests, Die(r) PROVE \A q \in Requests : Firm(req[q])'
  BY <1>1, <1>4, FirmReturn DEF Die
<1>5. ASSUME NEW r \in Requests, Arrive(r) \/ Step(r) PROVE \A q \in Requests : Firm(req[q])'
  BY <1>1, <1>5, FirmArrive, FirmStep
<1> QED BY <1>1, <1>2, <1>3, <1>4, <1>5 DEF CInv, Next

LEMMA FirmInit == Init => CInv
<1> SUFFICES ASSUME Init PROVE CInv
  OBVIOUS
<1>1. Single
  <2>1. \A s \in Seats : ~Held(s)
    BY DEF Init, Unborn, Held
  <2> QED BY <2>1 DEF Single
<1>2. \A r \in Requests : Firm(req[r])
  BY IdleFirm DEF Init
<1> QED BY <1>1, <1>2, SoloInit DEF CInv


CircleStep == Promise!Next \/ UNCHANGED Promise!circle

\* Two sets of pairs that have the same pairs.
LEMMA SamePairs ==
    ASSUME NEW S, NEW T, NEW A, NEW B, A \subseteq S \X T, B \subseteq S \X T,
           \A x \in S, y \in T : <<x, y>> \in A <=> <<x, y>> \in B
    PROVE  A = B
<1>1. ASSUME NEW z \in S \X T PROVE z \in A <=> z \in B
  <2>1. PICK x \in S, y \in T : z = <<x, y>>
    BY <1>1
  <2> QED BY <2>1
<1> QED BY <1>1

\* Person w is let into sub-event c.
LetsIn(w, c) ==
    /\ Live(c)
    /\ \E s \in Seats : /\ Held(s) /\ seat[s].person = w
                        /\ seat[s].event = parent[c] /\ <<s, c>> \in grants

\* What the abstract state says, before a step and after it.
LEMMA LinksRead ==
    /\ Links \subseteq Events \X Events
    /\ \A p, c \in Events : <<p, c>> \in Links <=> life[c] = "live" /\ parent[c] = p
BY DEF Links, Live

LEMMA LinksThen ==
    ASSUME NEW L \in SUBSET (Events \X Events),
           \A p, c \in Events : <<p, c>> \in L <=> life'[c] = "live" /\ parent'[c] = p
    PROVE  Links' = L
<1>1. /\ Links' \subseteq Events \X Events
      /\ \A p, c \in Events : <<p, c>> \in Links' <=> life'[c] = "live" /\ parent'[c] = p
  BY DEF Links, Live
<1>2. \A p, c \in Events : <<p, c>> \in Links' <=> <<p, c>> \in L
  BY <1>1
<1> QED BY <1>1, <1>2, SamePairs

LEMMA LetInReads ==
    /\ LetIn \subseteq People \X Events
    /\ \A w \in People, c \in Events : <<w, c>> \in LetIn <=> LetsIn(w, c)
BY DEF LetIn, LetsIn

LEMMA LetInThen ==
    ASSUME NEW L \in SUBSET (People \X Events),
           \A w \in People, c \in Events : <<w, c>> \in L <=> LetsIn(w, c)'
    PROVE  LetIn' = L
<1>1. /\ LetIn' \subseteq People \X Events
      /\ \A w \in People, c \in Events : <<w, c>> \in LetIn' <=> LetsIn(w, c)'
  BY DEF LetIn, LetsIn
<1>2. \A w \in People, c \in Events : <<w, c>> \in LetIn' <=> <<w, c>> \in L
  BY <1>1
<1> QED BY <1>1, <1>2, SamePairs

LEMMA ChildrenRead == \A e \in Events : Promise!Children(e) = LiveChildren(e)
BY LinksRead DEF Promise!Children, LiveChildren, Live

\* An event has no parent if it is no live event's sub-event.
LEMMA TopIsRoot ==
    ASSUME TypeOK, NEW e \in Events
    PROVE  e \in Promise!Tops <=> LiveRoot(e)
<1>1. e \in Promise!Tops <=> Live(e) /\ \A p \in Events : <<p, e>> \notin Links
  BY DEF Promise!Tops
<1>2. parent[e] \in Events \cup {NoEvent}
  BY DEF TypeOK
<1> QED BY <1>1, <1>2, LinksRead, CircleAssumption DEF LiveRoot, Live

\* A step that leaves the rows as they are.
LEMMA RowsStill ==
    ASSUME UNCHANGED <<parent, life, seat, grants>>
    PROVE  UNCHANGED Promise!circle
BY DEF Promise!circle, Live, Held, Links, Places, PlaceOf, LetIn

\* A step that leaves seats as they are leaves the places as they are.
LEMMA PlacesStill == ASSUME UNCHANGED seat PROVE UNCHANGED Places
BY DEF Places, PlaceOf, Held

LEMMA CreateStep ==
    ASSUME CInv, NEW e \in Events, CreateEvent(e)
    PROVE  Promise!Create(e)
<1>1. /\ life[e] = "unborn" /\ parent[e] = NoEvent
      /\ UNCHANGED <<parent, seat, grants>>
      /\ \A f \in Events : life'[f] = IF f = e THEN "live" ELSE life[f]
  BY DEF CInv, SInv, IInv, TypeOK, UnbornIsBare, CreateEvent
<1>2. Links' = Links
  <2>1. ASSUME NEW p \in Events, NEW c \in Events
        PROVE  <<p, c>> \in Links <=> life'[c] = "live" /\ parent'[c] = p
    <3>1. <<p, c>> \in Links <=> life[c] = "live" /\ parent[c] = p
      BY LinksRead
    <3> QED BY <1>1, <3>1, CircleAssumption
  <2> QED BY <2>1, LinksRead, LinksThen
<1>3. \A w \in People, c \in Events : LetsIn(w, c)' <=> LetsIn(w, c)
  BY <1>1, CircleAssumption DEF LetsIn, Live, Held, CInv, SInv, SeatsOnEvents
<1>4. Links' = Links /\ LetIn' = LetIn /\ Places' = Places
  BY <1>1, <1>2, <1>3, LetInReads, LetInThen, PlacesStill
<1>5. /\ {f \in Events : Live(f)}' = {f \in Events : Live(f)} \cup {e}
      /\ {f \in Events : life[f] = "deleted"}' = {f \in Events : life[f] = "deleted"}
      /\ e \notin {f \in Events : Live(f)} \cup {f \in Events : life[f] = "deleted"}
  BY <1>1 DEF Live
<1> QED BY <1>4, <1>5 DEF Promise!Create

LEMMA AddStep ==
    ASSUME CInv, NEW r \in Requests, NEW c \in Events, AddCreate(r, c)
    PROVE  Promise!Add(req[r].e, c)
<1> DEFINE p == req[r].e
<1>1. /\ LiveRoot(p) /\ p \in Events /\ life[c] = "unborn" /\ parent[c] = NoEvent
      /\ UNCHANGED <<seat, grants>>
      /\ \A f \in Events : /\ life'[f] = IF f = c THEN "live" ELSE life[f]
                           /\ parent'[f] = IF f = c THEN p ELSE parent[f]
  BY DEF CInv, SInv, IInv, TypeOK, Sure, Knows, AddCreate, At, AllOps, UnbornIsBare
<1>2. Links' = Links \cup {<<p, c>>}
  <2>1. ASSUME NEW q \in Events, NEW d \in Events
        PROVE  <<q, d>> \in Links \cup {<<p, c>>} <=> life'[d] = "live" /\ parent'[d] = q
    <3>1. <<q, d>> \in Links <=> life[d] = "live" /\ parent[d] = q
      BY LinksRead
    <3> QED BY <1>1, <3>1, CircleAssumption DEF LiveRoot, Live
  <2>2. Links \cup {<<p, c>>} \in SUBSET (Events \X Events)
    BY <1>1, LinksRead
  <2> QED BY <2>1, <2>2, LinksThen
<1>3. \A s \in Seats : Held(s) => <<s, c>> \notin grants
  BY <1>1, CircleAssumption DEF CInv, SInv, GrantsFollow, SeatsOnEvents
<1>4. \A w \in People, d \in Events : LetsIn(w, d)' <=> LetsIn(w, d)
  BY <1>1, <1>3 DEF LetsIn, Live, Held
<1>5. LetIn' = LetIn
  BY <1>4, LetInReads, LetInThen
<1>6. Places' = Places
  BY <1>1, PlacesStill
<1>7. /\ {f \in Events : Live(f)}' = {f \in Events : Live(f)} \cup {c}
      /\ {f \in Events : life[f] = "deleted"}' = {f \in Events : life[f] = "deleted"}
      /\ c \notin {f \in Events : Live(f)} \cup {f \in Events : life[f] = "deleted"}
  BY <1>1 DEF Live
<1>8. p \in Promise!Tops
  BY <1>1, TopIsRoot DEF CInv, SInv, IInv
<1> QED BY <1>2, <1>5, <1>6, <1>7, <1>8 DEF Promise!Add

\* A top-level event has no grants that attaching it would revive.
LEMMA AttachStep ==
    ASSUME CInv, NEW r \in Requests, AttachWrite(r)
    PROVE  Promise!Attach(req[r].e, req[r].c)
<1> DEFINE p == req[r].e
           c == req[r].c
<1>1. /\ LiveRoot(p) /\ LiveRoot(c) /\ c # p /\ LiveChildren(c) = {}
      /\ p \in Events /\ c \in Events /\ UNCHANGED <<life, seat, grants>>
      /\ \A f \in Events : parent'[f] = IF f = c THEN p ELSE parent[f]
  BY DEF CInv, SInv, IInv, TypeOK, Sure, Knows, AttachWrite, At, AllOps
<1>2. Links' = Links \cup {<<p, c>>}
  <2>1. ASSUME NEW q \in Events, NEW d \in Events
        PROVE  <<q, d>> \in Links \cup {<<p, c>>} <=> life'[d] = "live" /\ parent'[d] = q
    <3>1. <<q, d>> \in Links <=> life[d] = "live" /\ parent[d] = q
      BY LinksRead
    <3> QED BY <1>1, <3>1, CircleAssumption DEF LiveRoot, Live
  <2>2. Links \cup {<<p, c>>} \in SUBSET (Events \X Events)
    BY <1>1, LinksRead
  <2> QED BY <2>1, <2>2, LinksThen
<1>3. \A s \in Seats : Held(s) => <<s, c>> \notin grants
  BY <1>1, CircleAssumption DEF CInv, SInv, GrantsFollow, SeatsOnEvents, LiveRoot
<1>4. \A w \in People, d \in Events : LetsIn(w, d)' <=> LetsIn(w, d)
  BY <1>1, <1>3 DEF LetsIn, Live, Held
<1>5. LetIn' = LetIn
  BY <1>4, LetInReads, LetInThen
<1>6. Places' = Places
  BY <1>1, PlacesStill
<1>7. p \in Promise!Tops /\ c \in Promise!Tops /\ Promise!Children(c) = {}
  BY <1>1, TopIsRoot, ChildrenRead DEF CInv, SInv, IInv
<1>8. /\ {f \in Events : Live(f)}' = {f \in Events : Live(f)}
      /\ {f \in Events : life[f] = "deleted"}' = {f \in Events : life[f] = "deleted"}
  BY <1>1 DEF Live
<1> QED BY <1>1, <1>2, <1>5, <1>6, <1>7, <1>8 DEF Promise!Attach

LEMMA CloseStep ==
    ASSUME CInv, NEW r \in Requests, DetachRevoke(r)
    PROVE  Promise!Close(req[r].c)
<1> DEFINE c == req[r].c
<1>1. /\ UNCHANGED <<parent, life, seat>>
      /\ grants' = {g \in grants : g[2] # c}
  BY DEF DetachRevoke
<1>2. \A s \in Seats, d \in Events : <<s, d>> \in grants' <=> <<s, d>> \in grants /\ d # c
  BY <1>1
<1>3. \A w \in People, d \in Events : LetsIn(w, d)' <=> LetsIn(w, d) /\ d # c
  BY <1>1, <1>2 DEF LetsIn, Live, Held
<1>4. /\ {x \in LetIn : x[2] # c} \subseteq People \X Events
      /\ \A w \in People, d \in Events :
            <<w, d>> \in {x \in LetIn : x[2] # c} <=> <<w, d>> \in LetIn /\ d # c
  BY LetInReads
<1>5. LetIn' = {x \in LetIn : x[2] # c}
  <2>1. \A w \in People, d \in Events :
           <<w, d>> \in {x \in LetIn : x[2] # c} <=> LetsIn(w, d)'
    BY <1>3, <1>4, LetInReads
  <2> QED BY <1>4, <2>1, LetInThen
<1>6. Links' = Links /\ Places' = Places
  BY <1>1 DEF Links, Places, PlaceOf, Held, Live
<1>7. /\ {f \in Events : Live(f)}' = {f \in Events : Live(f)}
      /\ {f \in Events : life[f] = "deleted"}' = {f \in Events : life[f] = "deleted"}
  BY <1>1 DEF Live
<1> QED BY <1>5, <1>6, <1>7 DEF Promise!Close

LEMMA DetachStep ==
    ASSUME CInv, NEW r \in Requests, DetachUnlink(r)
    PROVE  Promise!Detach(req[r].c)
<1> DEFINE c == req[r].c
<1>1. /\ \A g \in grants : g[2] # c
      /\ UNCHANGED <<life, seat, grants>> /\ c \in Events
      /\ \A f \in Events : parent'[f] = IF f = c THEN NoEvent ELSE parent[f]
  BY DEF CInv, SInv, IInv, TypeOK, Knows, Sure, DetachUnlink, At
<1>2. \A s \in Seats : <<s, c>> \notin grants
  BY <1>1
<1>3. \A w \in People, d \in Events : LetsIn(w, d)' <=> LetsIn(w, d)
  BY <1>1, <1>2 DEF LetsIn, Live, Held
<1>4. \A w \in People : <<w, c>> \notin LetIn
  BY <1>1, <1>2, LetInReads DEF LetsIn
<1>5. /\ {x \in Links : x[2] # c} \subseteq Events \X Events
      /\ \A q, d \in Events :
            <<q, d>> \in {x \in Links : x[2] # c} <=> <<q, d>> \in Links /\ d # c
  BY LinksRead
<1>6. Links' = {x \in Links : x[2] # c}
  <2>1. ASSUME NEW q \in Events, NEW d \in Events
        PROVE  <<q, d>> \in {x \in Links : x[2] # c}
                  <=> life'[d] = "live" /\ parent'[d] = q
    <3>1. <<q, d>> \in Links <=> life[d] = "live" /\ parent[d] = q
      BY LinksRead
    <3> QED BY <1>1, <1>5, <3>1, CircleAssumption
  <2> QED BY <1>5, <2>1, LinksThen
<1>7. LetIn' = LetIn /\ Places' = Places
  BY <1>1, <1>3, LetInReads, LetInThen, PlacesStill
<1>8. /\ {f \in Events : Live(f)}' = {f \in Events : Live(f)}
      /\ {f \in Events : life[f] = "deleted"}' = {f \in Events : life[f] = "deleted"}
  BY <1>1 DEF Live
<1> QED BY <1>4, <1>6, <1>7, <1>8 DEF Promise!Detach

\* An event deleted twice, the second time with nothing left to take along.
LEMMA DeleteStep ==
    ASSUME CInv, NEW r \in Requests, NEW p \in Events, p = req[r].e, DeleteWrite(r)
    PROVE  Promise!Delete(p) \/ UNCHANGED Promise!circle
<1> DEFINE D == {p} \cup LiveChildren(p)
<1>1. /\ req[r].give = LiveChildren(p) /\ p \in Events
      /\ UNCHANGED <<parent, seat, grants>> /\ life' \in [Events -> {"unborn", "live", "deleted"}]
      /\ life \in [Events -> {"unborn", "live", "deleted"}]
  BY NextKeeps DEF CInv, SInv, IInv, TypeOK, Sure, Knows, DeleteWrite, At, AllOps, Next, Step
<1>2. \A f \in Events : life'[f] = IF f \in D /\ Live(f) THEN "deleted" ELSE life[f]
  BY <1>1 DEF DeleteWrite
<1>3. \A f \in LiveChildren(p) : Live(f)
  BY DEF LiveChildren
<1>4. CASE ~Live(p)
  <2>1. LiveChildren(p) = {}
    BY <1>1, <1>4, CircleAssumption DEF CInv, SInv, TreeIsFlat, LiveChildren, LiveRoot
  <2>2. life' = life
    BY <1>1, <1>2, <1>4, <2>1
  <2> QED BY <1>1, <2>2, RowsStill
<1>5. CASE Live(p)
  <2>1. \A f \in Events : f \in D => Live(f)
    BY <1>3, <1>5
  <2>2. Promise!Children(p) = LiveChildren(p)
    BY <1>1, ChildrenRead
  <2>3. /\ {f \in Events : Live(f)}' = {f \in Events : Live(f)} \ D
        /\ {f \in Events : life[f] = "deleted"}' = {f \in Events : life[f] = "deleted"} \cup D
    <3>1. D \subseteq Events
      BY <1>1 DEF LiveChildren
    <3> QED BY <1>2, <2>1, <3>1 DEF Live
  <2>4. \A f \in Events : Live(f)' <=> Live(f) /\ f \notin D
    BY <1>2, <2>1 DEF Live
  <2>5. /\ {x \in Links : x[2] \notin D} \subseteq Events \X Events
        /\ {x \in LetIn : x[2] \notin D} \subseteq People \X Events
        /\ \A q, d \in Events :
              <<q, d>> \in {x \in Links : x[2] \notin D} <=> <<q, d>> \in Links /\ d \notin D
        /\ \A w \in People, d \in Events :
              <<w, d>> \in {x \in LetIn : x[2] \notin D} <=> <<w, d>> \in LetIn /\ d \notin D
    <3> HIDE DEF D
    <3> QED BY LinksRead, LetInReads
  <2> HIDE DEF D
  <2>6. Links' = {x \in Links : x[2] \notin D}
    <3>1. ASSUME NEW q \in Events, NEW d \in Events
          PROVE  <<q, d>> \in {x \in Links : x[2] \notin D}
                    <=> life'[d] = "live" /\ parent'[d] = q
      <4>1. <<q, d>> \in Links <=> life[d] = "live" /\ parent[d] = q
        BY LinksRead
      <4> QED BY <1>1, <2>4, <2>5, <4>1 DEF Live
    <3> QED BY <2>5, <3>1, LinksThen
  <2>7. LetIn' = {x \in LetIn : x[2] \notin D}
    <3>1. \A w \in People, d \in Events : LetsIn(w, d)' <=> LetsIn(w, d) /\ d \notin D
      BY <1>1, <2>4 DEF LetsIn, Held
    <3>2. \A w \in People, d \in Events :
             <<w, d>> \in {x \in LetIn : x[2] \notin D} <=> LetsIn(w, d)'
      BY <2>5, <3>1, LetInReads
    <3> QED BY <2>5, <3>2, LetInThen
  <2>8. p \in {f \in Events : Live(f)} /\ Places' = Places
    BY <1>1, <1>5, PlacesStill
  <2> QED BY <2>2, <2>3, <2>6, <2>7, <2>8 DEF Promise!Delete, D
<1> QED BY <1>4, <1>5


\* A row stands for a place of its own.
LEMMA PlacesApart ==
    ASSUME CInv, NEW s \in Seats, NEW t \in Seats, Held(s), Held(t), PlaceOf(s) = PlaceOf(t)
    PROVE  s = t
BY DEF CInv, Single, PlaceOf

LEMMA PlacesRead == \A y : y \in Places <=> \E s \in Seats : Held(s) /\ y = PlaceOf(s)
BY DEF Places

LEMMA PlacesThen ==
    ASSUME NEW P, \A y : y \in P <=> \E s \in Seats : Held(s)' /\ y = PlaceOf(s)'
    PROVE  Places' = P
BY DEF Places

LEMMA PlaceType ==
    ASSUME CInv, NEW s \in Seats, Held(s)
    PROVE  PlaceOf(s) \in Promise!Place /\ PlaceOf(s) \in Places
<1>1. seat[s] \in Seat /\ seat[s].person \in People /\ seat[s].event \in Events
  BY DEF CInv, Single, SInv, SeatsOnEvents, IInv, TypeOK
<1>2. PlaceOf(s) \in Promise!Place
  BY <1>1 DEF PlaceOf, Promise!Place, Seat
<1> QED BY <1>2, PlacesRead

\* Places are the same when their columns are.
LEMMA SamePlace ==
    ASSUME NEW p \in Promise!Place, NEW q \in Promise!Place, p.who = q.who,
           p.event = q.event, p.role = q.role, p.surfaces = q.surfaces,
           p.accepted = q.accepted
    PROVE  p = q
BY DEF Promise!Place

\* One row is rewritten.
LEMMA PlaceChanges ==
    ASSUME CInv, NEW s \in Seats, Held(s), Held(s)',
           \A t \in Seats : t # s => seat'[t] = seat[t]
    PROVE  Places' = (Places \ {PlaceOf(s)}) \cup {PlaceOf(s)'}
<1>1. \A t \in Seats : t # s => (Held(t)' <=> Held(t)) /\ PlaceOf(t)' = PlaceOf(t)
  BY DEF Held, PlaceOf
<1>2. ASSUME NEW y
      PROVE  y \in (Places \ {PlaceOf(s)}) \cup {PlaceOf(s)'}
                <=> \E t \in Seats : Held(t)' /\ y = PlaceOf(t)'
  BY <1>1, PlacesRead, PlacesApart
<1> QED BY <1>2, PlacesThen

\* The grants that go with seat s, and those that go with others.
LEMMA LetInThroughOthers ==
    ASSUME CInv, NEW s \in Seats, Held(s), NEW w \in People, NEW d \in Events,
           w # seat[s].person \/ d \notin LiveChildren(seat[s].event)
    PROVE  LetsIn(w, d) <=>
              /\ Live(d)
              /\ \E t \in Seats \ {s} : /\ Held(t) /\ seat[t].person = w
                                        /\ seat[t].event = parent[d] /\ <<t, d>> \in grants
BY DEF LetsIn, LiveChildren

\* The place of seat s is the only one of its person on its event.
LEMMA NobodyElse ==
    ASSUME CInv, NEW s \in Seats, Held(s), NEW d \in LiveChildren(seat[s].event),
           NEW t \in Seats \ {s}, Held(t), seat[t].person = seat[s].person
    PROVE  seat[t].event # parent[d]
BY DEF CInv, Single, LiveChildren

\* LetIn less what went with seat s, plus what goes with it now.
LEMMA LetInChanges ==
    ASSUME CInv, NEW s \in Seats, Held(s), NEW give \in SUBSET LiveChildren(seat[s].event),
           UNCHANGED <<parent, life>>,
           \A t \in Seats : t # s => seat'[t] = seat[t],
           \A t \in Seats, d \in Events : t # s => (<<t, d>> \in grants' <=> <<t, d>> \in grants),
           \/ give = {} /\ ~Held(s)'
           \/ /\ Held(s)' /\ seat'[s].person = seat[s].person /\ seat'[s].event = seat[s].event
              /\ \A d \in Events : <<s, d>> \in grants' <=> d \in give
    PROVE  LetIn' = Promise!Without(PlaceOf(s)) \cup ({seat[s].person} \X give)
<1> DEFINE who == seat[s].person
           L == Promise!Without(PlaceOf(s)) \cup ({who} \X give)
<1>1. seat[s].event \in Events /\ who \in People
  BY DEF CInv, Single, SInv, SeatsOnEvents
<1>2. PlaceOf(s).who = who /\ PlaceOf(s).event = seat[s].event
  BY DEF PlaceOf
<1>3. Promise!Without(PlaceOf(s))
        = {x \in LetIn : x[1] # who \/ x[2] \notin LiveChildren(seat[s].event)}
  BY <1>1, <1>2, ChildrenRead DEF Promise!Without
<1>4. give \subseteq Events
  BY DEF LiveChildren
<1>5. L \in SUBSET (People \X Events)
  BY <1>1, <1>3, <1>4, LetInReads
<1>6. ASSUME NEW w \in People, NEW d \in Events
      PROVE  <<w, d>> \in L <=> LetsIn(w, d)'
  <2>1. <<w, d>> \in L <=> \/ /\ LetsIn(w, d)
                              /\ w # who \/ d \notin LiveChildren(seat[s].event)
                           \/ w = who /\ d \in give
    BY <1>3, LetInReads
  <2>2. LetsIn(w, d)' <=>
           /\ Live(d)
           /\ \/ \E t \in Seats \ {s} : /\ Held(t) /\ seat[t].person = w
                                        /\ seat[t].event = parent[d] /\ <<t, d>> \in grants
              \/ w = who /\ seat[s].event = parent[d] /\ d \in give
    <3>1. \A t \in Seats \ {s} : (Held(t)' <=> Held(t)) /\ seat'[t] = seat[t]
      BY DEF Held
    <3>2. Live(d)' <=> Live(d)
      BY DEF Live
    <3>3. /\ Held(s)' /\ seat'[s].person = w /\ seat'[s].event = parent[d] /\ <<s, d>> \in grants'
          <=> w = who /\ seat[s].event = parent[d] /\ d \in give
      OBVIOUS
    <3> QED BY <3>1, <3>2, <3>3 DEF LetsIn
  <2>3. d \in give => d \in LiveChildren(seat[s].event) /\ Live(d) /\ seat[s].event = parent[d]
    BY DEF LiveChildren
  <2>4. CASE w # who \/ d \notin LiveChildren(seat[s].event)
    BY <2>1, <2>2, <2>3, <2>4, LetInThroughOthers
  <2>5. CASE w = who /\ d \in LiveChildren(seat[s].event)
    BY <2>1, <2>2, <2>3, <2>5, NobodyElse
  <2> QED BY <2>4, <2>5
<1> QED BY <1>5, <1>6, LetInThen

LEMMA EventsStill ==
    ASSUME UNCHANGED <<parent, life>>
    PROVE  /\ {f \in Events : Live(f)}' = {f \in Events : Live(f)}
           /\ {f \in Events : life[f] = "deleted"}' = {f \in Events : life[f] = "deleted"}
           /\ Links' = Links
BY DEF Live, Links

LEMMA InviteStep ==
    ASSUME CInv, NEW r \in Requests, NEW s \in Seats, InviteCreate(r, s)
    PROVE  CircleStep
<1> DEFINE h == req[r]
           place == [who |-> h.who, event |-> h.e, role |-> h.role, surfaces |-> h.surfaces,
                     accepted |-> FALSE]
<1>1. /\ h.op = "invite" /\ h.at = "write" /\ seat[s].state = "none" /\ Live(h.e)
      /\ h.e \in Events /\ h.who \in People /\ h.give \subseteq LiveChildren(h.e)
      /\ SiteAllowed(h.role, h.surfaces) /\ UNCHANGED <<parent, life>>
      /\ h.role \in Roles /\ h.surfaces \in SUBSET Surfaces
  BY DEF CInv, Firm, SInv, Sure, Offering, IInv, Knows, TypeOK, Request, InviteCreate, At, AllOps
<1>2. CASE Invited(h.e, h.who)
  BY <1>1, <1>2, RowsStill DEF InviteCreate, CircleStep
<1>3. CASE ~Invited(h.e, h.who)
  <2>1. /\ \A t \in Seats : seat'[t] = IF t = s THEN NewSeat(h) ELSE seat[t]
        /\ grants' = grants \cup ({s} \X h.give)
    BY <1>3 DEF CInv, SInv, IInv, TypeOK, InviteCreate
  <2>2. /\ NewSeat(h).state = "held" /\ NewSeat(h).event = h.e /\ NewSeat(h).person = h.who
        /\ NewSeat(h).role = h.role /\ NewSeat(h).surfaces = h.surfaces
        /\ NewSeat(h).accepted = FALSE
    BY DEF NewSeat
  <2>3. ~Held(s) /\ Held(s)' /\ PlaceOf(s)' = place
    BY <1>1, <2>1, <2>2 DEF Held, PlaceOf
  <2>4. \A t \in Seats : t # s => (Held(t)' <=> Held(t)) /\ PlaceOf(t)' = PlaceOf(t)
    BY <2>1 DEF Held, PlaceOf
  <2>5. Places' = Places \cup {place}
    <3>1. ASSUME NEW y
          PROVE  y \in Places \cup {place} <=> \E t \in Seats : Held(t)' /\ y = PlaceOf(t)'
      BY <2>3, <2>4, PlacesRead
    <3> QED BY <3>1, PlacesThen
  <2>6. \A other \in Places : other.who # h.who \/ other.event # h.e
    BY <1>3, PlacesRead DEF Invited, PlaceOf
  <2>7. \A d \in Events : /\ <<s, d>> \notin grants
                          /\ <<s, d>> \in grants' <=> d \in h.give
    <3>1. \A d \in Events : <<s, d>> \notin grants
      BY <2>3 DEF CInv, SInv, IInv, GrantsAreRooted
    <3> QED BY <2>1, <3>1
  <2>8. \A t \in Seats, d \in Events : t # s => (<<t, d>> \in grants' <=> <<t, d>> \in grants)
    BY <2>1
  <2>9. \A w \in People, d \in Events :
           LetsIn(w, d)' <=> LetsIn(w, d) \/ (w = h.who /\ d \in h.give)
    <3> SUFFICES ASSUME NEW w \in People, NEW d \in Events
                 PROVE  LetsIn(w, d)' <=> LetsIn(w, d) \/ (w = h.who /\ d \in h.give)
      OBVIOUS
    <3>1. d \in h.give => Live(d) /\ parent[d] = h.e
      BY <1>1 DEF LiveChildren
    <3>2. LetsIn(w, d) <=>
            /\ Live(d)
            /\ \E t \in Seats \ {s} : /\ Held(t) /\ seat[t].person = w
                                      /\ seat[t].event = parent[d] /\ <<t, d>> \in grants
      BY <2>3 DEF LetsIn
    <3>3. LetsIn(w, d)' <=>
            /\ Live(d)
            /\ \/ \E t \in Seats \ {s} : /\ Held(t) /\ seat[t].person = w
                                         /\ seat[t].event = parent[d] /\ <<t, d>> \in grants
               \/ h.who = w /\ h.e = parent[d] /\ d \in h.give
      <4>1. \A t \in Seats \ {s} : (Held(t)' <=> Held(t)) /\ seat'[t] = seat[t]
        BY <2>1, <2>4
      <4>2. Live(d)' <=> Live(d)
        BY <1>1 DEF Live
      <4>3. seat'[s].person = h.who /\ seat'[s].event = h.e
        BY <2>1, <2>2
      <4> QED BY <1>1, <2>3, <2>7, <2>8, <4>1, <4>2, <4>3 DEF LetsIn
    <3> QED BY <3>1, <3>2, <3>3
  <2>10. h.give \subseteq Events
    BY <1>1 DEF LiveChildren
  <2>11. LetIn' = LetIn \cup ({h.who} \X h.give)
    <3>1. LetIn \cup ({h.who} \X h.give) \in SUBSET (People \X Events)
      BY <1>1, <2>10, LetInReads
    <3>2. \A w \in People, d \in Events :
             <<w, d>> \in LetIn \cup ({h.who} \X h.give) <=> LetsIn(w, d)'
      BY <2>9, LetInReads
    <3> QED BY <3>1, <3>2, LetInThen
  <2>12. place \in Promise!Place /\ Promise!SiteAllowed(place)
    BY <1>1 DEF Promise!Place, Promise!SiteAllowed, SiteAllowed
  <2>13. Promise!Invite(place, h.give)
    BY <1>1, <2>5, <2>6, <2>11, <2>12, EventsStill, ChildrenRead DEF Promise!Invite
  <2> QED BY <2>10, <2>12, <2>13 DEF CircleStep, Promise!Next
<1> QED BY <1>2, <1>3


LEMMA UpdateStep ==
    ASSUME CInv, NEW r \in Requests, UpdateWrite(r)
    PROVE  CircleStep
<1>0. PICK s \in Seats : s = req[r].s
  BY DEF CInv, SInv, IInv, Knows, UpdateWrite, At
<1> DEFINE h == req[r]
           place == PlaceOf(s)
           role == NextRole(h)
           surfaces == NextSurfaces(h)
           row == [seat[s] EXCEPT !.role = role, !.surfaces = surfaces]
           new == [place EXCEPT !.role = role, !.surfaces = surfaces]
<1>1. /\ s \in Seats /\ Held(s) /\ Live(h.e) /\ h.e \in Events /\ seat[s].event = h.e
      /\ SiteAllowed(role, surfaces) /\ UNCHANGED <<parent, life>>
      /\ "childGrants" \in h.has => h.give \subseteq LiveChildren(h.e)
      /\ h \in Request /\ seat[s] \in Seat
  BY <1>0 DEF CInv, Firm, SInv, Sure, Offering, IInv, Knows, SeatOn, TypeOK, UpdateWrite, At,
              AllOps
<1>2. role \in Roles /\ surfaces \in SUBSET Surfaces
  BY <1>0, <1>1 DEF NextRole, NextSurfaces, Request, Seat
<1>3. seat' = [seat EXCEPT ![s] = row]
  BY <1>0, <1>1 DEF UpdateWrite
<1>4. /\ row.state = "held" /\ row.person = seat[s].person /\ row.event = seat[s].event
      /\ row.role = role /\ row.surfaces = surfaces /\ row.accepted = seat[s].accepted
  BY <1>1 DEF Seat, Held
<1> HIDE DEF role, surfaces, row
<1>5. \A t \in Seats : seat'[t] = IF t = s THEN row ELSE seat[t]
  BY <1>3 DEF CInv, SInv, IInv, TypeOK
<1>6. Held(s)' /\ PlaceOf(s)' = new
  <2>1. seat'[s] = row
    BY <1>5
  <2>2. Held(s)'
    BY <1>4, <2>1 DEF Held
  <2> DEFINE then == [who |-> row.person, event |-> row.event, role |-> row.role,
                      surfaces |-> row.surfaces, accepted |-> row.accepted]
  <2>3. PlaceOf(s)' = then
    BY <2>1 DEF PlaceOf
  <2>4. place \in Promise!Place
    BY <1>1, PlaceType
  <2>5. place.who = seat[s].person /\ place.event = seat[s].event
        /\ place.role = seat[s].role /\ place.surfaces = seat[s].surfaces
        /\ place.accepted = seat[s].accepted
    BY DEF PlaceOf
  <2> HIDE DEF place
  <2>6. /\ new \in Promise!Place
        /\ new.who = seat[s].person /\ new.event = seat[s].event
        /\ new.role = role /\ new.surfaces = surfaces
        /\ new.accepted = seat[s].accepted
    BY <1>1, <1>2, <2>4, <2>5 DEF Promise!Place
  <2>7. /\ then.who = row.person /\ then.event = row.event /\ then.role = row.role
        /\ then.surfaces = row.surfaces /\ then.accepted = row.accepted
    OBVIOUS
  <2>8. /\ row.person \in People /\ row.event \in Events /\ row.role \in Roles
        /\ row.surfaces \in SUBSET Surfaces /\ row.accepted \in BOOLEAN
    BY <1>4, <2>4, <2>5, <2>6 DEF Promise!Place
  <2>9. then \in Promise!Place
    BY <2>8 DEF Promise!Place
  <2> HIDE DEF then, new
  <2>10. then = new
    BY <1>4, <2>6, <2>7, <2>9, SamePlace
  <2> QED BY <2>2, <2>3, <2>10
<1>7. Places' = (Places \ {place}) \cup {new}
  BY <1>1, <1>5, <1>6, PlaceChanges
<1>8. place \in Places /\ place.who = seat[s].person /\ place.event = h.e
  BY <1>1, PlaceType DEF PlaceOf
<1>9. Promise!SiteAllowed(new)
  BY <1>1 DEF Promise!SiteAllowed, SiteAllowed, PlaceOf
<1>10. CASE "childGrants" \in h.has
  <2>1. grants' = {g \in grants : g[1] # s} \cup ({s} \X h.give)
    BY <1>0, <1>1, <1>10 DEF UpdateWrite
  <2>2. \A t \in Seats, d \in Events : t # s => (<<t, d>> \in grants' <=> <<t, d>> \in grants)
    BY <2>1
  <2>3. \A d \in Events : <<s, d>> \in grants' <=> d \in h.give
    BY <2>1
  <2>4. h.give \in SUBSET LiveChildren(seat[s].event) /\ h.give \in SUBSET Events
    BY <1>1, <1>10 DEF LiveChildren
  <2>5. LetIn' = Promise!Without(place) \cup ({seat[s].person} \X h.give)
    BY <1>1, <1>4, <1>5, <1>6, <2>2, <2>3, <2>4, LetInChanges
  <2>6. Promise!Update(place, role, surfaces, h.give)
    BY <1>1, <1>7, <1>8, <1>9, <2>4, <2>5, EventsStill, ChildrenRead DEF Promise!Update
  <2> QED BY <1>2, <1>8, <2>4, <2>6 DEF CircleStep, Promise!Next
<1>11. CASE "childGrants" \notin h.has
  <2>1. grants' = grants
    BY <1>0, <1>1, <1>11 DEF UpdateWrite
  <2>2. \A t \in Seats : /\ Held(t)' <=> Held(t)
                         /\ seat'[t].person = seat[t].person /\ seat'[t].event = seat[t].event
    BY <1>1, <1>4, <1>5 DEF Held
  <2>3. \A w \in People, d \in Events : LetsIn(w, d)' <=> LetsIn(w, d)
    BY <1>1, <2>1, <2>2 DEF LetsIn, Live
  <2>4. LetIn' = LetIn
    BY <2>3, LetInReads, LetInThen
  <2>5. {} \subseteq Promise!Children(place.event)
    OBVIOUS
  <2>6. Promise!Update(place, role, surfaces, {})
    BY <1>1, <1>7, <1>8, <1>9, <2>4, <2>5, EventsStill DEF Promise!Update
  <2> QED BY <1>2, <1>8, <2>6 DEF CircleStep, Promise!Next
<1> QED BY <1>10, <1>11

LEMMA LeaveStep ==
    ASSUME CInv, NEW r \in Requests, DeleteSeat(r)
    PROVE  CircleStep
<1>0. PICK s \in Seats : s = req[r].s
  BY DEF CInv, SInv, IInv, Knows, DeleteSeat, At
<1> DEFINE place == PlaceOf(s)
<1>1. /\ s \in Seats /\ Held(s) /\ Live(req[r].e) /\ req[r].e \in Events
      /\ seat[s].event = req[r].e /\ UNCHANGED <<parent, life>>
  BY <1>0 DEF CInv, Firm, SInv, IInv, Knows, DeleteSeat, At, AllOps
<1>2. seat' = [seat EXCEPT ![s] = Gone] /\ grants' = {g \in grants : g[1] # s}
  BY <1>0, <1>1 DEF DeleteSeat
<1>3. \A t \in Seats : seat'[t] = IF t = s THEN Gone ELSE seat[t]
  BY <1>2 DEF CInv, SInv, IInv, TypeOK
<1>4. ~Held(s)'
  BY <1>1, <1>3 DEF Held, Gone, Unborn
<1>5. \A t \in Seats : t # s => (Held(t)' <=> Held(t)) /\ PlaceOf(t)' = PlaceOf(t)
  BY <1>3 DEF Held, PlaceOf
<1>6. Places' = Places \ {place}
  <2>1. ASSUME NEW y
        PROVE  y \in Places \ {place} <=> \E t \in Seats : Held(t)' /\ y = PlaceOf(t)'
    BY <1>1, <1>4, <1>5, PlacesRead, PlacesApart
  <2> QED BY <2>1, PlacesThen
<1>7. \A t \in Seats, d \in Events : t # s => (<<t, d>> \in grants' <=> <<t, d>> \in grants)
  BY <1>2
<1>8. LetIn' = Promise!Without(place)
  <2>1. {} \in SUBSET LiveChildren(seat[s].event)
    OBVIOUS
  <2>2. LetIn' = Promise!Without(place) \cup ({seat[s].person} \X {})
    BY <1>1, <1>3, <1>4, <1>7, <2>1, LetInChanges
  <2>3. {seat[s].person} \X {} = {}
    OBVIOUS
  <2> QED BY <2>2, <2>3
<1>9. place \in Places /\ place.event = req[r].e
  BY <1>1, PlaceType DEF PlaceOf
<1>10. Promise!Leave(place)
  BY <1>1, <1>6, <1>8, <1>9, EventsStill DEF Promise!Leave
<1> QED BY <1>9, <1>10 DEF CircleStep, Promise!Next

\* A grant that is still there is the person's only way in, and goes; one that is not
\* leaves everything as it is.
LEMMA GiveBackStep ==
    ASSUME CInv, NEW r \in Requests, LeaveGrant(r)
    PROVE  CircleStep
<1> DEFINE s == req[r].s
           e == req[r].e
<1>1. /\ s \in Seats /\ e \in Events /\ UNCHANGED <<parent, life, seat>>
      /\ grants' = grants \ {<<s, e>>}
  BY DEF CInv, SInv, IInv, Knows, LeaveGrant, At, AllOps
<1>2. CASE <<s, e>> \notin grants
  <2>1. grants' = grants
    BY <1>1, <1>2
  <2> QED BY <1>1, <2>1, RowsStill DEF CircleStep
<1>3. CASE <<s, e>> \in grants
  <2> DEFINE who == seat[s].person
  <2>1. Held(s) /\ seat[s].event = parent[e] /\ who \in People
    BY <1>1, <1>3 DEF CInv, Single, SInv, IInv, GrantsAreRooted, GrantsFollow
  <2>2. \A t \in Seats, d \in Events :
           <<t, d>> \in grants' <=> <<t, d>> \in grants /\ ~(t = s /\ d = e)
    BY <1>1
  <2>3. \A t \in Seats : Held(t) /\ seat[t].person = who /\ seat[t].event = parent[e] => t = s
    BY <1>1, <2>1 DEF CInv, Single
  <2>4. ASSUME NEW w \in People, NEW d \in Events
        PROVE  LetsIn(w, d)' <=> LetsIn(w, d) /\ ~(w = who /\ d = e)
    BY <1>1, <2>1, <2>2, <2>3 DEF LetsIn, Live, Held
  <2>5. /\ LetIn \ {<<who, e>>} \in SUBSET (People \X Events)
        /\ \A w \in People, d \in Events :
              <<w, d>> \in LetIn \ {<<who, e>>} <=> <<w, d>> \in LetIn /\ ~(w = who /\ d = e)
    BY LetInReads
  <2>6. LetIn' = LetIn \ {<<who, e>>}
    <3>1. \A w \in People, d \in Events :
             <<w, d>> \in LetIn \ {<<who, e>>} <=> LetsIn(w, d)'
      BY <2>4, <2>5, LetInReads
    <3> QED BY <2>5, <3>1, LetInThen
  <2>7. Promise!GiveBack(who, e)
    BY <1>1, <2>6, EventsStill, PlacesStill DEF Promise!GiveBack
  <2> QED BY <1>1, <2>1, <2>7 DEF CircleStep, Promise!Next
<1> QED BY <1>2, <1>3

LEMMA AcceptStep ==
    ASSUME CInv, NEW r \in Requests, AcceptWrite(r)
    PROVE  CircleStep
<1>0. PICK s \in Seats : s = req[r].s
  BY DEF CInv, SInv, IInv, Knows, AcceptWrite, At
<1> DEFINE place == PlaceOf(s)
           row == [seat[s] EXCEPT !.accepted = TRUE]
<1>1. /\ s \in Seats /\ Held(s) /\ Live(seat[s].event) /\ UNCHANGED <<parent, life, grants>>
      /\ seat[s] \in Seat
  BY <1>0 DEF CInv, Firm, SInv, IInv, TypeOK, Knows, AcceptWrite, At, AllOps
<1>2. seat' = [seat EXCEPT ![s] = row]
  BY <1>0, <1>1 DEF AcceptWrite
<1>3. /\ row.state = "held" /\ row.person = seat[s].person /\ row.event = seat[s].event
      /\ row.role = seat[s].role /\ row.surfaces = seat[s].surfaces /\ row.accepted = TRUE
  BY <1>1 DEF Seat, Held
<1> HIDE DEF row
<1>4. \A t \in Seats : seat'[t] = IF t = s THEN row ELSE seat[t]
  BY <1>2 DEF CInv, SInv, IInv, TypeOK
<1>5. Held(s)' /\ PlaceOf(s)' = [place EXCEPT !.accepted = TRUE]
  <2>1. seat'[s] = row
    BY <1>4
  <2>2. Held(s)'
    BY <1>3, <2>1 DEF Held
  <2> DEFINE then == [who |-> row.person, event |-> row.event, role |-> row.role,
                      surfaces |-> row.surfaces, accepted |-> row.accepted]
  <2>3. PlaceOf(s)' = then
    BY <2>1 DEF PlaceOf
  <2>4. place \in Promise!Place
    BY <1>1, PlaceType
  <2>5. place.who = seat[s].person /\ place.event = seat[s].event
        /\ place.role = seat[s].role /\ place.surfaces = seat[s].surfaces
        /\ place.accepted = seat[s].accepted
    BY DEF PlaceOf
  <2> HIDE DEF place
  <2>6. /\ [place EXCEPT !.accepted = TRUE] \in Promise!Place
        /\ [place EXCEPT !.accepted = TRUE].who = seat[s].person /\ [place EXCEPT !.accepted = TRUE].event = seat[s].event
        /\ [place EXCEPT !.accepted = TRUE].role = seat[s].role /\ [place EXCEPT !.accepted = TRUE].surfaces = seat[s].surfaces
        /\ [place EXCEPT !.accepted = TRUE].accepted = TRUE
    BY <1>1, <2>4, <2>5 DEF Promise!Place
  <2>7. /\ then.who = row.person /\ then.event = row.event /\ then.role = row.role
        /\ then.surfaces = row.surfaces /\ then.accepted = row.accepted
    OBVIOUS
  <2>8. /\ row.person \in People /\ row.event \in Events /\ row.role \in Roles
        /\ row.surfaces \in SUBSET Surfaces /\ row.accepted \in BOOLEAN
    BY <1>3, <2>4, <2>5, <2>6 DEF Promise!Place
  <2>9. then \in Promise!Place
    BY <2>8 DEF Promise!Place
  <2> HIDE DEF then
  <2>10. then = [place EXCEPT !.accepted = TRUE]
    BY <1>3, <2>6, <2>7, <2>9, SamePlace
  <2> QED BY <2>2, <2>3, <2>10
<1>6. Places' = (Places \ {place}) \cup {[place EXCEPT !.accepted = TRUE]}
  BY <1>1, <1>4, <1>5, PlaceChanges
<1>7. \A t \in Seats : /\ Held(t)' <=> Held(t)
                       /\ seat'[t].person = seat[t].person /\ seat'[t].event = seat[t].event
  BY <1>1, <1>3, <1>4 DEF Held
<1>8. \A w \in People, d \in Events : LetsIn(w, d)' <=> LetsIn(w, d)
  BY <1>1, <1>7 DEF LetsIn, Live
<1>9. LetIn' = LetIn
  BY <1>8, LetInReads, LetInThen
<1>10. place \in Places /\ place.event = seat[s].event /\ seat[s].event \in Events
  BY <1>1, PlaceType DEF PlaceOf, CInv, SInv, SeatsOnEvents
<1>11. Promise!Accept(place)
  BY <1>1, <1>6, <1>9, <1>10, EventsStill DEF Promise!Accept
<1> QED BY <1>10, <1>11 DEF CircleStep, Promise!Next

\* Every statement is an operation of the promise, or changes nothing that it tells of.
LEMMA CircleSteps ==
    ASSUME CInv, [Next]_vars
    PROVE  CircleStep
<1>1. CASE UNCHANGED <<parent, life, seat, grants>>
  BY <1>1, RowsStill DEF CircleStep
<1>2. ASSUME NEW e \in Events, CreateEvent(e) PROVE CircleStep
  BY <1>2, CreateStep DEF CircleStep, Promise!Next
<1>3. ASSUME NEW r \in Requests, NEW c \in Events, AddCreate(r, c) PROVE CircleStep
  <2>1. req[r].e \in Events
    BY <1>3 DEF CInv, SInv, IInv, Knows, AddCreate, At, AllOps
  <2> QED BY <1>3, <2>1, AddStep DEF CircleStep, Promise!Next
<1>4. ASSUME NEW r \in Requests, AttachWrite(r) PROVE CircleStep
  <2>1. req[r].e \in Events /\ req[r].c \in Events
    BY <1>4 DEF CInv, SInv, IInv, Knows, AttachWrite, At, AllOps
  <2> QED BY <1>4, <2>1, AttachStep DEF CircleStep, Promise!Next
<1>5. ASSUME NEW r \in Requests, DetachRevoke(r) \/ DetachUnlink(r) PROVE CircleStep
  <2>1. req[r].c \in Events
    BY <1>5 DEF CInv, SInv, IInv, Knows, DetachRevoke, DetachUnlink, At, AllOps
  <2> QED BY <1>5, <2>1, CloseStep, DetachStep DEF CircleStep, Promise!Next
<1>6. ASSUME NEW r \in Requests, DeleteWrite(r) PROVE CircleStep
  <2>1. PICK e \in Events : e = req[r].e
    BY <1>6 DEF CInv, SInv, IInv, Knows, DeleteWrite, At, AllOps
  <2>2. Promise!Delete(e) \/ UNCHANGED Promise!circle
    BY <1>6, <2>1, DeleteStep
  <2>3. Promise!Delete(e) => Promise!Next
    BY DEF Promise!Next
  <2> QED BY <2>2, <2>3 DEF CircleStep
<1>7. ASSUME NEW r \in Requests, Arrive(r) \/ Die(r)
      PROVE  UNCHANGED <<parent, life, seat, grants>>
  BY <1>7 DEF Arrive, Die, rows, AddRead, AttachRead, DetachRead, DeleteRead, InviteRead,
              UpdateRead, RemoveRead, LeaveRead, AcceptRead
<1>8. ASSUME NEW r \in Requests, Step(r)
      PROVE  \/ UNCHANGED <<parent, life, seat, grants>>
             \/ \E c \in Events : AddCreate(r, c)
             \/ AttachWrite(r) \/ DetachRevoke(r) \/ DetachUnlink(r) \/ DeleteWrite(r)
             \/ \E s \in Seats : InviteCreate(r, s)
             \/ UpdateWrite(r) \/ DeleteSeat(r) \/ LeaveGrant(r) \/ AcceptWrite(r)
  BY <1>8 DEF Step, rows, AttachFindChild, AttachCount, DetachFindChild, DeleteListChildren,
              InviteCheckGrants, InviteFindExisting, UpdateFindSeat, UpdateCheckGrants,
              RemoveFindSeat, LeaveFindSeat
<1>9. ASSUME NEW r \in Requests, Step(r) PROVE CircleStep
  BY <1>1, <1>3, <1>4, <1>5, <1>6, <1>8, <1>9, InviteStep, UpdateStep, LeaveStep, GiveBackStep,
     AcceptStep
<1>10. CASE UNCHANGED vars
  BY <1>1, <1>10 DEF vars, rows
<1> QED BY <1>1, <1>2, <1>7, <1>9, <1>10 DEF Next

LEMMA CircleInit == Init => Promise!Init
<1> SUFFICES ASSUME Init PROVE Promise!Init
  OBVIOUS
<1>1. \A e \in Events : life[e] = "unborn"
  BY DEF Init
<1>2. \A s \in Seats : ~Held(s)
  BY DEF Init, Unborn, Held
<1>3. {e \in Events : Live(e)} = {} /\ {e \in Events : life[e] = "deleted"} = {}
  BY <1>1 DEF Live
<1>4. Links = {} /\ LetIn = {} /\ Places = {}
  BY <1>1, <1>2 DEF Links, LetIn, Places, Live
<1> QED BY <1>3, <1>4 DEF Promise!Init

\* With handlers one after another, each possibly cut short between two statements, the
\* handlers of any number of events, people and seats implement Circle: whatever a
\* handler has checked some statements ago holds at the statement that writes.
THEOREM CircleIsImplemented == ASSUME Solo PROVE Spec => ImplementsCircle
<1>1. CInv /\ [Next]_vars => CInv'
  BY FirmNext
<1>2. CInv /\ [Next]_vars => [Promise!Next]_(Promise!circle)
  BY CircleSteps DEF CircleStep
<1> QED BY <1>1, <1>2, FirmInit, CircleInit, PTL DEF Spec, ImplementsCircle, Promise!Spec
=============================================================================
