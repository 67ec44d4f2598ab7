------------------------------ MODULE GuestList ------------------------------
(***************************************************************************)
(* The guest list of one event: GuestsService, and the door that           *)
(* EventSitesService.rsvp() opens on it.                                   *)
(*                                                                         *)
(* Nothing in the database keeps two guests of an event from having one    *)
(* address: importGuests() and upsertOpenGuest() look first and write      *)
(* later. An invite row is unique per guest and lives and dies with it,    *)
(* and its token is the link and the code the guest is given.              *)
(*                                                                         *)
(* A handler is a Caller; each await between what it reads and what it     *)
(* writes is a step. "crossed" tells that something was written by another *)
(* since the handler began. The token of an invite is the count of the     *)
(* invites its guest ever had.                                             *)
(***************************************************************************)
EXTENDS Naturals, FiniteSets

CONSTANTS
    Guest,     \* ids of guest rows, reused once nothing refers to them
    Mail,      \* addresses, folded as the code folds them
    Caller,    \* concurrent requests of hosts and guests
    NoMail, NoGuest,
    ViaParent, \* TRUE: the site is the parent's, which includes this event
    MaxEdits   \* bound: changes of the site or deletion of the event

ASSUME NoneAssumption == NoMail \notin Mail /\ NoGuest \notin Guest
ASSUME FlagAssumption == ViaParent \in BOOLEAN
ASSUME BoundAssumption == MaxEdits \in Nat

VARIABLES
    listed,  \* SUBSET Guest        rows of Guest
    mail,    \* [Guest -> ...]      Guest.email
    token,   \* [Guest -> Nat]      GuestInvite.token, 0 without a row
    expiry,  \* [Guest -> ...]      GuestInvite.expiresAt against the clock
    answer,  \* [Guest -> ...]      GuestInvite.rsvpStatus
    handed,  \* [Guest -> Nat]      the token first given to the guest
    door,    \* what the site takes for this event
    deleted, \* Event.deletedAt
    edits,
    signed,  \* SUBSET Guest        who a website session may name
    call     \* [Caller -> ...]     the handler and what it has read

rows == <<listed, mail, token, expiry, answer, handed>>
vars == <<rows, door, deleted, edits, signed, call>>

Answers == {"ATTENDING", "DECLINED"}
Stages  == {"idle", "import", "unlock", "send", "find", "seat", "invite", "answer"}

\* What a handler holds: the guest it found and its token, the addresses it
\* was given or kept, the answer it brings.
Held  == [at: Stages, guest: Guest \cup {NoGuest}, token: Nat, mails: SUBSET Mail,
          says: Answers \cup {"PENDING"}, crossed: BOOLEAN]
Idle  == [at |-> "idle", guest |-> NoGuest, token |-> 0, mails |-> {},
          says |-> "PENDING", crossed |-> FALSE]

TypeOK ==
    /\ listed \subseteq Guest
    /\ mail \in [Guest -> Mail \cup {NoMail}]
    /\ token \in [Guest -> Nat]
    /\ expiry \in [Guest -> {"never", "ahead", "past"}]
    /\ answer \in [Guest -> Answers \cup {"PENDING"}]
    /\ handed \in [Guest -> Nat]
    /\ door \in {"closed", "INVITED_ONLY", "OPEN"}
    /\ deleted \in BOOLEAN
    /\ edits \in Nat
    /\ signed \subseteq listed
    /\ call \in [Caller -> Held]
    /\ \A g \in Guest \ listed : token[g] = 0

Init ==
    /\ listed = {}
    /\ mail = [g \in Guest |-> NoMail]
    /\ token = [g \in Guest |-> 0]
    /\ expiry = [g \in Guest |-> "never"]
    /\ answer = [g \in Guest |-> "PENDING"]
    /\ handed = [g \in Guest |-> 0]
    /\ door \in {"closed", "INVITED_ONLY", "OPEN"}
    /\ deleted = FALSE
    /\ edits = 0
    /\ signed = {}
    /\ call = [c \in Caller |-> Idle]

-----------------------------------------------------------------------------
(* Requests                                                                *)

Begin(c, held) ==
    /\ call[c].at = "idle"
    /\ call' = [call EXCEPT ![c] = held]

\* A request reads on, or ends without writing anything.
Moves(c, held) == call' = [call EXCEPT ![c] = held]

\* A write: every other request under way is crossed by it. unlockLink and
\* sendInvite are not marked, nothing is said of them.
Crossed(d) == IF call[d].at \in {"idle", "unlock", "send"} THEN call[d] ELSE [call[d] EXCEPT !.crossed = TRUE]
Writes(c, held) == call' = [d \in Caller |-> IF d = c THEN held ELSE Crossed(d)]
WritesAtOnce == call' = [d \in Caller |-> Crossed(d)]

Unused(g) == g \notin listed /\ \A c \in Caller : call[c].guest # g

\* The link or code is shown to the host or sent.
HandOut(g, t) == handed' = [handed EXCEPT ![g] = IF @ = 0 THEN t ELSE @]

InviteIsActive(g) == token[g] > 0 /\ expiry[g] # "past"

-----------------------------------------------------------------------------
(* The host: GuestsService                                                 *)

\* New rows for these addresses, one each.
Created(new, address) ==
    /\ listed' = listed \cup new
    /\ mail' = [g \in Guest |-> IF g \in new THEN address[g] ELSE mail[g]]

AddGuest(m) ==
    /\ ~deleted
    /\ \E g \in Guest : Unused(g) /\ Created({g}, [h \in {g} |-> m])
    /\ WritesAtOnce
    /\ UNCHANGED <<token, expiry, answer, handed, door, deleted, edits>>

\* The addresses of the guests there are.
Known == {mail[g] : g \in listed}

\* importGuests: rows whose address is known are skipped, and so are rows
\* whose name is, which may be any of them.
ImportRead(c) ==
    /\ ~deleted
    /\ \E list \in SUBSET Mail : \E new \in SUBSET (list \ Known) :
          /\ new # {}
          /\ Begin(c, [Idle EXCEPT !.at = "import", !.mails = new])
    /\ UNCHANGED <<rows, door, deleted, edits>>

ImportCreate(c) ==
    /\ call[c].at = "import"
    /\ \E new \in SUBSET {g \in Guest : Unused(g)} :
       \E address \in [new -> call[c].mails] :
          /\ \A m \in call[c].mails : \E g \in new : address[g] = m
          /\ \A g, h \in new : address[g] = address[h] => g = h
          /\ Created(new, address)
    /\ Writes(c, Idle)
    /\ UNCHANGED <<token, expiry, answer, handed, door, deleted, edits>>

UpdateGuest(g, m) ==
    /\ ~deleted
    /\ g \in listed
    /\ mail' = [mail EXCEPT ![g] = m]
    /\ WritesAtOnce
    /\ UNCHANGED <<listed, token, expiry, answer, handed, door, deleted, edits>>

\* Slip: the invite outlives its guest.
RemoveGuest_KeepsInvite(g) ==
    /\ ~deleted
    /\ g \in listed
    /\ listed' = listed \ {g}
    /\ mail' = [mail EXCEPT ![g] = NoMail]
    /\ WritesAtOnce
    /\ UNCHANGED <<token, expiry, answer, handed, door, deleted, edits>>

\* The invite goes with the guest.
RemoveGuest(g) ==
    /\ ~deleted
    /\ g \in listed
    /\ listed' = listed \ {g}
    /\ mail' = [mail EXCEPT ![g] = NoMail]
    /\ token' = [token EXCEPT ![g] = 0]
    /\ expiry' = [expiry EXCEPT ![g] = "never"]
    /\ answer' = [answer EXCEPT ![g] = "PENDING"]
    /\ handed' = [handed EXCEPT ![g] = 0]
    /\ WritesAtOnce
    /\ UNCHANGED <<door, deleted, edits>>

\* unlockLink returns the invite it has read, whatever has become of it.
UnlockRead(c, g) ==
    /\ ~deleted
    /\ g \in listed
    /\ IF token[g] > 0
       THEN /\ call[c].at = "idle"
            /\ HandOut(g, token[g])
            /\ UNCHANGED call
       ELSE /\ Begin(c, [Idle EXCEPT !.at = "unlock", !.guest = g])
            /\ UNCHANGED handed
    /\ UNCHANGED <<listed, mail, token, expiry, answer, door, deleted, edits>>

\* A new invite row for g.
Invited(g, until) ==
    /\ token' = [token EXCEPT ![g] = @ + 1]
    /\ expiry' = [expiry EXCEPT ![g] = until]
    /\ answer' = [answer EXCEPT ![g] = "PENDING"]

\* Slip: an invite that another request has created is replaced.
UnlockCreate_Replaces(c) ==
    /\ call[c].at = "unlock"
    /\ LET g == call[c].guest IN
       IF g \in listed
       THEN /\ Invited(g, "never")
            /\ HandOut(g, token[g] + 1)
            /\ Writes(c, Idle)
       ELSE Moves(c, Idle) /\ UNCHANGED <<token, expiry, answer, handed>>
    /\ UNCHANGED <<listed, mail, door, deleted, edits>>

\* guestId is unique and a foreign key: the create fails if the guest has an
\* invite by now, or is gone.
UnlockCreate(c) ==
    /\ call[c].at = "unlock"
    /\ LET g == call[c].guest IN
       IF g \in listed /\ token[g] = 0
       THEN /\ Invited(g, "never")
            /\ HandOut(g, token[g] + 1)
            /\ Writes(c, Idle)
       ELSE Moves(c, Idle) /\ UNCHANGED <<token, expiry, answer, handed>>
    /\ UNCHANGED <<listed, mail, door, deleted, edits>>

SendRead(c, g) ==
    /\ ~deleted
    /\ g \in listed
    /\ Begin(c, [Idle EXCEPT !.at = "send", !.guest = g])
    /\ UNCHANGED <<rows, door, deleted, edits>>

\* Slip: a guest who is invited again starts over.
SendUpsert_StartsOver(c) ==
    /\ call[c].at = "send"
    /\ LET g == call[c].guest IN
       IF g \in listed
       THEN /\ token' = [token EXCEPT ![g] = IF @ = 0 THEN 1 ELSE @]
            /\ expiry' = [expiry EXCEPT ![g] = "ahead"]
            /\ answer' = [answer EXCEPT ![g] = "PENDING"]
            /\ HandOut(g, token'[g])
            /\ Writes(c, Idle)
       ELSE Moves(c, Idle) /\ UNCHANGED <<token, expiry, answer, handed>>
    /\ UNCHANGED <<listed, mail, door, deleted, edits>>

\* The upsert keeps the token and the answer of the invite there is and gives
\* it 30 days; the link that is sent is the one of the row it returns.
SendUpsert(c) ==
    /\ call[c].at = "send"
    /\ LET g == call[c].guest IN
       IF g \in listed
       THEN /\ IF token[g] = 0
               THEN Invited(g, "ahead")
               ELSE expiry' = [expiry EXCEPT ![g] = "ahead"] /\ UNCHANGED <<token, answer>>
            /\ HandOut(g, token'[g])
            /\ Writes(c, Idle)
       ELSE Moves(c, Idle) /\ UNCHANGED <<token, expiry, answer, handed>>
    /\ UNCHANGED <<listed, mail, door, deleted, edits>>

-----------------------------------------------------------------------------
(* The guest: the link, and the RSVP door of a site                        *)

\* submitRsvp: a token that was handed out, of an event that is there.
AnswerLink(c, g, says) ==
    /\ ~deleted
    /\ handed[g] > 0
    /\ handed[g] = token[g]
    /\ InviteIsActive(g)
    /\ Begin(c, [Idle EXCEPT !.at = "answer", !.guest = g, !.token = token[g], !.says = says])
    /\ UNCHANGED <<rows, door, deleted, edits>>

\* Slip: publishedSite looks at the status of the site only.
SiteIsUp_StatusOnly == door # "closed"

\* publishedSite looks at the event whose site it is.
SiteIsUp == door # "closed" /\ (ViaParent \/ ~deleted)

\* createSession writes nothing and may run at any time: it signs in everyone
\* on the list who has the address that is given, invited or not, or the guest
\* whose code is brought while it is good. The session names them for 30 days,
\* whatever becomes of the address and the code, but nobody once removed.
Findable == {g \in listed :
    /\ SiteIsUp
    /\ mail[g] # NoMail \/ (InviteIsActive(g) /\ handed[g] = token[g])}

SignsIn == signed' = (signed \cup Findable') \cap listed'

\* Who a request to rsvp() is taken for, and the address it was found by: a
\* guest its session names, whatever address or code comes along; without a
\* session the guest of the code, or any guest who has the address.
TakenFor(g, found) ==
    \/ found = {} /\ g \in signed
    \/ found = {} /\ handed[g] = token[g]
    \/ found \in SUBSET Mail /\ found = {mail[g]}

\* rsvp() for an invited-only event takes an active invite. What it reads
\* before the answer is written is one step.
AnswerInvited(c, g, says) ==
    /\ SiteIsUp
    /\ door = "INVITED_ONLY"
    /\ g \in listed
    /\ InviteIsActive(g)
    /\ \E found \in {{}, {mail[g]}} :
          /\ TakenFor(g, found)
          /\ Begin(c, [Idle EXCEPT !.at = "answer", !.guest = g, !.token = token[g],
                                   !.mails = found, !.says = says])
    /\ UNCHANGED <<rows, door, deleted, edits>>

\* rsvp() for an open event asks for an address.
AnswerOpen(c, m, says) ==
    /\ SiteIsUp
    /\ door = "OPEN"
    /\ Begin(c, [Idle EXCEPT !.at = "find", !.mails = {m}, !.says = says])
    /\ UNCHANGED <<rows, door, deleted, edits>>

\* Slip: only guests who have an invite are found.
OpenFind_Invited(c) ==
    /\ call[c].at = "find"
    /\ LET found == {g \in listed : mail[g] \in call[c].mails /\ token[g] > 0} IN
       \/ found = {} /\ Moves(c, [call[c] EXCEPT !.at = "seat"])
       \/ \E g \in found : Moves(c, [call[c] EXCEPT !.at = "answer", !.guest = g,
                                                    !.token = token[g]])
    /\ UNCHANGED <<rows, door, deleted, edits>>

\* upsertOpenGuest: findFirst names no order, any guest with the address.
OpenFind(c) ==
    /\ call[c].at = "find"
    /\ LET found == {g \in listed : mail[g] \in call[c].mails} IN
       \/ found = {} /\ Moves(c, [call[c] EXCEPT !.at = "seat"])
       \/ \E g \in found :
             Moves(c, [call[c] EXCEPT !.at = IF token[g] > 0 THEN "answer" ELSE "invite",
                                      !.guest = g, !.token = token[g]])
    /\ UNCHANGED <<rows, door, deleted, edits>>

OpenSeat(c) ==
    /\ call[c].at = "seat"
    /\ \E g \in Guest : \E m \in call[c].mails :
          /\ Unused(g)
          /\ Created({g}, [h \in {g} |-> m])
          /\ Invited(g, "never")
          /\ Writes(c, [call[c] EXCEPT !.at = "answer", !.guest = g, !.token = token[g] + 1])
    /\ UNCHANGED <<handed, door, deleted, edits>>

OpenInvite(c) ==
    /\ call[c].at = "invite"
    /\ LET g == call[c].guest IN
       IF g \in listed /\ token[g] = 0
       THEN /\ Invited(g, "never")
            /\ Writes(c, [call[c] EXCEPT !.at = "answer", !.token = token[g] + 1])
       ELSE Moves(c, Idle) /\ UNCHANGED <<token, expiry, answer>>
    /\ UNCHANGED <<listed, mail, handed, door, deleted, edits>>

\* The update by token or by invite id fails when the row is gone.
Stored(c) == LET g == call[c].guest IN
    call[c].at = "answer" /\ g \in listed /\ token[g] = call[c].token

WriteRsvp(c) ==
    /\ call[c].at = "answer"
    /\ IF Stored(c)
       THEN answer' = [answer EXCEPT ![call[c].guest] = call[c].says] /\ Writes(c, Idle)
       ELSE UNCHANGED answer /\ Moves(c, Idle)
    /\ UNCHANGED <<listed, mail, token, expiry, handed, door, deleted, edits>>

-----------------------------------------------------------------------------
(* The surroundings                                                        *)

Expire(g) ==
    /\ expiry[g] = "ahead"
    /\ expiry' = [expiry EXCEPT ![g] = "past"]
    /\ WritesAtOnce
    /\ UNCHANGED <<listed, mail, token, answer, handed, door, deleted, edits>>

Edit ==
    /\ edits < MaxEdits
    /\ edits' = edits + 1
    /\ WritesAtOnce
    /\ UNCHANGED rows

\* Publishing, unpublishing, the access mode and the RSVP section.
SetDoor == Edit /\ door' \in {"closed", "INVITED_ONLY", "OPEN"} /\ UNCHANGED deleted

\* softDelete leaves guests, invites, the site and its includes alone.
SoftDelete == Edit /\ ~deleted /\ deleted' = TRUE /\ UNCHANGED door

-----------------------------------------------------------------------------
HostStep ==
    \/ \E m \in Mail \cup {NoMail} : AddGuest(m)
    \/ \E g \in Guest : (\E m \in Mail \cup {NoMail} : UpdateGuest(g, m)) \/ RemoveGuest(g)

Step(c) ==
    \/ ImportRead(c) \/ ImportCreate(c)
    \/ \E g \in Guest : UnlockRead(c, g) \/ SendRead(c, g)
    \/ UnlockCreate(c) \/ SendUpsert(c)
    \/ \E says \in Answers :
          \/ \E g \in Guest : AnswerLink(c, g, says) \/ AnswerInvited(c, g, says)
          \/ \E m \in Mail : AnswerOpen(c, m, says)
    \/ OpenFind(c) \/ OpenSeat(c) \/ OpenInvite(c) \/ WriteRsvp(c)

Next ==
    /\ \/ HostStep
       \/ \E c \in Caller : Step(c)
       \/ (\E g \in Guest : Expire(g)) \/ SetDoor \/ SoftDelete
    /\ SignsIn

Spec == Init /\ [][Next]_vars

-----------------------------------------------------------------------------
(* Properties                                                              *)

\* Rows made by a request that looks for the address first.
Adding(c) == call[c].at \in {"import", "seat"}

\* An import and an open RSVP never give an event a second guest with an
\* address it has, unless something was written since they looked.
NoTwinCreated ==
    [][\A c \in Caller : Adding(c) /\ ~call[c].crossed /\ call'[c].at # call[c].at =>
          \A g \in listed' \ listed : \A h \in listed' \ {g} : mail'[h] # mail'[g]]_vars

\* A link or code that a guest was given stays the guest's own for as long as
\* the guest is on the list: no order of unlockLink, sendInvite and open RSVPs
\* makes it point nowhere.
LinkStaysGood == \A g \in Guest : handed[g] > 0 => g \in listed /\ token[g] = handed[g]

\* Inviting a guest again, or looking up the link, loses no answer: once given
\* it is only ever replaced by another, as long as the guest is on the list.
AnswerIsKept ==
    [][\A g \in listed \cap listed' : answer[g] # "PENDING" => answer'[g] # "PENDING"]_vars

\* An RSVP that nothing crossed is stored, and if its guest was found by an
\* address then with one who has it. With a session nobody is looked for: the
\* guest it named up to 30 days ago answers, whoever has the address by now.
RsvpIsStored ==
    \A c \in Caller : call[c].at = "answer" /\ ~call[c].crossed =>
        /\ Stored(c)
        /\ call[c].mails # {} => mail[call[c].guest] \in call[c].mails

\* A request that nothing crossed brings no answer to a deleted event.
DeletedTakesNoAnswer ==
    \A c \in Caller : call[c].at = "answer" /\ ~call[c].crossed => ~deleted

-----------------------------------------------------------------------------
(* The abstract specification                                              *)

Standing(g) == IF g \notin listed THEN "absent"
               ELSE IF token[g] = 0 THEN "listed"
               ELSE IF answer[g] = "PENDING" THEN "invited" ELSE answer[g]

\* The answers that requests are about to write where they can be written.
Underway == {<<call[c].guest, call[c].says>> : c \in {d \in Caller : Stored(d)}}

Book == INSTANCE InviteBook WITH
    standing <- [g \in Guest |-> Standing(g)],
    linked   <- {g \in Guest : handed[g] > 0 /\ token[g] = handed[g]},
    asked    <- Underway

\* However requests overlap, what comes of them is what InviteBook allows:
\* each takes effect at once. One invite a guest, whose link is never another;
\* an answer lands in the invite it was given to or nowhere; a guest's removal
\* leaves nothing for whoever is added next.
ImplementsBook == Book!Spec
=============================================================================
