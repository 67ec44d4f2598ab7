------------------------------ MODULE Accounts ------------------------------
(***************************************************************************)
(* Accounts: how UsersService follows the sign-in provider (Clerk), which  *)
(* tells of every change by a webhook, and the seats at events that repeat *)
(* the address of their holder.                                            *)
(*                                                                         *)
(* The provider repeats a webhook until it is answered and keeps no order  *)
(* between webhooks; a handler may fail between its two statements. A      *)
(* first visit (ensureFromClerk) makes the account when no webhook has.    *)
(* The handlers of different people, the visits and the requests about     *)
(* seats interleave statement by statement. Of ONE person one webhook is   *)
(* handled at a time, but for a deletion when Overlap says so.             *)
(*                                                                         *)
(* log[p] is what the provider has told of p, in order: the address after  *)
(* each change, NoMail when p is deleted. A webhook is <<p, n>>, the n-th  *)
(* entry. Three history variables: "seen" and "late" watch the order in    *)
(* which webhooks take effect, "stray" the seats given on an outdated read.*)
(***************************************************************************)
EXTENDS Naturals, Sequences

CONSTANTS
    Person, Address,
    Seat,       \* seats (EventMember), each at an event of its own
    Caller,     \* concurrent requests about seats
    NoMail, NoOne, NoSeat,
    Overlap,    \* TRUE: a deletion may come in between the statements of upsert()
    MaxEvents,  \* bound: changes the provider tells of one person
    MaxTold     \* bound: changes it tells of two people together

ASSUME NoneAssumption == NoMail \notin Address /\ NoOne \notin Person /\ NoSeat \notin Seat
ASSUME OverlapAssumption == Overlap \in BOOLEAN
ASSUME BoundAssumption == MaxEvents \in Nat \ {0} /\ MaxTold \in Nat

VARIABLES
    log,      \* [Person -> Seq(...)]  the provider's side
    inbox,    \* webhooks not answered yet
    row,      \* [Person -> ...]       User.deletedAt and User.email
    holder,   \* [Seat -> ...]         EventMember.userId
    seatMail, \* [Seat -> ...]         EventMember.email, NoMail: no such seat
    accepted, \* SUBSET Seat           EventMember.acceptedAt is set
    hook,     \* [Person -> ...]       the webhook of this person in hand
    visit,    \* [Person -> ...]       ensureFromClerk under way
    call,     \* [Caller -> ...]       invite or accept under way, and what it read
    seen,     \* [Person -> Nat]       the newest webhook that took effect
    late,     \* [Person -> BOOLEAN]   an older one took effect after a newer
    stray     \* SUBSET Seat  given to someone who no longer had the address

provider == <<log, inbox>>
seats == <<holder, seatMail, accepted, call, stray>>
vars == <<provider, row, seats, hook, visit, seen, late>>

Mails   == Address \cup {NoMail}
Webhook == Person \X (1..MaxEvents)

\* A deleted account keeps no address but a tombstone of its own: NoMail.
Row   == [is: {"none", "live", "dead"}, mail: Mails]
NoRow == [is |-> "none", mail |-> NoMail]
Hook  == [at: {"idle", "write", "seats"}, n: 0..MaxEvents]
NoHook == [at |-> "idle", n |-> 0]
Visit == [at: {"idle", "ask", "make"}, mail: Mails]
NoVisit == [at |-> "idle", mail |-> NoMail]
Held   == [at: {"idle", "create", "check", "take"}, who: Person \cup {NoOne},
           mail: Mails, seat: Seat \cup {NoSeat}]
Idle   == [at |-> "idle", who |-> NoOne, mail |-> NoMail, seat |-> NoSeat]

TypeOK ==
    /\ log \in [Person -> Seq(Mails)]
    /\ \A p \in Person : Len(log[p]) <= MaxEvents
    /\ inbox \subseteq Webhook
    /\ row \in [Person -> Row]
    /\ holder \in [Seat -> Person \cup {NoOne}]
    /\ seatMail \in [Seat -> Mails]
    /\ accepted \subseteq Seat
    /\ hook \in [Person -> Hook]
    /\ visit \in [Person -> Visit]
    /\ call \in [Caller -> Held]
    /\ stray \subseteq Seat
    /\ seen \in [Person -> 0..MaxEvents]
    /\ late \in [Person -> BOOLEAN]

Init ==
    /\ log = [p \in Person |-> <<>>]
    /\ inbox = {}
    /\ row = [p \in Person |-> NoRow]
    /\ holder = [s \in Seat |-> NoOne]
    /\ seatMail = [s \in Seat |-> NoMail]
    /\ accepted = {}
    /\ hook = [p \in Person |-> NoHook]
    /\ visit = [p \in Person |-> NoVisit]
    /\ call = [c \in Caller |-> Idle]
    /\ stray = {}
    /\ seen = [p \in Person |-> 0]
    /\ late = [p \in Person |-> FALSE]

-----------------------------------------------------------------------------
(* The provider. An address is one person's at a time, and free again.     *)

Newest(p)   == log[p][Len(log[p])]
SignedUp(p) == log[p] # <<>> /\ Newest(p) # NoMail
UsedBy(a)   == {p \in Person : SignedUp(p) /\ Newest(p) = a}

Tell(p, m) ==
    /\ Len(log[p]) < MaxEvents
    /\ \A q \in Person \ {p} : Len(log[p]) + Len(log[q]) < MaxTold
    /\ log' = [log EXCEPT ![p] = Append(@, m)]
    /\ inbox' = inbox \cup {<<p, Len(log[p]) + 1>>}
    /\ UNCHANGED <<row, seats, hook, visit, seen, late>>

\* user.created, user.updated
SetAddress(p, a) ==
    /\ log[p] = <<>> \/ SignedUp(p)
    /\ UsedBy(a) = {}
    /\ Tell(p, a)

\* user.deleted
Leave(p) == SignedUp(p) /\ Tell(p, NoMail)

-----------------------------------------------------------------------------
(* handleClerkWebhook(). A webhook is answered when its handler returns;   *)
(* the answer may be lost, and then the webhook comes again.               *)

MailOf(p, n) == log[p][n]

Answer(p, n, lost) == inbox' = IF lost THEN inbox ELSE inbox \ {<<p, n>>}

TakesEffect(p, n) ==
    /\ seen' = [seen EXCEPT ![p] = IF n > @ THEN n ELSE @]
    /\ late' = [late EXCEPT ![p] = @ \/ n < seen[p]]

\* Bug: an account that has the address already is taken for done.
UpsertRead_SkipsSame(p, n, lost) ==
    /\ <<p, n>> \in inbox
    /\ hook[p].at = "idle"
    /\ MailOf(p, n) # NoMail
    /\ IF row[p].is = "dead" \/ row[p].mail = MailOf(p, n)
       THEN /\ Answer(p, n, lost)
            /\ UNCHANGED hook
       ELSE /\ hook' = [hook EXCEPT ![p] = [at |-> "write", n |-> n]]
            /\ UNCHANGED inbox
    /\ UNCHANGED <<log, row, seats, visit, seen, late>>

\* Bug: the webhook is answered before it is handled.
UpsertRead_AnswersFirst(p, n, lost) ==
    /\ <<p, n>> \in inbox
    /\ hook[p].at = "idle"
    /\ MailOf(p, n) # NoMail
    /\ Answer(p, n, lost)
    /\ IF row[p].is = "dead"
       THEN UNCHANGED hook
       ELSE hook' = [hook EXCEPT ![p] = [at |-> "write", n |-> n]]
    /\ UNCHANGED <<log, row, seats, visit, seen, late>>

\* upsert() reads the row first, and leaves a deleted account alone.
UpsertRead(p, n, lost) ==
    /\ <<p, n>> \in inbox
    /\ hook[p].at = "idle"
    /\ MailOf(p, n) # NoMail
    /\ IF row[p].is = "dead"
       THEN /\ Answer(p, n, lost)
            /\ UNCHANGED hook
       ELSE /\ hook' = [hook EXCEPT ![p] = [at |-> "write", n |-> n]]
            /\ UNCHANGED inbox
    /\ UNCHANGED <<log, row, seats, visit, seen, late>>

\* User.email is unique.
Free(p, a) == \A q \in Person \ {p} : row[q].mail # a

Written(r, a) == [is |-> IF r.is = "none" THEN "live" ELSE r.is, mail |-> a]

UpsertWrite(p) ==
    LET n == hook[p].n IN
    /\ hook[p].at = "write"
    /\ Free(p, MailOf(p, n))
    /\ row' = [row EXCEPT ![p] = Written(@, MailOf(p, n))]
    /\ hook' = [hook EXCEPT ![p].at = "seats"]
    /\ TakesEffect(p, n)
    /\ UNCHANGED <<provider, seats, visit>>

\* The seats follow in a second statement.
UpsertSeats(p, lost) ==
    LET n == hook[p].n IN
    /\ hook[p].at = "seats"
    /\ seatMail' = [s \in Seat |-> IF holder[s] = p THEN MailOf(p, n) ELSE seatMail[s]]
    /\ stray' = {s \in stray : holder[s] # p}
    /\ hook' = [hook EXCEPT ![p] = NoHook]
    /\ Answer(p, n, lost)
    /\ UNCHANGED <<log, row, holder, accepted, call, visit, seen, late>>

\* A statement throws, the address is another account's, or the process
\* restarts: the provider gets no answer.
HookFails(p) ==
    /\ hook[p].at # "idle"
    /\ hook' = [hook EXCEPT ![p] = NoHook]
    /\ UNCHANGED <<provider, row, seats, visit, seen, late>>

\* Bug: the address is emptied; the column must have one.
SoftDelete_Empties(p, n, lost) ==
    /\ <<p, n>> \in inbox
    /\ hook[p].at = "idle"
    /\ MailOf(p, n) = NoMail
    /\ row' = [row EXCEPT ![p] = IF @.is = "live" THEN [is |-> "dead", mail |-> NoOne] ELSE @]
    /\ TakesEffect(p, n)
    /\ Answer(p, n, lost)
    /\ UNCHANGED <<log, seats, hook, visit>>

\* softDelete(): unknown and deleted accounts are answered for as they are;
\* the rest is one transaction. The seats stay as they are.
SoftDelete(p, n, lost) ==
    /\ <<p, n>> \in inbox
    /\ Overlap \/ hook[p].at = "idle"
    /\ MailOf(p, n) = NoMail
    /\ row' = [row EXCEPT ![p] = IF @.is = "live" THEN [is |-> "dead", mail |-> NoMail] ELSE @]
    /\ TakesEffect(p, n)
    /\ Answer(p, n, lost)
    /\ UNCHANGED <<log, seats, hook, visit>>

-----------------------------------------------------------------------------
(* ensureFromClerk(), on a visit of someone who is signed in: look for the *)
(* row; when there is none ask the provider, and make it. A row that is    *)
(* there, live or deleted, ends the visit at once.                         *)

VisitReads(p) ==
    /\ SignedUp(p)
    /\ visit[p].at = "idle"
    /\ row[p].is = "none"
    /\ visit' = [visit EXCEPT ![p] = [at |-> "ask", mail |-> NoMail]]
    /\ UNCHANGED <<provider, row, seats, hook, seen, late>>

VisitAsks(p) ==
    /\ visit[p].at = "ask"
    /\ SignedUp(p)
    /\ visit' = [visit EXCEPT ![p] = [at |-> "make", mail |-> Newest(p)]]
    /\ UNCHANGED <<provider, row, seats, hook, seen, late>>

\* The upsert of a visit changes nothing of a row that is there by now.
VisitMakes(p) ==
    /\ visit[p].at = "make"
    /\ \/ /\ row[p].is = "none"
          /\ Free(p, visit[p].mail)
          /\ row' = [row EXCEPT ![p] = [is |-> "live", mail |-> visit[p].mail]]
       \/ /\ row[p].is # "none"
          /\ UNCHANGED row
    /\ visit' = [visit EXCEPT ![p] = NoVisit]
    /\ UNCHANGED <<provider, seats, hook, seen, late>>

VisitFails(p) ==
    /\ visit[p].at # "idle"
    /\ visit' = [visit EXCEPT ![p] = NoVisit]
    /\ UNCHANGED <<provider, row, seats, hook, seen, late>>

-----------------------------------------------------------------------------
(* Seats. invite() looks for the account that has the address, and then    *)
(* makes the seat; accept() reads the account of who brings the link, then *)
(* the seat, and binds it by its id alone. Accounts may move in between.   *)

Begin(c, held) ==
    /\ call[c].at = "idle"
    /\ call' = [call EXCEPT ![c] = held]

AccountsWith(a) == {p \in Person : row[p].mail = a}

InviteRead(c, a) ==
    /\ \E s \in Seat : seatMail[s] = NoMail
    /\ \E p \in IF AccountsWith(a) = {} THEN {NoOne} ELSE AccountsWith(a) :
          Begin(c, [at |-> "create", who |-> p, mail |-> a, seat |-> NoSeat])
    /\ UNCHANGED <<provider, row, holder, seatMail, accepted, stray, hook, visit, seen, late>>

\* A seat that bears a is p's from now on; has p moved on, it is a stray.
Given(s, p, a) ==
    /\ holder' = [holder EXCEPT ![s] = p]
    /\ stray' = IF p # NoOne /\ row[p].mail # a THEN stray \cup {s} ELSE stray \ {s}

InviteCreate(c, s) ==
    /\ call[c].at = "create"
    /\ seatMail[s] = NoMail
    /\ seatMail' = [seatMail EXCEPT ![s] = call[c].mail]
    /\ Given(s, call[c].who, call[c].mail)
    /\ call' = [call EXCEPT ![c] = Idle]
    /\ UNCHANGED <<provider, row, accepted, hook, visit, seen, late>>

\* The link of s is brought by p. An accepted seat stays so, and nothing comes
\* of bringing its link.
AcceptRead(c, p, s) ==
    /\ row[p].is = "live"
    /\ seatMail[s] # NoMail
    /\ s \notin accepted
    /\ Begin(c, [at |-> "check", who |-> p, mail |-> row[p].mail, seat |-> s])
    /\ UNCHANGED <<provider, row, holder, seatMail, accepted, stray, hook, visit, seen, late>>

\* Bug: the addresses are not compared.
AcceptCheck_AnySeat(c) ==
    /\ call[c].at = "check"
    /\ call[c].seat \notin accepted
    /\ call' = [call EXCEPT ![c] = [@ EXCEPT !.at = "take", !.mail = NoMail]]
    /\ UNCHANGED <<provider, row, holder, seatMail, accepted, stray, hook, visit, seen, late>>

AcceptCheck(c) ==
    /\ call[c].at = "check"
    /\ seatMail[call[c].seat] = call[c].mail
    /\ call[c].seat \notin accepted
    /\ call' = [call EXCEPT ![c] = [@ EXCEPT !.at = "take", !.mail = NoMail]]
    /\ UNCHANGED <<provider, row, holder, seatMail, accepted, stray, hook, visit, seen, late>>

AcceptWrite(c) ==
    LET s == call[c].seat IN
    /\ call[c].at = "take"
    /\ Given(s, call[c].who, seatMail[s])
    /\ accepted' = accepted \cup {s}
    /\ call' = [call EXCEPT ![c] = Idle]
    /\ UNCHANGED <<provider, row, seatMail, hook, visit, seen, late>>

\* A request is refused, fails or is cut off.
CallFails(c) ==
    /\ call[c].at # "idle"
    /\ call' = [call EXCEPT ![c] = Idle]
    /\ UNCHANGED <<provider, row, holder, seatMail, accepted, stray, hook, visit, seen, late>>

-----------------------------------------------------------------------------

Next ==
    \/ \E p \in Person, a \in Address : SetAddress(p, a)
    \/ \E p \in Person : Leave(p)
    \/ \E w \in inbox, lost \in BOOLEAN : UpsertRead(w[1], w[2], lost)
    \/ \E p \in Person : UpsertWrite(p)
    \/ \E p \in Person, lost \in BOOLEAN : UpsertSeats(p, lost)
    \/ \E p \in Person : HookFails(p)
    \/ \E w \in inbox, lost \in BOOLEAN : SoftDelete(w[1], w[2], lost)
    \/ \E p \in Person : VisitReads(p) \/ VisitAsks(p) \/ VisitMakes(p) \/ VisitFails(p)
    \/ \E c \in Caller :
          \/ \E a \in Address : InviteRead(c, a)
          \/ \E s \in Seat : InviteCreate(c, s) \/ \E p \in Person : AcceptRead(c, p, s)
          \/ AcceptCheck(c) \/ AcceptWrite(c) \/ CallFails(c)

Spec == Init /\ [][Next]_vars

-----------------------------------------------------------------------------
(* What is promised.                                                       *)

Settled(p) == hook[p].at = "idle" /\ \A w \in inbox : w[1] # p

\* A deleted account never holds an address again, however late an older
\* webhook comes and whatever a visit was about to write (upsert() :65-69,
\* `update: {}` :165); otherwise nobody could sign up with that address.
DeadHoldsNoAddress == \A p \in Person : row[p].is = "dead" => row[p].mail = NoMail

\* Once every webhook of a person has been answered, in whatever order and
\* after whatever failures between the two statements of upsert() (:71-93),
\* the seats of a live account bear the address the account has. The one
\* exception is a seat that invite() or accept() gave to someone whose account
\* had moved since they read it, until a webhook of theirs comes again.
SeatsFollow ==
    \A p \in Person, s \in Seat :
        Settled(p) /\ row[p].is = "live" /\ holder[s] = p /\ seatMail[s] # row[p].mail
            => s \in stray

\* Without the exception, which does not hold: invite() reads the account
\* (event-members.service.ts:222), upsert() moves it and its seats, and invite()
\* makes the seat with the old address (:226).
NoStrays ==
    \A p \in Person, s \in Seat :
        Settled(p) /\ row[p].is = "live" /\ holder[s] = p => seatMail[s] = row[p].mail

\* Once every webhook of a person has been answered, and if none took effect
\* after a newer one, the account is what the provider says: the same
\* address, or deleted. A visit that asked the provider long ago neither
\* takes the address back nor brings the account back (ensureFromClerk() :132).
AccountFollows ==
    \A p \in Person :
        Settled(p) /\ ~late[p] /\ log[p] # <<>> =>
            IF SignedUp(p) THEN row[p] = [is |-> "live", mail |-> Newest(p)]
                           ELSE row[p].is = "dead"


-----------------------------------------------------------------------------
(* The abstract specification                                              *)

Told(p) == {log[p][n] : n \in 1..Len(log[p])} \ {NoMail}
Gone    == {p \in Person : log[p] # <<>> /\ Newest(p) = NoMail}

\* Whose address it is that a request has read, and who is about to take what.
Found == {<<call[c].who, call[c].mail>> : c \in {d \in Caller : call[d].at \in {"create", "check"}}}
Fits  == {<<call[c].who, call[c].seat>> : c \in {d \in Caller : call[d].at = "take"}}

Reg == INSTANCE Register WITH
    told    <- [p \in Person |-> Told(p)],
    left    <- Gone,
    account <- row,
    bears   <- seatMail,
    taken   <- accepted,
    found   <- Found,
    fits    <- Fits

\* Whatever is lost, repeated, reordered or failing half way (upsert() :64-95,
\* softDelete() :97, ensureFromClerk() :130), accounts are opened, move and
\* close as Register says: with addresses that were told, that nobody else
\* has, closed for good, and only when the person left. And a seat goes only to
\* who had its address when invite() or accept() looked.
ImplementsRegister == Reg!Spec
=============================================================================
