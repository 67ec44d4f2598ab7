--------------------------- MODULE InquiryThread ---------------------------
(***************************************************************************)
(* One inquiry between a host and a vendor: the row in `inquiries`, its    *)
(* messages and quotes, and the handlers of InquiriesService that change   *)
(* them (src/apps/api/src/inquiries/inquiries.service.ts).                 *)
(*                                                                         *)
(* A handler is an async function that awaits one SQL statement after      *)
(* another, takes no lock and writes back what it computed from rows it    *)
(* read earlier.  Postgres runs at READ COMMITTED, so a statement (or one  *)
(* $transaction batch) is an atomic step and anything may happen between   *)
(* two of them.  `req[r]` is the local state of the handler in slot r; the *)
(* number of slots bounds how many handlers are in flight, and with a      *)
(* single slot the handlers run one after another.                         *)
(*                                                                         *)
(* Data the properties do not distinguish is abstracted: a quote's amount  *)
(* and currency are identified with the quote's message, timestamps with   *)
(* "set or not", and the five minute edit window with a flag that time     *)
(* may raise at any moment.                                                *)
(*                                                                         *)
(* A definition named X_Y is a seeded fault: X with the one bug Y names.   *)
(* No behaviour of this specification uses it; substituted for X, it shows *)
(* that a property can tell the code from the bug.                         *)
(***************************************************************************)
EXTENDS FiniteSets

CONSTANTS Messages,   \* message ids; bounds how many messages are ever posted
          Requests,   \* handler slots
          Kinds,      \* the message kinds clients post
          Calls,      \* the operations clients call
          Faults,     \* whether a handler may die between two statements
          NoMessage

AllKinds == {"TEXT", "INSPIRATION", "QUOTE", "LINK"}

AllCalls == {"post", "accept", "reject", "book", "decide", "edit", "unsend", "read"}

ASSUME ThreadAssumption ==
    /\ NoMessage \notin Messages
    /\ Kinds \subseteq AllKinds
    /\ Calls \subseteq AllCalls
    /\ Faults \in BOOLEAN

VARIABLES status,        \* inquiry.status
          deal,          \* inquiry.quotedAmount: the quote the amount comes from
          bookedAt,      \* inquiry.bookedAt is set
          msg,           \* the inquiry_messages rows
          req,           \* the handlers in flight
          everAccepted   \* history: quotes some acceptQuote has committed

inquiry == <<status, deal, bookedAt>>
vars == <<inquiry, msg, req, everAccepted>>

---------------------------------------------------------------------------
Parties == {"host", "vendor"}

Statuses == {"PENDING", "VIEWED", "QUOTED", "ACCEPTED", "DECLINED", "CANCELLED", "BOOKED"}

Closed == {"DECLINED", "CANCELLED"}

\* The part of a quote's JSON payload that the host's decisions rewrite.
Flags == [accepted : BOOLEAN, rejected : BOOLEAN, booked : BOOLEAN]

NoFlags == [accepted |-> FALSE, rejected |-> FALSE, booked |-> FALSE]

Message == [kind   : AllKinds \cup {"NONE"},
            from   : Parties,
            text   : {"sent", "edited", "blank"},
            unsent : BOOLEAN,
            late   : BOOLEAN,
            read   : BOOLEAN,
            flags  : Flags]

Row(kind, from, text) == [kind |-> kind, from |-> from, text |-> text, unsent |-> FALSE,
                          late |-> FALSE, read |-> FALSE, flags |-> NoFlags]

Absent == Row("NONE", "host", "blank")

Phases == {"idle", "create", "touch", "quote", "siblings", "commit"}

Request == [op   : AllCalls \cup {"none"},
            at   : Phases,
            by   : Parties,
            arg  : AllKinds \cup Statuses,
            m    : Messages \cup {NoMessage},
            seen : Statuses,
            snap : Flags,
            sibs : [Messages -> Flags],
            ids  : SUBSET Messages]

\* A handler that has read no payload yet.
Handler(op, at, by, arg, m, seen, ids) ==
    [op |-> op, at |-> at, by |-> by, arg |-> arg, m |-> m, seen |-> seen,
     snap |-> NoFlags, sibs |-> [s \in Messages |-> NoFlags], ids |-> ids]

Idle == Handler("none", "idle", "host", "PENDING", NoMessage, "PENDING", {})

\* A message row that findFirst({ kind: 'QUOTE', unsentAt: null }) returns.
LiveQuote(m) == msg[m].kind = "QUOTE" /\ ~msg[m].unsent

TypeOK ==
    /\ status \in Statuses
    /\ deal \in Messages \cup {NoMessage}
    /\ bookedAt \in BOOLEAN
    /\ msg \in [Messages -> Message]
    /\ req \in [Requests -> Request]
    /\ everAccepted \subseteq Messages

Init ==
    /\ status = "PENDING"
    /\ deal = NoMessage
    /\ bookedAt = FALSE
    /\ msg = [m \in Messages |-> Absent]
    /\ req = [r \in Requests |-> Idle]
    /\ everAccepted = {}

\* The handler in slot r moves on to its next await, or returns.
Goto(r, phase) == req' = [req EXCEPT ![r].at = phase]
Return(r) == req' = [req EXCEPT ![r] = Idle]

---------------------------------------------------------------------------
(* postMessage *)

MayPost(by, kind) ==
    \/ kind = "TEXT"
    \/ kind = "INSPIRATION" /\ by = "host"
    \/ kind \in {"QUOTE", "LINK"} /\ by = "vendor"

\* Reads the inquiry and refuses a closed one; m is the id the new row will get.
PostRead(r, by, kind, m) ==
    /\ req[r].at = "idle"
    /\ status \notin Closed
    /\ MayPost(by, kind)
    /\ msg[m].kind = "NONE" /\ \A s \in Requests : req[s].m # m
    /\ req' = [req EXCEPT ![r] = Handler("post", "create", by, kind, m, status, {})]
    /\ UNCHANGED <<inquiry, msg, everAccepted>>

PostCreate(r) ==
    /\ req[r].op = "post" /\ req[r].at = "create"
    /\ msg' = [msg EXCEPT ![req[r].m] = Row(req[r].arg, req[r].by, "sent")]
    /\ Goto(r, "touch")
    /\ UNCHANGED <<inquiry, everAccepted>>

MovesToQuoted_EvenBooked(r) == req[r].arg = "QUOTE"

\* nextStatus: a quote moves the inquiry to QUOTED unless it was BOOKED when read.
MovesToQuoted(r) == req[r].arg = "QUOTE" /\ req[r].seen # "BOOKED"

PostTouch_NoAmount(r) ==
    /\ req[r].op = "post" /\ req[r].at = "touch"
    /\ status' = IF MovesToQuoted(r) THEN "QUOTED" ELSE status
    /\ Return(r)
    /\ UNCHANGED <<deal, bookedAt, msg, everAccepted>>

PostTouch(r) ==
    /\ req[r].op = "post" /\ req[r].at = "touch"
    /\ IF MovesToQuoted(r)
       THEN status' = "QUOTED" /\ deal' = req[r].m
       ELSE UNCHANGED <<status, deal>>
    /\ Return(r)
    /\ UNCHANGED <<bookedAt, msg, everAccepted>>

---------------------------------------------------------------------------
(* acceptQuote, rejectQuote, bookQuote: the host's decisions on a quote *)

HostOps == {"accept", "reject", "book"}

\* The payloads the handlers write back, built from the payload f they read.
Accepted(f) == [accepted |-> TRUE,  rejected |-> FALSE,      booked |-> f.booked]
Passed(f)   == [accepted |-> FALSE, rejected |-> f.rejected, booked |-> f.booked]
Rejected(f) == [accepted |-> FALSE, rejected |-> TRUE,       booked |-> f.booked]
Booked(f)   == [accepted |-> TRUE,  rejected |-> f.rejected, booked |-> TRUE]

DecisionReadInquiry_AllowsBooked(r, op, m) ==
    /\ req[r].at = "idle"
    /\ status \notin Closed
    /\ req' = [req EXCEPT ![r] = Handler(op, "quote", "host", "PENDING", m, "PENDING", {})]
    /\ UNCHANGED <<inquiry, msg, everAccepted>>

\* The first read is the same in all three: the inquiry is open and not booked.
DecisionReadInquiry(r, op, m) ==
    /\ req[r].at = "idle"
    /\ status \notin Closed \cup {"BOOKED"}
    /\ req' = [req EXCEPT ![r] = Handler(op, "quote", "host", "PENDING", m, "PENDING", {})]
    /\ UNCHANGED <<inquiry, msg, everAccepted>>

Admissible_RejectsBooked(op, f) ==
    CASE op = "accept" -> ~f.rejected /\ ~f.accepted
      [] op = "reject" -> ~f.rejected
      [] op = "book"   -> ~f.rejected /\ f.accepted
      [] OTHER         -> FALSE

Admissible_BooksOpen(op, f) ==
    CASE op = "accept" -> ~f.rejected /\ ~f.accepted
      [] op = "reject" -> ~f.booked /\ ~f.rejected
      [] op = "book"   -> ~f.rejected
      [] OTHER         -> FALSE

\* What the handler requires of the payload it has just read, to go on and write.
Admissible(op, f) ==
    CASE op = "accept" -> ~f.rejected /\ ~f.accepted
      [] op = "reject" -> ~f.booked /\ ~f.rejected
      [] op = "book"   -> ~f.rejected /\ f.accepted
      [] OTHER         -> FALSE

DecisionReadQuote(r) ==
    LET m == req[r].m IN
    /\ req[r].op \in HostOps /\ req[r].at = "quote"
    /\ IF LiveQuote(m) /\ Admissible(req[r].op, msg[m].flags)
       THEN req' = [req EXCEPT ![r].snap = msg[m].flags,
                               ![r].at = IF req[r].op = "accept" THEN "siblings" ELSE "commit"]
       ELSE Return(r)
    /\ UNCHANGED <<inquiry, msg, everAccepted>>

AcceptReadSiblings_Forgets(r) ==
    /\ req[r].op = "accept" /\ req[r].at = "siblings"
    /\ Goto(r, "commit")
    /\ UNCHANGED <<inquiry, msg, everAccepted>>

\* The other live quotes that are accepted, with the payloads as read.
AcceptReadSiblings(r) ==
    /\ req[r].op = "accept" /\ req[r].at = "siblings"
    /\ req' = [req EXCEPT ![r].at = "commit",
                          ![r].sibs = [s \in Messages |->
                              IF s # req[r].m /\ LiveQuote(s) /\ msg[s].flags.accepted
                              THEN msg[s].flags ELSE NoFlags]]
    /\ UNCHANGED <<inquiry, msg, everAccepted>>

\* One $transaction: the amount, the quote, and every sibling that was accepted.
AcceptCommit(r) ==
    LET m == req[r].m
        sibs == req[r].sibs IN
    /\ req[r].op = "accept" /\ req[r].at = "commit"
    /\ deal' = m
    /\ msg' = [s \in Messages |->
                 IF s = m
                 THEN [msg[s] EXCEPT !.flags = Accepted(req[r].snap)]
                 ELSE IF sibs[s].accepted
                      THEN [msg[s] EXCEPT !.flags = Passed(sibs[s])]
                      ELSE msg[s]]
    /\ everAccepted' = everAccepted \cup {m}
    /\ Return(r)
    /\ UNCHANGED <<status, bookedAt>>

RejectCommit(r) ==
    /\ req[r].op = "reject" /\ req[r].at = "commit"
    /\ msg' = [msg EXCEPT ![req[r].m].flags = Rejected(req[r].snap)]
    /\ Return(r)
    /\ UNCHANGED <<inquiry, everAccepted>>

BookCommit_SwapsColumns(r) ==
    /\ req[r].op = "book" /\ req[r].at = "commit"
    /\ status' = "BOOKED" /\ bookedAt' = req[r].m /\ deal' = TRUE
    /\ msg' = [msg EXCEPT ![req[r].m].flags = Booked(req[r].snap)]
    /\ Return(r)
    /\ UNCHANGED everAccepted

BookCommit(r) ==
    /\ req[r].op = "book" /\ req[r].at = "commit"
    /\ status' = "BOOKED" /\ bookedAt' = TRUE /\ deal' = req[r].m
    /\ msg' = [msg EXCEPT ![req[r].m].flags = Booked(req[r].snap)]
    /\ Return(r)
    /\ UNCHANGED everAccepted

---------------------------------------------------------------------------
(* updateInquiryStatus: the vendor accepts or declines *)

\* The read only checks that the inquiry is the vendor's; no status is refused.
DecideRead(r, choice) ==
    /\ req[r].at = "idle"
    /\ req' = [req EXCEPT ![r] = Handler("decide", "commit", "vendor", choice, NoMessage,
                                         "PENDING", {})]
    /\ UNCHANGED <<inquiry, msg, everAccepted>>

DecideCommit(r) ==
    /\ req[r].op = "decide" /\ req[r].at = "commit"
    /\ status' = req[r].arg
    /\ Return(r)
    /\ UNCHANGED <<deal, bookedAt, msg, everAccepted>>

---------------------------------------------------------------------------
(* updateMessage, unsendMessage, markMessagesRead *)

Editable(by, m) ==
    /\ msg[m].kind = "TEXT" /\ msg[m].from = by
    /\ ~msg[m].unsent /\ ~msg[m].late

Unsendable(by, m) ==
    /\ msg[m].kind # "NONE" /\ msg[m].from = by
    /\ ~msg[m].unsent /\ ~msg[m].late
    /\ msg[m].flags = NoFlags

AmendRead(r, op, by, m) ==
    /\ req[r].at = "idle"
    /\ IF op = "edit" THEN Editable(by, m) ELSE Unsendable(by, m)
    /\ req' = [req EXCEPT ![r] = Handler(op, "commit", by, "PENDING", m, "PENDING", {})]
    /\ UNCHANGED <<inquiry, msg, everAccepted>>

EditCommit(r) ==
    /\ req[r].op = "edit" /\ req[r].at = "commit"
    /\ msg' = [msg EXCEPT ![req[r].m].text = "edited"]
    /\ Return(r)
    /\ UNCHANGED <<inquiry, everAccepted>>

UnsendCommit(r) ==
    /\ req[r].op = "unsend" /\ req[r].at = "commit"
    /\ msg' = [msg EXCEPT ![req[r].m].text = "blank", ![req[r].m].unsent = TRUE]
    /\ Return(r)
    /\ UNCHANGED <<inquiry, everAccepted>>

\* The ids read first are the ids updateMany marks, whatever happened in between.
MarkRead(r, by) ==
    LET unread == {m \in Messages : /\ msg[m].kind # "NONE" /\ msg[m].from # by
                                    /\ ~msg[m].read /\ ~msg[m].unsent} IN
    /\ req[r].at = "idle"
    /\ unread # {}
    /\ req' = [req EXCEPT ![r] = Handler("read", "commit", by, "PENDING", NoMessage,
                                         "PENDING", unread)]
    /\ UNCHANGED <<inquiry, msg, everAccepted>>

MarkCommit(r) ==
    /\ req[r].op = "read" /\ req[r].at = "commit"
    /\ msg' = [m \in Messages |-> IF m \in req[r].ids THEN [msg[m] EXCEPT !.read = TRUE]
                                                      ELSE msg[m]]
    /\ Return(r)
    /\ UNCHANGED <<inquiry, everAccepted>>

---------------------------------------------------------------------------
\* The process restarts or a statement throws: the rest of the handler never runs.
Die(r) ==
    /\ Faults /\ req[r].at # "idle"
    /\ Return(r)
    /\ UNCHANGED <<inquiry, msg, everAccepted>>

\* messageEditWindowMs has passed since the message was created.
WindowCloses(m) ==
    /\ msg[m].kind # "NONE" /\ ~msg[m].late
    /\ msg' = [msg EXCEPT ![m].late = TRUE]
    /\ UNCHANGED <<inquiry, req, everAccepted>>

\* A client calls the API.
Arrive(r) ==
    \/ /\ "post" \in Calls
       /\ \E by \in Parties, kind \in Kinds, m \in Messages : PostRead(r, by, kind, m)
    \/ \E op \in HostOps \cap Calls, m \in Messages : DecisionReadInquiry(r, op, m)
    \/ "decide" \in Calls /\ \E choice \in {"ACCEPTED", "DECLINED"} : DecideRead(r, choice)
    \/ \E op \in {"edit", "unsend"} \cap Calls, by \in Parties, m \in Messages :
          AmendRead(r, op, by, m)
    \/ "read" \in Calls /\ \E by \in Parties : MarkRead(r, by)

\* A handler in flight runs its next statement.
Step(r) ==
    \/ PostCreate(r) \/ PostTouch(r)
    \/ DecisionReadQuote(r) \/ AcceptReadSiblings(r)
    \/ AcceptCommit(r) \/ RejectCommit(r) \/ BookCommit(r)
    \/ DecideCommit(r) \/ EditCommit(r) \/ UnsendCommit(r) \/ MarkCommit(r)

Next ==
    \/ \E r \in Requests : Arrive(r) \/ Step(r) \/ Die(r)
    \/ \E m \in Messages : WindowCloses(m)

Spec == Init /\ [][Next]_vars

---------------------------------------------------------------------------
(* What holds however the handlers interleave *)

\* The three decisions on one quote never contradict each other: a quote is not
\* both accepted and rejected, and a booked one is not rejected, although the
\* handlers write back whole payloads they read several statements earlier.
Consistent(f) == ~(f.accepted /\ f.rejected) /\ ~(f.booked /\ f.rejected)

FlagsConsistent == \A m \in Messages : Consistent(msg[m].flags)

\* The amount shown on the inquiry is the amount of a quote the vendor really
\* posted, and an inquiry shown as quoted or booked has an amount: postMessage
\* writes the row before it moves the inquiry, and nothing takes either back.
DealIsPosted ==
    /\ deal # NoMessage => msg[deal].kind = "QUOTE"
    /\ status \in {"QUOTED", "BOOKED"} => deal # NoMessage

\* A booking always has an acceptance by the host behind it: bookQuote refuses a
\* quote it does not read as accepted, and acceptance is written by acceptQuote only.
BookedWasAccepted ==
    /\ \A m \in Messages : msg[m].flags.booked => m \in everAccepted
    /\ status = "BOOKED" => bookedAt
    /\ bookedAt => everAccepted # {}

---------------------------------------------------------------------------
(* What holds when handlers do not overlap (one request slot) *)

\* The host has at most one quote accepted at a time: accepting one withdraws the
\* acceptance of every other live quote in the same transaction.
OneAccepted ==
    \A m, n \in Messages : msg[m].flags.accepted /\ msg[n].flags.accepted => m = n

\* While an inquiry is booked, its amount is that of a quote that is accepted, booked
\* and still there: a later quote does not move it, and the host can no longer
\* accept, reject or book.
BookedDealStands ==
    status = "BOOKED" => /\ deal # NoMessage
                         /\ LiveQuote(deal)
                         /\ msg[deal].flags = [accepted |-> TRUE, rejected |-> FALSE,
                                               booked |-> TRUE]

\* What a quote's row says about where the quote stands.
Standing(m) ==
    IF msg[m].kind # "QUOTE" THEN "none"
    ELSE IF msg[m].unsent THEN "unsent"
    ELSE IF msg[m].flags.accepted THEN "accepted"
    ELSE IF msg[m].flags.rejected THEN "rejected"
    ELSE "open"

Board == INSTANCE QuoteBoard WITH
    Quotes   <- Messages,
    NoQuote  <- NoMessage,
    standing <- [m \in Messages |-> Standing(m)],
    booked   <- {m \in Messages : msg[m].flags.booked}

\* The handlers, run one at a time and possibly dying between two statements, do
\* to the quotes only what QuoteBoard allows: each call takes effect at once, on the
\* quotes as they stand, or not at all.
ImplementsBoard == Board!Spec

---------------------------------------------------------------------------
(* What overlapping handlers break *)

\* bookQuote "Requires an accepted quote" (inquiries.service.ts:684): the quote it
\* books is accepted at that moment.
BooksAcceptedQuote ==
    [][\A m \in Messages :
         ~msg[m].flags.booked /\ msg'[m].flags.booked => msg[m].flags.accepted]_vars
=============================================================================
