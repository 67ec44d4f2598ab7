------------------------ MODULE InquiryThreadProofs ------------------------
(***************************************************************************)
(* Proofs about InquiryThread for any number of messages and of handlers   *)
(* in flight, with or without faults: its types, and the three invariants  *)
(* that hold however the handlers interleave.                              *)
(*                                                                         *)
(* A handler writes back what it read some statements ago, so the          *)
(* inductive invariant IInv says as much about the payloads the handlers   *)
(* hold (HandlerOK) as about the rows of the table (RowOK).  Every step    *)
(* either only reads (ReadKeeps), or writes and returns (WriteKeeps), or   *)
(* inserts a message (PostCreateKeeps).                                    *)
(*                                                                         *)
(* The second part is about handlers that do not overlap (Solo): what they *)
(* read is then still so when they write (Fresh), at most one quote is     *)
(* accepted, and InquiryThread implements QuoteBoard.  Handlers may still  *)
(* die between two statements.                                             *)
(***************************************************************************)
EXTENDS InquiryThread, TLAPS

\* h is about to insert the row whose id it holds.
Posting(h) == h.op = "post" /\ h.at = "create"

\* h has read the quote it decides on, and is on its way to write it back.
Decided(h) == h.op \in HostOps /\ h.at \in {"siblings", "commit"}

\* A payload with an accepted or booked mark is that of a quote accepted before.
Traced(f, m) == f.accepted \/ f.booked => m \in everAccepted

\* What a handler holds is as consistent as what the table holds, and still shows
\* what the guards it passed required.
HandlerOK(h) ==
    /\ Posting(h) => h.m \in Messages /\ msg[h.m].kind = "NONE" /\ h.arg \in AllKinds
    /\ h.op = "post" /\ h.at = "touch" => h.m \in Messages /\ msg[h.m].kind = h.arg
    /\ h.op \in HostOps => h.m \in Messages
    /\ Decided(h) => msg[h.m].kind = "QUOTE" /\ Admissible(h.op, h.snap)
    /\ h.op = "decide" => h.arg \in {"ACCEPTED", "DECLINED"}
    /\ Consistent(h.snap) /\ Traced(h.snap, h.m)
    /\ \A s \in Messages : Consistent(h.sibs[s]) /\ Traced(h.sibs[s], s)

RowOK(m) == Consistent(msg[m].flags) /\ Traced(msg[m].flags, m)

InquiryOK ==
    /\ DealIsPosted
    /\ status = "BOOKED" => bookedAt
    /\ bookedAt => everAccepted # {}

\* Two handlers never insert under the same id.
PostsApart ==
    \A r, s \in Requests :
        Posting(req[r]) /\ Posting(req[s]) /\ req[r].m = req[s].m => r = s

IInv ==
    /\ TypeOK
    /\ \A r \in Requests : HandlerOK(req[r])
    /\ \A m \in Messages : RowOK(m)
    /\ InquiryOK
    /\ PostsApart

---------------------------------------------------------------------------
(* Types of the records the actions build *)

LEMMA NoFlagsType == NoFlags \in Flags
BY DEF NoFlags, Flags

LEMMA HandlerType ==
    ASSUME NEW op \in AllCalls \cup {"none"}, NEW at \in Phases, NEW by \in Parties,
           NEW arg \in AllKinds \cup Statuses, NEW m \in Messages \cup {NoMessage},
           NEW seen \in Statuses, NEW ids \in SUBSET Messages
    PROVE  /\ Handler(op, at, by, arg, m, seen, ids) \in Request
           /\ Handler(op, at, by, arg, m, seen, ids).op = op
           /\ Handler(op, at, by, arg, m, seen, ids).at = at
           /\ Handler(op, at, by, arg, m, seen, ids).arg = arg
           /\ Handler(op, at, by, arg, m, seen, ids).m = m
           /\ Handler(op, at, by, arg, m, seen, ids).snap = NoFlags
           /\ \A s \in Messages : Handler(op, at, by, arg, m, seen, ids).sibs[s] = NoFlags
<1>1. [s \in Messages |-> NoFlags] \in [Messages -> Flags]
  BY NoFlagsType
<1>2. Handler(op, at, by, arg, m, seen, ids) \in Request
  BY <1>1, NoFlagsType DEF Handler, Request
<1> QED BY <1>2 DEF Handler

LEMMA IdleType == Idle \in Request /\ Idle.op = "none"
<1>1. /\ "none" \in AllCalls \cup {"none"} /\ "idle" \in Phases /\ "host" \in Parties
      /\ "PENDING" \in AllKinds \cup Statuses /\ "PENDING" \in Statuses
      /\ {} \in SUBSET Messages /\ NoMessage \in Messages \cup {NoMessage}
  BY DEF Phases, Parties, Statuses
<1>2. Handler("none", "idle", "host", "PENDING", NoMessage, "PENDING", {}) \in Request
  BY <1>1, HandlerType
<1>3. Handler("none", "idle", "host", "PENDING", NoMessage, "PENDING", {}).op = "none"
  BY DEF Handler
<1> QED BY <1>2, <1>3 DEF Idle

\* A handler that has read no payload satisfies HandlerOK if its id and its argument do.
LEMMA FreshHandlerOK ==
    ASSUME NEW op \in AllCalls \cup {"none"}, NEW at \in Phases, NEW by \in Parties,
           NEW arg \in AllKinds \cup Statuses, NEW m \in Messages \cup {NoMessage},
           NEW seen \in Statuses, NEW ids \in SUBSET Messages,
           op = "post" => at = "create" /\ m \in Messages /\ msg[m].kind = "NONE"
                          /\ arg \in AllKinds,
           op \in HostOps => at = "quote" /\ m \in Messages,
           op = "decide" => arg \in {"ACCEPTED", "DECLINED"}
    PROVE  HandlerOK(Handler(op, at, by, arg, m, seen, ids))
<1> DEFINE h == Handler(op, at, by, arg, m, seen, ids)
<1>1. /\ h.op = op /\ h.at = at /\ h.arg = arg /\ h.m = m /\ h.snap = NoFlags
      /\ \A s \in Messages : h.sibs[s] = NoFlags
  BY HandlerType
<1>2. Consistent(NoFlags) /\ \A n : Traced(NoFlags, n)
  BY DEF Consistent, Traced, NoFlags
<1> HIDE DEF h
<1>3. HandlerOK(h)
  BY <1>1, <1>2 DEF HandlerOK, Posting, Decided, HostOps
<1> QED BY <1>3 DEF h

LEMMA IdleOK == HandlerOK(Idle)
BY FreshHandlerOK DEF Idle, AllCalls, Phases, Parties, AllKinds, Statuses, HostOps
---------------------------------------------------------------------------
(* The three kinds of step *)

\* A step that only reads: handler r goes from one local state to the next, h.
LEMMA ReadKeeps ==
    ASSUME NEW r \in Requests, NEW h \in Request, IInv,
           HandlerOK(h),
           Posting(h) => \A s \in Requests : Posting(req[s]) => req[s].m # h.m,
           req' = [req EXCEPT ![r] = h], UNCHANGED <<inquiry, msg, everAccepted>>
    PROVE  IInv'
<1>1. /\ \A s \in Requests : req'[s] = IF s = r THEN h ELSE req[s]
      /\ req' \in [Requests -> Request]
  BY DEF IInv, TypeOK
<1>2. TypeOK'
  BY <1>1 DEF IInv, TypeOK, inquiry
<1>3. \A s \in Requests : HandlerOK(req[s])'
  BY <1>1 DEF IInv, HandlerOK, Traced, inquiry
<1>4. (\A m \in Messages : RowOK(m))' /\ InquiryOK'
  BY DEF IInv, RowOK, Traced, InquiryOK, DealIsPosted, inquiry
<1>5. PostsApart'
  BY <1>1 DEF IInv, PostsApart
<1> QED BY <1>2, <1>3, <1>4, <1>5 DEF IInv

\* A step that writes rows without changing what kind of row they are.
LEMMA WriteKeeps ==
    ASSUME IInv,
           status' \in Statuses, deal' \in Messages \cup {NoMessage}, bookedAt' \in BOOLEAN,
           msg' \in [Messages -> Message],
           \A m \in Messages : msg'[m].kind = msg[m].kind,
           everAccepted \subseteq everAccepted', everAccepted' \subseteq Messages,
           \A m \in Messages : RowOK(m)', InquiryOK',
           UNCHANGED req \/ \E r \in Requests : Return(r)
    PROVE  IInv'
<1>1. /\ \A s \in Requests : req'[s] = req[s] \/ req'[s] = Idle
      /\ req' \in [Requests -> Request]
  BY IdleType DEF IInv, TypeOK, Return
<1>2. TypeOK'
  BY <1>1 DEF IInv, TypeOK
<1>3. ASSUME NEW s \in Requests PROVE HandlerOK(req[s])'
  <2>1. CASE req'[s] = req[s]
    BY <2>1 DEF IInv, HandlerOK, Posting, Decided, Traced, HostOps
  <2>2. CASE req'[s] = Idle
    BY <2>2, IdleOK DEF HandlerOK, Posting, Decided, Traced, HostOps
  <2> QED BY <1>1, <2>1, <2>2
<1>4. PostsApart'
  BY <1>1, IdleType DEF IInv, PostsApart, Posting
<1> QED BY <1>2, <1>3, <1>4 DEF IInv

\* The insert: the row's id was unused, so no quote is overwritten.
LEMMA PostCreateKeeps ==
    ASSUME NEW r \in Requests, IInv, PostCreate(r)
    PROVE  IInv'
<1> DEFINE m == req[r].m
           row == Row(req[r].arg, req[r].by, "sent")
<1>1. /\ req[r] \in Request /\ HandlerOK(req[r]) /\ Posting(req[r])
      /\ m \in Messages /\ msg[m].kind = "NONE" /\ req[r].arg \in AllKinds
  BY DEF IInv, TypeOK, PostCreate, HandlerOK, Posting
<1>2. row \in Message /\ row.kind = req[r].arg /\ row.flags = NoFlags
  BY <1>1, NoFlagsType DEF Row, Message, Request
<1> HIDE DEF row
<1>3. /\ msg' \in [Messages -> Message]
      /\ \A n \in Messages : msg'[n] = IF n = m THEN row ELSE msg[n]
  BY <1>1, <1>2 DEF IInv, TypeOK, PostCreate, row
<1>4. /\ req' \in [Requests -> Request]
      /\ \A s \in Requests : s # r => req'[s] = req[s]
      /\ req'[r].at = "touch"
  BY DEF IInv, TypeOK, PostCreate, Goto, Request, Phases
<1>5. TypeOK'
  BY <1>3, <1>4 DEF IInv, TypeOK, PostCreate, inquiry
<1>6. ASSUME NEW s \in Requests PROVE HandlerOK(req[s])'
  <2>1. CASE s = r
    <3>1. /\ req'[r].op = "post" /\ req'[r].at = "touch" /\ req'[r].m = m
          /\ req'[r].arg = req[r].arg /\ req'[r].snap = req[r].snap
          /\ req'[r].sibs = req[r].sibs /\ msg'[m].kind = req[r].arg
      BY <1>1, <1>2, <1>3 DEF IInv, TypeOK, PostCreate, Goto, Posting, Request
    <3> QED BY <1>1, <2>1, <3>1 DEF HandlerOK, Posting, Decided, Traced, HostOps, PostCreate
  <2>2. CASE s # r
    <3>1. req'[s] = req[s] /\ HandlerOK(req[s]) /\ everAccepted' = everAccepted
      BY <1>4, <2>2 DEF IInv, PostCreate
    <3>2. Posting(req[s]) => req[s].m # m
      BY <1>1, <2>2 DEF IInv, PostsApart
    <3>3. req[s].op = "post" /\ req[s].at = "touch" => req[s].m # m
      BY <1>1, <3>1 DEF IInv, TypeOK, Request, HandlerOK, AllKinds, Statuses
    <3>4. Decided(req[s]) => req[s].m # m
      BY <1>1, <3>1 DEF HandlerOK
    <3> QED BY <1>3, <3>1, <3>2, <3>3, <3>4 DEF HandlerOK, Posting, Decided, Traced, HostOps
  <2> QED BY <2>1, <2>2
<1>7. (\A n \in Messages : RowOK(n))'
  BY <1>2, <1>3 DEF IInv, RowOK, Traced, Consistent, NoFlags, PostCreate
<1>8. InquiryOK'
  BY <1>1, <1>2, <1>3 DEF IInv, TypeOK, InquiryOK, DealIsPosted, PostCreate, inquiry
<1>9. PostsApart'
  <2>1. \A s \in Requests : Posting(req'[s]) => s # r /\ req'[s] = req[s]
    BY <1>4 DEF Posting
  <2> QED BY <2>1 DEF IInv, PostsApart
<1> QED BY <1>5, <1>6, <1>7, <1>8, <1>9 DEF IInv

---------------------------------------------------------------------------
(* The handlers, one by one *)

LEMMA PostReadKeeps ==
    ASSUME NEW r \in Requests, NEW by \in Parties, NEW kind \in Kinds, NEW m \in Messages,
           IInv, PostRead(r, by, kind, m)
    PROVE  IInv'
<1> DEFINE h == Handler("post", "create", by, kind, m, status, {})
<1>1. /\ kind \in AllKinds /\ status \in Statuses /\ "create" \in Phases
      /\ "post" \in AllCalls \cup {"none"}
  BY ThreadAssumption DEF IInv, TypeOK, Phases, AllCalls
<1>2. h \in Request /\ h.m = m
  BY <1>1, HandlerType
<1>3. HandlerOK(h)
  BY <1>1, FreshHandlerOK DEF PostRead, HostOps
<1> QED BY <1>2, <1>3, ReadKeeps DEF PostRead

LEMMA DecisionReadInquiryKeeps ==
    ASSUME NEW r \in Requests, NEW op \in HostOps, NEW m \in Messages,
           IInv, DecisionReadInquiry(r, op, m)
    PROVE  IInv'
<1> DEFINE h == Handler(op, "quote", "host", "PENDING", m, "PENDING", {})
<1>1. /\ op \in AllCalls \cup {"none"} /\ "quote" \in Phases /\ "host" \in Parties
      /\ "PENDING" \in AllKinds \cup Statuses /\ "PENDING" \in Statuses
  BY DEF HostOps, AllCalls, Phases, Parties, Statuses
<1>2. h \in Request
  BY <1>1, HandlerType
<1>3. HandlerOK(h)
  BY <1>1, FreshHandlerOK DEF HostOps
<1>4. ~Posting(h)
  BY DEF Handler, Posting
<1> QED BY <1>2, <1>3, <1>4, ReadKeeps DEF DecisionReadInquiry

LEMMA DecisionReadQuoteKeeps ==
    ASSUME NEW r \in Requests, IInv, DecisionReadQuote(r)
    PROVE  IInv'
<1> DEFINE m == req[r].m
           ok == LiveQuote(m) /\ Admissible(req[r].op, msg[m].flags)
<1>1. CASE ~ok
  BY <1>1, IdleType, IdleOK, ReadKeeps DEF DecisionReadQuote, Return, Posting
<1>2. CASE ok
  <2> DEFINE h == [req[r] EXCEPT !.snap = msg[m].flags,
                                 !.at = IF req[r].op = "accept" THEN "siblings" ELSE "commit"]
  <2>1. /\ req[r] \in Request /\ HandlerOK(req[r]) /\ req[r].op \in HostOps
        /\ m \in Messages /\ RowOK(m) /\ msg[m].flags \in Flags
    BY DEF IInv, TypeOK, DecisionReadQuote, HandlerOK, Message
  <2>2. h \in Request /\ h.op = req[r].op /\ h.m = m /\ h.snap = msg[m].flags /\ h.sibs = req[r].sibs
    BY <2>1 DEF Request, Phases
  <2>3. req' = [req EXCEPT ![r] = h] /\ UNCHANGED <<inquiry, msg, everAccepted>>
    BY <1>2 DEF DecisionReadQuote
  <2> HIDE DEF h
  <2>4. HandlerOK(h)
    BY <1>2, <2>1, <2>2 DEF HandlerOK, Posting, Decided, RowOK, LiveQuote, HostOps
  <2>5. ~Posting(h)
    BY <2>1, <2>2 DEF Posting, HostOps
  <2> QED BY <2>2, <2>3, <2>4, <2>5, ReadKeeps
<1> QED BY <1>1, <1>2

LEMMA AcceptReadSiblingsKeeps ==
    ASSUME NEW r \in Requests, IInv, AcceptReadSiblings(r)
    PROVE  IInv'
<1> DEFINE sibs == [s \in Messages |-> IF s # req[r].m /\ LiveQuote(s) /\ msg[s].flags.accepted
                                       THEN msg[s].flags ELSE NoFlags]
           h == [req[r] EXCEPT !.at = "commit", !.sibs = sibs]
<1>1. /\ req[r] \in Request /\ HandlerOK(req[r])
      /\ req[r].op = "accept" /\ req[r].at = "siblings"
  BY DEF IInv, TypeOK, AcceptReadSiblings
<1>2. sibs \in [Messages -> Flags]
  BY NoFlagsType DEF IInv, TypeOK, Message
<1>3. \A s \in Messages : Consistent(sibs[s]) /\ Traced(sibs[s], s)
  BY DEF IInv, RowOK, Consistent, Traced, NoFlags
<1>4. req' = [req EXCEPT ![r] = h] /\ UNCHANGED <<inquiry, msg, everAccepted>>
  BY DEF AcceptReadSiblings
<1> HIDE DEF sibs
<1>5. /\ h \in Request /\ h.op = "accept" /\ h.m = req[r].m /\ h.snap = req[r].snap
      /\ h.sibs = sibs
  BY <1>1, <1>2 DEF Request, Phases
<1> HIDE DEF h
<1>6. HandlerOK(h) /\ ~Posting(h)
  BY <1>1, <1>3, <1>5 DEF HandlerOK, Posting, Decided, HostOps
<1> QED BY <1>4, <1>5, <1>6, ReadKeeps

LEMMA DecideReadKeeps ==
    ASSUME NEW r \in Requests, NEW choice \in {"ACCEPTED", "DECLINED"}, IInv, DecideRead(r, choice)
    PROVE  IInv'
<1> DEFINE h == Handler("decide", "commit", "vendor", choice, NoMessage, "PENDING", {})
<1>1. /\ "decide" \in AllCalls \cup {"none"} /\ "commit" \in Phases /\ "vendor" \in Parties
      /\ choice \in AllKinds \cup Statuses /\ "PENDING" \in Statuses
  BY DEF AllCalls, Phases, Parties, Statuses
<1>2. h \in Request
  BY <1>1, HandlerType
<1>3. HandlerOK(h)
  BY <1>1, FreshHandlerOK DEF HostOps
<1>4. ~Posting(h)
  BY DEF Handler, Posting
<1> QED BY <1>2, <1>3, <1>4, ReadKeeps DEF DecideRead

LEMMA AmendReadKeeps ==
    ASSUME NEW r \in Requests, NEW op \in {"edit", "unsend"}, NEW by \in Parties,
           NEW m \in Messages, IInv, AmendRead(r, op, by, m)
    PROVE  IInv'
<1> DEFINE h == Handler(op, "commit", by, "PENDING", m, "PENDING", {})
<1>1. /\ op \in AllCalls \cup {"none"} /\ "commit" \in Phases
      /\ "PENDING" \in AllKinds \cup Statuses /\ "PENDING" \in Statuses
  BY DEF AllCalls, Phases, Statuses
<1>2. h \in Request /\ h.op = op
  BY <1>1, HandlerType
<1>3. HandlerOK(h)
  BY <1>1, FreshHandlerOK DEF HostOps
<1> QED BY <1>2, <1>3, ReadKeeps DEF AmendRead, Posting

LEMMA MarkReadKeeps ==
    ASSUME NEW r \in Requests, NEW by \in Parties, IInv, MarkRead(r, by)
    PROVE  IInv'
<1> DEFINE unread == {m \in Messages : /\ msg[m].kind # "NONE" /\ msg[m].from # by
                                       /\ ~msg[m].read /\ ~msg[m].unsent}
           h == Handler("read", "commit", by, "PENDING", NoMessage, "PENDING", unread)
<1>1. /\ "read" \in AllCalls \cup {"none"} /\ "commit" \in Phases
      /\ "PENDING" \in AllKinds \cup Statuses /\ "PENDING" \in Statuses
      /\ unread \in SUBSET Messages
  BY DEF AllCalls, Phases, Statuses
<1> HIDE DEF unread
<1>2. h \in Request /\ h.op = "read"
  BY <1>1, HandlerType
<1>3. HandlerOK(h)
  BY <1>1, FreshHandlerOK DEF HostOps
<1> QED BY <1>2, <1>3, ReadKeeps DEF MarkRead, Posting, unread

LEMMA DieKeeps ==
    ASSUME NEW r \in Requests, IInv, Die(r)
    PROVE  IInv'
BY IdleType, IdleOK, ReadKeeps DEF Die, Return, Posting

LEMMA PostTouchKeeps ==
    ASSUME NEW r \in Requests, IInv, PostTouch(r)
    PROVE  IInv'
<1>1. /\ req[r] \in Request /\ HandlerOK(req[r]) /\ req[r].op = "post" /\ req[r].at = "touch"
      /\ req[r].m \in Messages /\ msg[req[r].m].kind = req[r].arg
      /\ UNCHANGED <<bookedAt, msg, everAccepted>>
  BY DEF IInv, TypeOK, PostTouch, HandlerOK
<1>2. status' \in Statuses /\ deal' \in Messages \cup {NoMessage}
  BY <1>1 DEF IInv, TypeOK, PostTouch, Statuses
<1>3. InquiryOK'
  BY <1>1, ThreadAssumption DEF IInv, InquiryOK, DealIsPosted, PostTouch, MovesToQuoted
<1>4. (\A m \in Messages : RowOK(m))'
  BY <1>1 DEF IInv, RowOK, Traced
<1>5. /\ bookedAt' \in BOOLEAN /\ msg' \in [Messages -> Message]
      /\ \A m \in Messages : msg'[m].kind = msg[m].kind
      /\ everAccepted \subseteq everAccepted' /\ everAccepted' \subseteq Messages
  BY <1>1 DEF IInv, TypeOK
<1> QED BY <1>2, <1>3, <1>4, <1>5, WriteKeeps DEF PostTouch

\* What the three transactions of the host write is consistent and traced.
LEMMA PayloadsOK ==
    ASSUME NEW f \in Flags, Consistent(f)
    PROVE  /\ Accepted(f) \in Flags /\ Passed(f) \in Flags
           /\ Rejected(f) \in Flags /\ Booked(f) \in Flags
           /\ ~f.rejected => Consistent(Accepted(f)) /\ Consistent(Booked(f))
           /\ Consistent(Passed(f))
           /\ ~f.booked => Consistent(Rejected(f))
BY DEF Flags, Consistent, Accepted, Passed, Rejected, Booked

\* Replacing the payload of a row changes nothing else of it.
LEMMA SetFlags ==
    ASSUME NEW x \in Message, NEW f \in Flags
    PROVE  /\ [x EXCEPT !.flags = f] \in Message
           /\ [x EXCEPT !.flags = f].kind = x.kind
           /\ [x EXCEPT !.flags = f].flags = f
BY DEF Message

LEMMA AcceptCommitKeeps ==
    ASSUME NEW r \in Requests, IInv, AcceptCommit(r)
    PROVE  IInv'
<1> DEFINE m == req[r].m
           snap == req[r].snap
           sibs == req[r].sibs
<1>1. /\ HandlerOK(req[r]) /\ m \in Messages /\ msg[m].kind = "QUOTE"
      /\ snap \in Flags /\ Consistent(snap) /\ ~snap.rejected
      /\ sibs \in [Messages -> Flags]
      /\ \A s \in Messages : Consistent(sibs[s]) /\ Traced(sibs[s], s)
  BY DEF IInv, TypeOK, Request, AcceptCommit, HandlerOK, Decided, Admissible, HostOps
<1>2. everAccepted' = everAccepted \cup {m} /\ deal' = m /\ UNCHANGED <<status, bookedAt>>
  BY DEF AcceptCommit
<1>3. ASSUME NEW s \in Messages
      PROVE  msg'[s] \in Message /\ msg'[s].kind = msg[s].kind /\ RowOK(s)'
  <2>1. msg[s] \in Message /\ RowOK(s)
    BY DEF IInv, TypeOK
  <2>2. CASE s = m
    <3>1. msg'[s] = [msg[s] EXCEPT !.flags = Accepted(snap)]
      BY <2>2 DEF AcceptCommit
    <3>2. Accepted(snap) \in Flags /\ Consistent(Accepted(snap))
      BY <1>1, PayloadsOK
    <3>3. msg'[s] \in Message /\ msg'[s].kind = msg[s].kind /\ msg'[s].flags = Accepted(snap)
      BY <2>1, <3>1, <3>2, SetFlags
    <3> QED BY <1>2, <2>2, <3>2, <3>3 DEF RowOK, Traced
  <2>3. CASE s # m /\ sibs[s].accepted
    <3>1. msg'[s] = [msg[s] EXCEPT !.flags = Passed(sibs[s])]
      BY <2>3 DEF AcceptCommit
    <3>2. Passed(sibs[s]) \in Flags /\ Consistent(Passed(sibs[s]))
      BY <1>1, PayloadsOK
    <3>3. /\ msg'[s] \in Message /\ msg'[s].kind = msg[s].kind
          /\ msg'[s].flags = Passed(sibs[s])
      BY <2>1, <3>1, <3>2, SetFlags
    <3> QED BY <1>1, <1>2, <2>3, <3>2, <3>3 DEF RowOK, Traced
  <2>4. CASE s # m /\ ~sibs[s].accepted
    <3>1. msg'[s] = msg[s]
      BY <2>4 DEF AcceptCommit
    <3> QED BY <1>2, <2>1, <3>1 DEF RowOK, Traced
  <2> QED BY <2>2, <2>3, <2>4
<1>4. msg' \in [Messages -> Message]
  BY <1>3 DEF AcceptCommit
<1>5. InquiryOK'
  BY <1>1, <1>2, <1>3, ThreadAssumption DEF IInv, TypeOK, InquiryOK, DealIsPosted
<1> QED BY <1>1, <1>2, <1>3, <1>4, <1>5, WriteKeeps DEF IInv, TypeOK, AcceptCommit

LEMMA RejectCommitKeeps ==
    ASSUME NEW r \in Requests, IInv, RejectCommit(r)
    PROVE  IInv'
<1> DEFINE m == req[r].m
           snap == req[r].snap
<1>1. /\ m \in Messages /\ msg[m].kind = "QUOTE"
      /\ snap \in Flags /\ Consistent(snap) /\ ~snap.booked
  BY DEF IInv, TypeOK, Request, RejectCommit, HandlerOK, Decided, Admissible, Traced, HostOps
<1>2. UNCHANGED <<status, deal, bookedAt, everAccepted>>
  BY DEF RejectCommit, inquiry
<1>3. ASSUME NEW s \in Messages
      PROVE  msg'[s] \in Message /\ msg'[s].kind = msg[s].kind /\ RowOK(s)'
  <2>1. msg[s] \in Message /\ RowOK(s)
    BY DEF IInv, TypeOK
  <2>2. CASE s = m
    <3>1. msg'[s] = [msg[s] EXCEPT !.flags = Rejected(snap)]
      BY <2>2 DEF IInv, TypeOK, RejectCommit
    <3>2. Rejected(snap) \in Flags /\ Consistent(Rejected(snap))
      BY <1>1, PayloadsOK
    <3>3. msg'[s] \in Message /\ msg'[s].kind = msg[s].kind /\ msg'[s].flags = Rejected(snap)
      BY <2>1, <3>1, <3>2, SetFlags
    <3> QED BY <1>1, <1>2, <2>2, <3>2, <3>3 DEF RowOK, Traced, Rejected
  <2>3. CASE s # m
    BY <1>2, <2>1, <2>3 DEF IInv, TypeOK, RejectCommit, RowOK, Traced
  <2> QED BY <2>2, <2>3
<1>4. msg' \in [Messages -> Message]
  BY <1>3 DEF IInv, TypeOK, RejectCommit
<1>5. InquiryOK'
  BY <1>2, <1>3 DEF IInv, TypeOK, InquiryOK, DealIsPosted
<1> QED BY <1>2, <1>3, <1>4, <1>5, WriteKeeps DEF IInv, TypeOK, RejectCommit

LEMMA BookCommitKeeps ==
    ASSUME NEW r \in Requests, IInv, BookCommit(r)
    PROVE  IInv'
<1> DEFINE m == req[r].m
           snap == req[r].snap
<1>1. /\ m \in Messages /\ msg[m].kind = "QUOTE"
      /\ snap \in Flags /\ Consistent(snap) /\ snap.accepted /\ ~snap.rejected /\ m \in everAccepted
  BY DEF IInv, TypeOK, Request, BookCommit, HandlerOK, Decided, Admissible, Traced, HostOps
<1>2. status' = "BOOKED" /\ bookedAt' = TRUE /\ deal' = m /\ everAccepted' = everAccepted
  BY DEF BookCommit
<1>3. ASSUME NEW s \in Messages
      PROVE  msg'[s] \in Message /\ msg'[s].kind = msg[s].kind /\ RowOK(s)'
  <2>1. msg[s] \in Message /\ RowOK(s)
    BY DEF IInv, TypeOK
  <2>2. CASE s = m
    <3>1. msg'[s] = [msg[s] EXCEPT !.flags = Booked(snap)]
      BY <2>2 DEF IInv, TypeOK, BookCommit
    <3>2. Booked(snap) \in Flags /\ Consistent(Booked(snap))
      BY <1>1, PayloadsOK
    <3>3. msg'[s] \in Message /\ msg'[s].kind = msg[s].kind /\ msg'[s].flags = Booked(snap)
      BY <2>1, <3>1, <3>2, SetFlags
    <3> QED BY <1>1, <1>2, <2>2, <3>2, <3>3 DEF RowOK, Traced, Booked
  <2>3. CASE s # m
    BY <1>2, <2>1, <2>3 DEF IInv, TypeOK, BookCommit, RowOK, Traced
  <2> QED BY <2>2, <2>3
<1>4. msg' \in [Messages -> Message]
  BY <1>3 DEF IInv, TypeOK, BookCommit
<1>5. InquiryOK'
  BY <1>1, <1>2, <1>3, ThreadAssumption DEF IInv, TypeOK, InquiryOK, DealIsPosted
<1> QED BY <1>1, <1>2, <1>3, <1>4, <1>5, WriteKeeps DEF IInv, TypeOK, BookCommit, Statuses

LEMMA DecideCommitKeeps ==
    ASSUME NEW r \in Requests, IInv, DecideCommit(r)
    PROVE  IInv'
<1>1. /\ status' \in {"ACCEPTED", "DECLINED"}
      /\ UNCHANGED <<deal, bookedAt, msg, everAccepted>> /\ Return(r)
  BY DEF IInv, HandlerOK, DecideCommit
<1>2. (\A m \in Messages : RowOK(m))' /\ InquiryOK'
  BY <1>1 DEF IInv, RowOK, Traced, InquiryOK, DealIsPosted
<1> QED BY <1>1, <1>2, WriteKeeps DEF IInv, TypeOK, Statuses

\* Steps that rewrite a row's text, receipt or window and leave kind and payload alone.
LEMMA AmendKeeps ==
    ASSUME IInv,
           msg' \in [Messages -> Message],
           \A m \in Messages : msg'[m].kind = msg[m].kind /\ msg'[m].flags = msg[m].flags,
           UNCHANGED <<inquiry, everAccepted>>,
           UNCHANGED req \/ \E r \in Requests : Return(r)
    PROVE  IInv'
<1>1. (\A m \in Messages : RowOK(m))' /\ InquiryOK'
  BY DEF IInv, TypeOK, RowOK, Traced, InquiryOK, DealIsPosted, inquiry
<1> QED BY <1>1, WriteKeeps DEF IInv, TypeOK, inquiry

LEMMA AmendCommitKeeps ==
    ASSUME NEW r \in Requests, IInv, EditCommit(r) \/ UnsendCommit(r) \/ MarkCommit(r)
    PROVE  IInv'
<1>1. msg \in [Messages -> Message]
  BY DEF IInv, TypeOK
<1>2. /\ msg' \in [Messages -> Message]
      /\ \A m \in Messages : msg'[m].kind = msg[m].kind /\ msg'[m].flags = msg[m].flags
  <2>1. CASE EditCommit(r)
    BY <1>1, <2>1 DEF EditCommit, Message
  <2>2. CASE UnsendCommit(r)
    BY <1>1, <2>2 DEF UnsendCommit, Message
  <2>3. CASE MarkCommit(r)
    BY <1>1, <2>3 DEF MarkCommit, Message
  <2> QED BY <2>1, <2>2, <2>3
<1> QED BY <1>2, AmendKeeps DEF EditCommit, UnsendCommit, MarkCommit

LEMMA WindowClosesKeeps ==
    ASSUME NEW n \in Messages, IInv, WindowCloses(n)
    PROVE  IInv'
<1>1. /\ msg' \in [Messages -> Message]
      /\ \A m \in Messages : msg'[m].kind = msg[m].kind /\ msg'[m].flags = msg[m].flags
  BY DEF IInv, TypeOK, WindowCloses, Message
<1> QED BY <1>1, AmendKeeps DEF WindowCloses

---------------------------------------------------------------------------
(* The theorems *)

LEMMA InitEstablishes == Init => IInv
<1> SUFFICES ASSUME Init PROVE IInv
  OBVIOUS
<1>1. Absent \in Message /\ Absent.flags = NoFlags /\ Absent.kind = "NONE"
  BY NoFlagsType DEF Absent, Row, Message, Parties
<1>2. TypeOK
  BY <1>1, IdleType DEF Init, TypeOK, Statuses
<1>3. \A r \in Requests : HandlerOK(req[r]) /\ ~Posting(req[r])
  BY IdleOK, IdleType DEF Init, Posting
<1>4. \A m \in Messages : RowOK(m)
  BY <1>1 DEF Init, RowOK, Consistent, Traced, NoFlags
<1>5. InquiryOK
  BY DEF Init, InquiryOK, DealIsPosted
<1> QED BY <1>2, <1>3, <1>4, <1>5 DEF IInv, PostsApart

LEMMA NextKeeps == IInv /\ [Next]_vars => IInv'
<1> SUFFICES ASSUME IInv, [Next]_vars PROVE IInv'
  OBVIOUS
<1>1. CASE UNCHANGED vars
  <2>1. UNCHANGED <<inquiry, msg, everAccepted>> /\ UNCHANGED req
    BY <1>1 DEF vars
  <2> QED BY <2>1, AmendKeeps DEF IInv, TypeOK
<1>2. ASSUME NEW r \in Requests, Arrive(r) PROVE IInv'
  BY <1>2, PostReadKeeps, DecisionReadInquiryKeeps, DecideReadKeeps, AmendReadKeeps,
     MarkReadKeeps DEF Arrive
<1>3. ASSUME NEW r \in Requests, Step(r) PROVE IInv'
  BY <1>3, PostCreateKeeps, PostTouchKeeps, DecisionReadQuoteKeeps, AcceptReadSiblingsKeeps,
     AcceptCommitKeeps, RejectCommitKeeps, BookCommitKeeps, DecideCommitKeeps,
     AmendCommitKeeps DEF Step
<1>4. ASSUME NEW r \in Requests, Die(r) PROVE IInv'
  BY <1>4, DieKeeps
<1>5. ASSUME NEW m \in Messages, WindowCloses(m) PROVE IInv'
  BY <1>5, WindowClosesKeeps
<1> QED BY <1>1, <1>2, <1>3, <1>4, <1>5 DEF Next

\* The inductive invariant holds in every reachable state of postMessage, the quote
\* decisions and the message handlers, however many are in flight.
THEOREM ThreadInvariant == Spec => []IInv
BY InitEstablishes, NextKeeps, PTL DEF Spec

\* Rows and handlers of the inquiry keep their types.
THEOREM ThreadTypes == Spec => []TypeOK
<1>1. IInv => TypeOK
  BY DEF IInv
<1> QED BY <1>1, ThreadInvariant, PTL

\* acceptQuote, rejectQuote and bookQuote write back payloads read before other
\* decisions landed, and still no quote is ever both accepted and rejected, or booked
\* and rejected.
THEOREM DecisionsNeverContradict == Spec => []FlagsConsistent
<1>1. IInv => FlagsConsistent
  BY DEF IInv, RowOK, FlagsConsistent
<1> QED BY <1>1, ThreadInvariant, PTL

\* The amount of an inquiry is always that of a quote that was posted in it, and a
\* quoted or booked inquiry has one, even if postMessage dies between its two writes.
THEOREM AmountIsPosted == Spec => []DealIsPosted
<1>1. IInv => DealIsPosted
  BY DEF IInv, InquiryOK
<1> QED BY <1>1, ThreadInvariant, PTL

\* Nothing is booked that the host did not accept before, in whatever order the host's
\* calls are handled.
THEOREM BookingFollowsAcceptance == Spec => []BookedWasAccepted
<1>1. IInv => BookedWasAccepted
  BY DEF IInv, InquiryOK, RowOK, Traced, BookedWasAccepted
<1> QED BY <1>1, ThreadInvariant, PTL

---------------------------------------------------------------------------
(* One handler at a time *)

Solo == \A q, r \in Requests : q = r

\* Only a live quote carries a decision.
Marked == \A m \in Messages : msg[m].flags # NoFlags => LiveQuote(m)

\* What a handler has read still holds when it writes.
Fresh(h) ==
    /\ h.op = "post" /\ h.at \in {"create", "touch"} => h.seen = status /\ status \notin Closed
    /\ h.op = "post" /\ h.at = "touch" => ~msg[h.m].unsent /\ msg[h.m].flags = NoFlags
    /\ h.op \in HostOps => status \notin Closed \cup {"BOOKED"}
    /\ Decided(h) => LiveQuote(h.m) /\ h.snap = msg[h.m].flags
    /\ h.op = "accept" /\ h.at = "commit" =>
          \A s \in Messages :
             h.sibs[s] = IF s # h.m /\ LiveQuote(s) /\ msg[s].flags.accepted
                         THEN msg[s].flags ELSE NoFlags
    /\ h.op = "unsend" => h.m \in Messages /\ ~msg[h.m].unsent /\ msg[h.m].flags = NoFlags

RowsSettled == Marked /\ OneAccepted /\ BookedDealStands

SInv ==
    /\ IInv
    /\ RowsSettled
    /\ \A r \in Requests : Fresh(req[r])

BoardStep == Board!Next \/ UNCHANGED Board!board

LEMMA SameStanding ==
    ASSUME NEW m, msg'[m].kind = msg[m].kind, msg'[m].unsent = msg[m].unsent,
           msg'[m].flags = msg[m].flags
    PROVE  Standing(m)' = Standing(m) /\ LiveQuote(m)' = LiveQuote(m)
BY DEF Standing, LiveQuote

\* The host and the vendor see no change.
LEMMA BoardStutters ==
    ASSUME UNCHANGED <<status, deal>>,
           \A m \in Messages : /\ Standing(m)' = Standing(m)
                               /\ msg'[m].flags.booked = msg[m].flags.booked
    PROVE  BoardStep
<1>1. [m \in Messages |-> Standing(m)]' = [m \in Messages |-> Standing(m)]
  OBVIOUS
<1>2. {m \in Messages : msg[m].flags.booked}' = {m \in Messages : msg[m].flags.booked}
  OBVIOUS
<1> QED BY <1>1, <1>2 DEF BoardStep, Board!board

\* A step that only reads: what the handler then holds must be fresh.
LEMMA SoloRead ==
    ASSUME Solo, SInv, IInv', NEW r \in Requests, NEW h \in Request, Fresh(h),
           req' = [req EXCEPT ![r] = h], UNCHANGED <<inquiry, msg, everAccepted>>
    PROVE  SInv' /\ BoardStep
<1>1. UNCHANGED <<status, deal, bookedAt, msg>>
  BY DEF inquiry
<1>2. \A s \in Requests : req'[s] = h
  BY DEF Solo, SInv, IInv, TypeOK
<1>3. \A s \in Requests : Fresh(req[s])'
  BY <1>1, <1>2 DEF Fresh, Decided, LiveQuote
<1>4. RowsSettled'
  BY <1>1 DEF SInv, RowsSettled, Marked, OneAccepted, BookedDealStands, LiveQuote
<1>5. BoardStep
  BY <1>1, SameStanding, BoardStutters
<1> QED BY <1>3, <1>4, <1>5 DEF SInv

\* A step that writes and returns: the rows it leaves must be settled.
LEMMA SoloReturn ==
    ASSUME Solo, SInv, IInv', NEW r \in Requests, Return(r), RowsSettled'
    PROVE  SInv'
<1>1. \A s \in Requests : req'[s] = Idle
  BY DEF Solo, SInv, IInv, TypeOK, Return
<1>2. \A s \in Requests : Fresh(req[s])'
  BY <1>1, IdleType DEF Fresh, Decided, HostOps
<1> QED BY <1>2 DEF SInv

---------------------------------------------------------------------------
(* The reading steps of one handler at a time *)

LEMMA FreshStart ==
    ASSUME NEW op, NEW at, NEW by, NEW arg, NEW m, NEW seen, NEW ids,
           op = "post" => at = "create" /\ seen = status /\ status \notin Closed,
           op \in HostOps => at = "quote" /\ status \notin Closed \cup {"BOOKED"},
           op = "unsend" => m \in Messages /\ ~msg[m].unsent /\ msg[m].flags = NoFlags
    PROVE  Fresh(Handler(op, at, by, arg, m, seen, ids))
<1> DEFINE h == Handler(op, at, by, arg, m, seen, ids)
<1>1. h.op = op /\ h.at = at /\ h.m = m /\ h.seen = seen
  BY DEF Handler
<1> HIDE DEF h
<1>2. Fresh(h)
  BY <1>1 DEF Fresh, Decided, HostOps
<1> QED BY <1>2 DEF h

LEMMA SoloArrive ==
    ASSUME Solo, SInv, IInv', NEW r \in Requests, Arrive(r)
    PROVE  SInv' /\ BoardStep
<1>1. ASSUME NEW by \in Parties, NEW kind \in Kinds, NEW m \in Messages, PostRead(r, by, kind, m)
      PROVE  SInv' /\ BoardStep
  <2> DEFINE h == Handler("post", "create", by, kind, m, status, {})
  <2>1. /\ kind \in AllKinds /\ status \in Statuses /\ "create" \in Phases
        /\ "post" \in AllCalls \cup {"none"}
    BY ThreadAssumption DEF SInv, IInv, TypeOK, Phases, AllCalls
  <2>2. h \in Request
    BY <2>1, HandlerType
  <2>3. Fresh(h)
    BY <1>1, FreshStart DEF PostRead, HostOps
  <2> HIDE DEF h
  <2> QED BY <1>1, <2>2, <2>3, SoloRead DEF PostRead, h
<1>2. ASSUME NEW op \in HostOps, NEW m \in Messages, DecisionReadInquiry(r, op, m)
      PROVE  SInv' /\ BoardStep
  <2> DEFINE h == Handler(op, "quote", "host", "PENDING", m, "PENDING", {})
  <2>1. /\ op \in AllCalls \cup {"none"} /\ "quote" \in Phases /\ "host" \in Parties
        /\ "PENDING" \in AllKinds \cup Statuses /\ "PENDING" \in Statuses
    BY DEF HostOps, AllCalls, Phases, Parties, Statuses
  <2>2. h \in Request
    BY <2>1, HandlerType
  <2>3. Fresh(h)
    BY <1>2, FreshStart DEF DecisionReadInquiry, HostOps
  <2> QED BY <1>2, <2>2, <2>3, SoloRead DEF DecisionReadInquiry
<1>3. ASSUME NEW choice \in {"ACCEPTED", "DECLINED"}, DecideRead(r, choice)
      PROVE  SInv' /\ BoardStep
  <2> DEFINE h == Handler("decide", "commit", "vendor", choice, NoMessage, "PENDING", {})
  <2>1. /\ "decide" \in AllCalls \cup {"none"} /\ "commit" \in Phases /\ "vendor" \in Parties
        /\ choice \in AllKinds \cup Statuses /\ "PENDING" \in Statuses
    BY DEF AllCalls, Phases, Parties, Statuses
  <2>2. h \in Request
    BY <2>1, HandlerType
  <2>3. Fresh(h)
    BY FreshStart DEF HostOps
  <2> QED BY <1>3, <2>2, <2>3, SoloRead DEF DecideRead
<1>4. ASSUME NEW op \in {"edit", "unsend"}, NEW by \in Parties, NEW m \in Messages,
             AmendRead(r, op, by, m)
      PROVE  SInv' /\ BoardStep
  <2> DEFINE h == Handler(op, "commit", by, "PENDING", m, "PENDING", {})
  <2>1. /\ op \in AllCalls \cup {"none"} /\ "commit" \in Phases
        /\ "PENDING" \in AllKinds \cup Statuses /\ "PENDING" \in Statuses
    BY DEF AllCalls, Phases, Statuses
  <2>2. h \in Request
    BY <2>1, HandlerType
  <2>3. Fresh(h)
    BY <1>4, FreshStart DEF AmendRead, Unsendable, HostOps
  <2> QED BY <1>4, <2>2, <2>3, SoloRead DEF AmendRead
<1>5. ASSUME NEW by \in Parties, MarkRead(r, by)
      PROVE  SInv' /\ BoardStep
  <2> DEFINE unread == {m \in Messages : /\ msg[m].kind # "NONE" /\ msg[m].from # by
                                         /\ ~msg[m].read /\ ~msg[m].unsent}
             h == Handler("read", "commit", by, "PENDING", NoMessage, "PENDING", unread)
  <2>1. /\ "read" \in AllCalls \cup {"none"} /\ "commit" \in Phases
        /\ "PENDING" \in AllKinds \cup Statuses /\ "PENDING" \in Statuses
        /\ unread \in SUBSET Messages
    BY DEF AllCalls, Phases, Statuses
  <2> HIDE DEF unread
  <2>2. h \in Request
    BY <2>1, HandlerType
  <2>3. Fresh(h)
    BY FreshStart DEF HostOps
  <2> QED BY <1>5, <2>2, <2>3, SoloRead DEF MarkRead, unread
<1> QED BY <1>1, <1>2, <1>3, <1>4, <1>5 DEF Arrive

LEMMA SoloDie ==
    ASSUME Solo, SInv, IInv', NEW r \in Requests, Die(r)
    PROVE  SInv' /\ BoardStep
<1>1. Fresh(Idle)
  BY IdleType DEF Fresh, Decided, HostOps
<1> QED BY <1>1, IdleType, SoloRead DEF Die, Return

LEMMA SoloReadQuote ==
    ASSUME Solo, SInv, IInv', NEW r \in Requests, DecisionReadQuote(r)
    PROVE  SInv' /\ BoardStep
<1> DEFINE m == req[r].m
           next == IF req[r].op = "accept" THEN "siblings" ELSE "commit"
           h == [req[r] EXCEPT !.snap = msg[m].flags, !.at = next]
<1>1. req[r] \in Request /\ m \in Messages /\ Fresh(req[r]) /\ req[r].op \in HostOps
  BY DEF SInv, IInv, TypeOK, HandlerOK, DecisionReadQuote
<1>2. CASE LiveQuote(m) /\ Admissible(req[r].op, msg[m].flags)
  <2>1. msg[m].flags \in Flags /\ next \in Phases
    BY <1>1 DEF SInv, IInv, TypeOK, Message, Phases
  <2>2. /\ h \in Request /\ h.op = req[r].op /\ h.at = next /\ h.m = m
        /\ h.snap = msg[m].flags
    BY <1>1, <2>1 DEF Request
  <2>3. req' = [req EXCEPT ![r] = h]
    BY <1>2 DEF DecisionReadQuote
  <2> HIDE DEF h
  <2>4. Fresh(h)
    BY <1>1, <1>2, <2>2 DEF Fresh, Decided, HostOps
  <2> QED BY <2>2, <2>3, <2>4, SoloRead DEF DecisionReadQuote
<1>3. CASE ~(LiveQuote(m) /\ Admissible(req[r].op, msg[m].flags))
  <2>1. Fresh(Idle)
    BY IdleType DEF Fresh, Decided, HostOps
  <2> QED BY <1>3, <2>1, IdleType, SoloRead DEF DecisionReadQuote, Return
<1> QED BY <1>2, <1>3

LEMMA SoloReadSiblings ==
    ASSUME Solo, SInv, IInv', NEW r \in Requests, AcceptReadSiblings(r)
    PROVE  SInv' /\ BoardStep
<1> DEFINE m == req[r].m
           sibs == [s \in Messages |-> IF s # m /\ LiveQuote(s) /\ msg[s].flags.accepted
                                       THEN msg[s].flags ELSE NoFlags]
           h == [req[r] EXCEPT !.at = "commit", !.sibs = sibs]
<1>1. /\ req[r] \in Request /\ Fresh(req[r])
      /\ req[r].op = "accept" /\ req[r].at = "siblings"
  BY DEF SInv, IInv, TypeOK, AcceptReadSiblings
<1>2. sibs \in [Messages -> Flags]
  BY NoFlagsType DEF SInv, IInv, TypeOK, Message
<1>3. \A s \in Messages : sibs[s] = IF s # m /\ LiveQuote(s) /\ msg[s].flags.accepted
                                    THEN msg[s].flags ELSE NoFlags
  OBVIOUS
<1>4. req' = [req EXCEPT ![r] = h]
  BY DEF AcceptReadSiblings
<1> HIDE DEF sibs
<1>5. /\ h \in Request /\ h.op = "accept" /\ h.at = "commit" /\ h.m = m
      /\ h.snap = req[r].snap /\ h.sibs = sibs
  BY <1>1, <1>2 DEF Request, Phases
<1> HIDE DEF h
<1>6. Fresh(h)
  BY <1>1, <1>3, <1>5 DEF Fresh, Decided, HostOps
<1> QED BY <1>4, <1>5, <1>6, SoloRead DEF AcceptReadSiblings

---------------------------------------------------------------------------
(* The writing steps of one handler at a time *)

LEMMA SoloPostCreate ==
    ASSUME Solo, SInv, IInv', NEW r \in Requests, PostCreate(r)
    PROVE  SInv' /\ BoardStep
<1>0. PICK m : m = req[r].m
  OBVIOUS
<1> DEFINE row == Row(req[r].arg, req[r].by, "sent")
           stands == [n \in Messages |-> Standing(n)]
<1>1. /\ req[r] \in Request /\ Fresh(req[r]) /\ req[r].op = "post" /\ req[r].at = "create"
      /\ m \in Messages /\ msg[m].kind = "NONE"
      /\ req[r].seen = status /\ status \notin Closed
  BY <1>0 DEF SInv, IInv, TypeOK, PostCreate, HandlerOK, Posting, Fresh
<1>2. row.kind = req[r].arg /\ row.flags = NoFlags /\ ~row.unsent
  BY DEF Row
<1> HIDE DEF row
<1>3. /\ \A n \in Messages : msg'[n] = IF n = m THEN row ELSE msg[n]
      /\ UNCHANGED <<status, deal, bookedAt, everAccepted>>
  BY <1>0, <1>1 DEF SInv, IInv, TypeOK, PostCreate, inquiry, row
<1>4. \A s \in Requests : /\ req'[s].at = "touch" /\ req'[s].op = "post"
                          /\ req'[s].m = m /\ req'[s].seen = status
  BY <1>0, <1>1 DEF Solo, SInv, IInv, TypeOK, PostCreate, Goto, Request
<1>5. \A s \in Requests : Fresh(req[s])'
  BY <1>1, <1>2, <1>3, <1>4 DEF Fresh, Decided, HostOps
<1>6. msg[m].flags = NoFlags /\ ~LiveQuote(m) /\ Standing(m) = "none"
  <2>1. ~LiveQuote(m)
    BY <1>1 DEF LiveQuote
  <2>2. Standing(m) = "none"
    BY <1>1 DEF Standing
  <2> QED BY <1>1, <2>1, <2>2 DEF SInv, RowsSettled, Marked
<1>7. \A n \in Messages : n # m => Standing(n)' = Standing(n) /\ LiveQuote(n)' = LiveQuote(n)
  BY <1>3, SameStanding
<1>8. RowsSettled'
  <2>1. Marked' /\ OneAccepted'
    BY <1>2, <1>3, <1>7 DEF SInv, RowsSettled, Marked, OneAccepted, NoFlags
  <2>2. BookedDealStands'
    BY <1>3, <1>6, <1>7 DEF SInv, IInv, TypeOK, RowsSettled, BookedDealStands
  <2> QED BY <2>1, <2>2 DEF RowsSettled
<1>9. BoardStep
  <2>1. \A n \in Messages : msg'[n].flags.booked = msg[n].flags.booked
    BY <1>2, <1>3, <1>6
  <2>2. CASE req[r].arg = "QUOTE"
    <3>1. Standing(m)' = "open"
      BY <1>1, <1>2, <1>3, <2>2 DEF Standing, NoFlags
    <3>2. stands' = [stands EXCEPT ![m] = "open"]
      BY <1>1, <1>7, <3>1
    <3>3. {n \in Messages : msg[n].flags.booked}' = {n \in Messages : msg[n].flags.booked}
      BY <2>1
    <3> QED BY <1>1, <1>3, <1>6, <3>2, <3>3
            DEF BoardStep, Board!Next, Board!Offer, Board!Open, Closed
  <2>3. CASE req[r].arg # "QUOTE"
    <3>1. Standing(m)' = "none"
      BY <1>1, <1>2, <1>3, <2>3 DEF Standing
    <3>2. \A n \in Messages : Standing(n)' = Standing(n)
      BY <1>6, <1>7, <3>1
    <3> QED BY <1>3, <2>1, <3>2, BoardStutters
  <2> QED BY <2>2, <2>3
<1> QED BY <1>5, <1>8, <1>9 DEF SInv

LEMMA SoloPostTouch ==
    ASSUME Solo, SInv, IInv', NEW r \in Requests, PostTouch(r)
    PROVE  SInv' /\ BoardStep
<1>0. PICK m : m = req[r].m
  OBVIOUS
<1>1. /\ m \in Messages /\ msg[m].kind = req[r].arg /\ ~msg[m].unsent /\ msg[m].flags = NoFlags
      /\ req[r].seen = status /\ status \notin Closed
  BY <1>0 DEF SInv, IInv, PostTouch, HandlerOK, Fresh
<1>2. \A n \in Messages : Standing(n)' = Standing(n) /\ LiveQuote(n)' = LiveQuote(n)
  BY SameStanding DEF PostTouch
<1>3. CASE MovesToQuoted(r)
  <2>1. status' = "QUOTED" /\ deal' = m /\ UNCHANGED msg
    BY <1>0, <1>3 DEF PostTouch
  <2>2. RowsSettled'
    BY <1>2, <2>1 DEF SInv, RowsSettled, Marked, OneAccepted, BookedDealStands
  <2>3. Standing(m) = "open"
    BY <1>1, <1>3 DEF Standing, MovesToQuoted, NoFlags
  <2>4. [n \in Messages |-> Standing(n)]' = [n \in Messages |-> Standing(n)]
    BY <1>2
  <2>5. Board!Announce(m)
    BY <1>1, <1>3, <2>1, <2>3, <2>4
       DEF Board!Announce, Board!Deciding, Board!Open, MovesToQuoted, Closed
  <2> QED BY <1>1, <2>2, <2>5, SoloReturn DEF PostTouch, BoardStep, Board!Next
<1>4. CASE ~MovesToQuoted(r)
  <2>1. UNCHANGED <<status, deal, msg>>
    BY <1>4 DEF PostTouch
  <2>2. RowsSettled'
    BY <1>2, <2>1 DEF SInv, RowsSettled, Marked, OneAccepted, BookedDealStands, LiveQuote
  <2> QED BY <1>2, <2>1, <2>2, SoloReturn, BoardStutters DEF PostTouch
<1> QED BY <1>3, <1>4

\* Before a decision is written: what the guards passed on the way still holds.
LEMMA SoloDecision ==
    ASSUME Solo, SInv, NEW r \in Requests, req[r].op \in HostOps, req[r].at = "commit"
    PROVE  LET m == req[r].m IN
           /\ m \in Messages /\ LiveQuote(m) /\ req[r].snap = msg[m].flags
           /\ msg[m].flags \in Flags /\ Consistent(msg[m].flags)
           /\ Admissible(req[r].op, msg[m].flags)
           /\ status \notin Closed \cup {"BOOKED"}
<1> DEFINE m == req[r].m
<1>1. /\ HandlerOK(req[r]) /\ Fresh(req[r]) /\ Decided(req[r])
  BY DEF SInv, IInv, Decided
<1>2. m \in Messages /\ LiveQuote(m) /\ req[r].snap = msg[m].flags
      /\ Admissible(req[r].op, req[r].snap) /\ status \notin Closed \cup {"BOOKED"}
  BY <1>1 DEF HandlerOK, Fresh
<1>3. msg[m].flags \in Flags /\ Consistent(msg[m].flags)
  BY <1>2 DEF SInv, IInv, TypeOK, Message, RowOK
<1> QED BY <1>2, <1>3

LEMMA PayloadMarks ==
    ASSUME NEW f
    PROVE  /\ Accepted(f).accepted /\ ~Accepted(f).rejected /\ Accepted(f).booked = f.booked
           /\ ~Passed(f).accepted /\ Passed(f).rejected = f.rejected
           /\ Passed(f).booked = f.booked
BY DEF Accepted, Passed

LEMMA SoloAccept ==
    ASSUME Solo, SInv, IInv', NEW r \in Requests, AcceptCommit(r)
    PROVE  SInv' /\ BoardStep
<1>0. PICK m : m = req[r].m
  OBVIOUS
<1> DEFINE stands == [n \in Messages |-> Standing(n)]
           sibs == req[r].sibs
<1>1. /\ m \in Messages /\ LiveQuote(m) /\ req[r].snap = msg[m].flags
      /\ msg[m].flags \in Flags /\ ~msg[m].flags.accepted /\ ~msg[m].flags.rejected
      /\ status \notin Closed \cup {"BOOKED"}
  BY <1>0, SoloDecision DEF AcceptCommit, HostOps, Admissible
<1>2. \A s \in Messages :
         sibs[s] = IF s # m /\ LiveQuote(s) /\ msg[s].flags.accepted
                   THEN msg[s].flags ELSE NoFlags
  BY <1>0 DEF SInv, AcceptCommit, Fresh
<1>3. /\ msg \in [Messages -> Message]
      /\ \A n \in Messages : msg[n].flags \in Flags /\ Consistent(msg[n].flags)
      /\ \A n \in Messages : msg[n].flags.accepted => LiveQuote(n)
  BY DEF SInv, IInv, TypeOK, RowOK, Message, RowsSettled, Marked, NoFlags
<1>4. ASSUME NEW n \in Messages
      PROVE  /\ msg'[n].kind = msg[n].kind /\ msg'[n].unsent = msg[n].unsent
             /\ msg'[n].flags = IF n = m THEN Accepted(msg[m].flags)
                                ELSE IF msg[n].flags.accepted THEN Passed(msg[n].flags)
                                ELSE msg[n].flags
  <2>1. sibs[n].accepted <=> n # m /\ msg[n].flags.accepted
    BY <1>2, <1>3 DEF NoFlags
  <2>2. sibs[n].accepted => sibs[n] = msg[n].flags
    BY <1>2 DEF NoFlags
  <2>3. msg'[n] = IF n = m THEN [msg[n] EXCEPT !.flags = Accepted(msg[m].flags)]
                  ELSE IF sibs[n].accepted THEN [msg[n] EXCEPT !.flags = Passed(sibs[n])]
                  ELSE msg[n]
    BY <1>0, <1>1 DEF AcceptCommit
  <2>4. msg[n] \in Message
    BY <1>3
  <2> HIDE DEF sibs
  <2> QED BY <2>1, <2>2, <2>3, <2>4 DEF Message
<1>5. /\ UNCHANGED status /\ deal' = m /\ Return(r)
  BY <1>0 DEF AcceptCommit
<1>6. ASSUME NEW n \in Messages
      PROVE  /\ LiveQuote(n)' = LiveQuote(n)
             /\ msg'[n].flags.booked = msg[n].flags.booked
             /\ msg'[n].flags.accepted <=> n = m
             /\ msg'[n].flags # NoFlags => n = m \/ msg[n].flags # NoFlags
             /\ Standing(n)' = IF n = m THEN "accepted"
                               ELSE IF Standing(n) = "accepted" THEN "open" ELSE Standing(n)
  <2>1. LiveQuote(n)' = LiveQuote(n)
    BY <1>4 DEF LiveQuote
  <2>2. msg'[n].flags.booked = msg[n].flags.booked
    BY <1>4, PayloadMarks
  <2>3. msg'[n].flags.accepted <=> n = m
    BY <1>4, PayloadMarks
  <2>4. msg'[n].flags # NoFlags => n = m \/ msg[n].flags # NoFlags
    BY <1>3, <1>4 DEF NoFlags
  <2>5. n # m => msg'[n].flags.rejected = msg[n].flags.rejected
    BY <1>4, PayloadMarks
  <2>6. CASE n = m
    <3>1. Standing(n)' = "accepted"
      BY <1>1, <1>4, <2>3, <2>6 DEF Standing, LiveQuote
    <3> QED BY <2>1, <2>2, <2>3, <2>4, <2>6, <3>1
  <2>7. CASE n # m /\ msg[n].flags.accepted
    <3>1. LiveQuote(n) /\ ~msg[n].flags.rejected
      BY <1>3, <2>7 DEF Consistent
    <3> QED BY <1>4, <2>1, <2>2, <2>3, <2>4, <2>5, <2>7, <3>1 DEF Standing, LiveQuote
  <2>8. CASE n # m /\ ~msg[n].flags.accepted
    <3>1. msg'[n].flags = msg[n].flags
      BY <1>4, <2>8
    <3>2. Standing(n)' = Standing(n) /\ Standing(n) # "accepted"
      BY <1>4, <2>8, <3>1, SameStanding DEF Standing
    <3> QED BY <2>1, <2>2, <2>3, <2>4, <2>8, <3>2
  <2> QED BY <2>1, <2>2, <2>3, <2>4, <2>6, <2>7, <2>8
<1>7. RowsSettled'
  BY <1>1, <1>5, <1>6 DEF SInv, RowsSettled, Marked, OneAccepted, BookedDealStands
<1>8. Board!Accept(m)
  <2>1. stands' = [n \in Messages |-> IF n = m THEN "accepted"
                                      ELSE IF stands[n] = "accepted" THEN "open" ELSE stands[n]]
    BY <1>6
  <2>2. stands[m] = "open"
    BY <1>1 DEF Standing, LiveQuote
  <2>3. {n \in Messages : msg[n].flags.booked}' = {n \in Messages : msg[n].flags.booked}
    BY <1>6
  <2> QED BY <1>1, <1>5, <2>1, <2>2, <2>3
          DEF Board!Accept, Board!Deciding, Board!Open, Closed
<1> QED BY <1>1, <1>5, <1>7, <1>8, SoloReturn DEF BoardStep, Board!Next

\* Rejecting and booking rewrite one payload.
LEMMA OneRow ==
    ASSUME SInv, NEW m \in Messages, NEW f \in Flags, msg' = [msg EXCEPT ![m].flags = f]
    PROVE  \A n \in Messages :
             /\ msg'[n].kind = msg[n].kind /\ msg'[n].unsent = msg[n].unsent
             /\ msg'[n].flags = IF n = m THEN f ELSE msg[n].flags
             /\ LiveQuote(n)' = LiveQuote(n)
             /\ n # m => Standing(n)' = Standing(n)
<1>1. msg \in [Messages -> Message]
  BY DEF SInv, IInv, TypeOK
<1>2. \A n \in Messages :
         /\ msg'[n].kind = msg[n].kind /\ msg'[n].unsent = msg[n].unsent
         /\ msg'[n].flags = IF n = m THEN f ELSE msg[n].flags
  BY <1>1 DEF Message
<1> QED BY <1>2, SameStanding DEF LiveQuote

LEMMA SoloReject ==
    ASSUME Solo, SInv, IInv', NEW r \in Requests, RejectCommit(r)
    PROVE  SInv' /\ BoardStep
<1>0. PICK m : m = req[r].m
  OBVIOUS
<1> DEFINE stands == [n \in Messages |-> Standing(n)]
<1>1. /\ m \in Messages /\ LiveQuote(m) /\ req[r].snap = msg[m].flags
      /\ msg[m].flags \in Flags /\ ~msg[m].flags.booked /\ ~msg[m].flags.rejected
      /\ status \notin Closed \cup {"BOOKED"}
  BY <1>0, SoloDecision DEF RejectCommit, HostOps, Admissible
<1>2. PICK f \in Flags : f = [accepted |-> FALSE, rejected |-> TRUE, booked |-> FALSE]
  BY DEF Flags
<1>3. msg' = [msg EXCEPT ![m].flags = f] /\ UNCHANGED <<status, deal>> /\ Return(r)
  BY <1>0, <1>1, <1>2 DEF RejectCommit, Rejected, inquiry, Flags
<1>4. \A n \in Messages : /\ msg'[n].kind = msg[n].kind /\ msg'[n].unsent = msg[n].unsent
                          /\ msg'[n].flags = IF n = m THEN f ELSE msg[n].flags
                          /\ LiveQuote(n)' = LiveQuote(n)
                          /\ n # m => Standing(n)' = Standing(n)
  BY <1>1, <1>3, OneRow
<1>5. RowsSettled'
  BY <1>1, <1>2, <1>3, <1>4 DEF SInv, RowsSettled, Marked, OneAccepted, BookedDealStands
<1>6. Board!Reject(m)
  <2>1. Standing(m) \in {"open", "accepted"} /\ Standing(m)' = "rejected"
    BY <1>1, <1>2, <1>4 DEF Standing, LiveQuote
  <2>2. stands' = [stands EXCEPT ![m] = "rejected"]
    BY <1>1, <1>4, <2>1
  <2>3. {n \in Messages : msg[n].flags.booked}' = {n \in Messages : msg[n].flags.booked}
    BY <1>1, <1>2, <1>4
  <2> QED BY <1>1, <1>3, <2>1, <2>2, <2>3
          DEF Board!Reject, Board!Deciding, Board!Open, Closed
<1> QED BY <1>1, <1>3, <1>5, <1>6, SoloReturn DEF BoardStep, Board!Next

LEMMA SoloBook ==
    ASSUME Solo, SInv, IInv', NEW r \in Requests, BookCommit(r)
    PROVE  SInv' /\ BoardStep
<1>0. PICK m : m = req[r].m
  OBVIOUS
<1> DEFINE stands == [n \in Messages |-> Standing(n)]
<1>1. /\ m \in Messages /\ LiveQuote(m) /\ req[r].snap = msg[m].flags
      /\ msg[m].flags \in Flags /\ msg[m].flags.accepted /\ ~msg[m].flags.rejected
      /\ status \notin Closed \cup {"BOOKED"}
  BY <1>0, SoloDecision DEF BookCommit, HostOps, Admissible
<1>2. PICK f \in Flags : f = [accepted |-> TRUE, rejected |-> FALSE, booked |-> TRUE]
  BY DEF Flags
<1>3. msg' = [msg EXCEPT ![m].flags = f] /\ status' = "BOOKED" /\ deal' = m /\ Return(r)
  BY <1>0, <1>1, <1>2 DEF BookCommit, Booked, Flags
<1>4. \A n \in Messages : /\ msg'[n].kind = msg[n].kind /\ msg'[n].unsent = msg[n].unsent
                          /\ msg'[n].flags = IF n = m THEN f ELSE msg[n].flags
                          /\ LiveQuote(n)' = LiveQuote(n)
                          /\ n # m => Standing(n)' = Standing(n)
  BY <1>1, <1>3, OneRow
<1>5. RowsSettled'
  <2>1. Marked'
    BY <1>1, <1>4 DEF SInv, RowsSettled, Marked
  <2>2. \A n \in Messages : msg'[n].flags.accepted => msg[n].flags.accepted
    BY <1>1, <1>4
  <2>3. OneAccepted'
    BY <2>2 DEF SInv, RowsSettled, OneAccepted
  <2>4. BookedDealStands'
    BY <1>1, <1>2, <1>3, <1>4, ThreadAssumption DEF BookedDealStands
  <2> QED BY <2>1, <2>3, <2>4 DEF RowsSettled
<1>6. Board!Book(m)
  <2>1. Standing(m) = "accepted" /\ Standing(m)' = "accepted"
    BY <1>1, <1>2, <1>4 DEF Standing, LiveQuote
  <2>2. stands' = stands
    BY <1>4, <2>1
  <2>3. {n \in Messages : msg[n].flags.booked}'
           = {n \in Messages : msg[n].flags.booked} \cup {m}
    BY <1>1, <1>2, <1>4
  <2> QED BY <1>1, <1>3, <2>1, <2>2, <2>3
          DEF Board!Book, Board!Deciding, Board!Open, Closed
<1> QED BY <1>1, <1>3, <1>5, <1>6, SoloReturn DEF BoardStep, Board!Next

LEMMA SoloDecide ==
    ASSUME Solo, SInv, IInv', NEW r \in Requests, DecideCommit(r)
    PROVE  SInv' /\ BoardStep
<1>1. /\ status' \in {"ACCEPTED", "DECLINED"} /\ UNCHANGED <<deal, msg>> /\ Return(r)
  BY DEF SInv, IInv, HandlerOK, DecideCommit
<1>2. \A n \in Messages : Standing(n)' = Standing(n)
  BY <1>1, SameStanding
<1>3. RowsSettled'
  BY <1>1 DEF SInv, RowsSettled, Marked, OneAccepted, BookedDealStands, LiveQuote
<1>4. Board!Decide
  <2>1. [n \in Messages |-> Standing(n)]' = [n \in Messages |-> Standing(n)]
    BY <1>2
  <2> QED BY <1>1, <2>1 DEF Board!Decide
<1> QED BY <1>1, <1>3, <1>4, SoloReturn DEF BoardStep, Board!Next

LEMMA SoloUnsend ==
    ASSUME Solo, SInv, IInv', NEW r \in Requests, UnsendCommit(r)
    PROVE  SInv' /\ BoardStep
<1>0. PICK m : m = req[r].m
  OBVIOUS
<1> DEFINE stands == [n \in Messages |-> Standing(n)]
<1>1. m \in Messages /\ ~msg[m].unsent /\ msg[m].flags = NoFlags
  BY <1>0 DEF SInv, Fresh, UnsendCommit
<1>2. /\ \A n \in Messages : /\ msg'[n].kind = msg[n].kind /\ msg'[n].flags = msg[n].flags
                             /\ n # m => msg'[n].unsent = msg[n].unsent
      /\ msg'[m].unsent
      /\ UNCHANGED <<status, deal>> /\ Return(r)
  BY <1>0, <1>1 DEF SInv, IInv, TypeOK, Message, UnsendCommit, inquiry
<1>3. \A n \in Messages : n # m => Standing(n)' = Standing(n) /\ LiveQuote(n)' = LiveQuote(n)
  BY <1>2, SameStanding
<1>4. RowsSettled'
  <2>1. Marked' /\ OneAccepted'
    BY <1>1, <1>2, <1>3 DEF SInv, RowsSettled, Marked, OneAccepted
  <2>2. BookedDealStands'
    BY <1>1, <1>2, <1>3 DEF SInv, IInv, TypeOK, RowsSettled, BookedDealStands, NoFlags
  <2> QED BY <2>1, <2>2 DEF RowsSettled
<1>5. {n \in Messages : msg[n].flags.booked}' = {n \in Messages : msg[n].flags.booked}
  BY <1>2
<1>6. CASE msg[m].kind = "QUOTE"
  <2>1. Standing(m) = "open" /\ Standing(m)' = "unsent"
    BY <1>1, <1>2, <1>6 DEF Standing, NoFlags
  <2>2. stands' = [stands EXCEPT ![m] = "unsent"]
    BY <1>1, <1>3, <2>1
  <2>3. m \notin {n \in Messages : msg[n].flags.booked}
    BY <1>1 DEF NoFlags
  <2>4. Board!Unsend(m)
    BY <1>1, <1>2, <1>5, <2>1, <2>2, <2>3 DEF Board!Unsend
  <2> QED BY <1>1, <1>2, <1>4, <2>4, SoloReturn DEF BoardStep, Board!Next
<1>7. CASE msg[m].kind # "QUOTE"
  <2>1. Standing(m) = "none" /\ Standing(m)' = "none"
    BY <1>1, <1>2, <1>7 DEF Standing
  <2>2. \A n \in Messages : Standing(n)' = Standing(n)
    BY <1>3, <2>1
  <2>3. \A n \in Messages : msg'[n].flags.booked = msg[n].flags.booked
    BY <1>2
  <2> QED BY <1>2, <1>4, <2>2, <2>3, SoloReturn, BoardStutters
<1> QED BY <1>6, <1>7

\* Steps that rewrite only the text, the read mark or the age of messages.
LEMMA BoardBlind ==
    ASSUME SInv, UNCHANGED <<status, deal>>,
           \A n \in Messages : /\ msg'[n].kind = msg[n].kind /\ msg'[n].unsent = msg[n].unsent
                               /\ msg'[n].flags = msg[n].flags
    PROVE  RowsSettled' /\ BoardStep
<1>1. \A n \in Messages : Standing(n)' = Standing(n) /\ LiveQuote(n)' = LiveQuote(n)
  BY SameStanding
<1>2. RowsSettled'
  <2>1. Marked' /\ OneAccepted'
    BY <1>1 DEF SInv, RowsSettled, Marked, OneAccepted
  <2>2. BookedDealStands'
    BY <1>1 DEF SInv, IInv, TypeOK, RowsSettled, BookedDealStands
  <2> QED BY <2>1, <2>2 DEF RowsSettled
<1> QED BY <1>1, <1>2, BoardStutters

LEMMA SoloAmend ==
    ASSUME Solo, SInv, IInv', NEW r \in Requests, EditCommit(r) \/ MarkCommit(r)
    PROVE  SInv' /\ BoardStep
<1>1. msg \in [Messages -> Message]
  BY DEF SInv, IInv, TypeOK
<1>2. \A n \in Messages : /\ msg'[n].kind = msg[n].kind /\ msg'[n].unsent = msg[n].unsent
                          /\ msg'[n].flags = msg[n].flags
  <2>1. CASE EditCommit(r)
    BY <1>1, <2>1 DEF EditCommit, Message
  <2>2. CASE MarkCommit(r)
    BY <1>1, <2>2 DEF MarkCommit, Message
  <2> QED BY <2>1, <2>2
<1>3. UNCHANGED <<status, deal>> /\ Return(r)
  BY DEF EditCommit, MarkCommit, inquiry
<1> QED BY <1>2, <1>3, BoardBlind, SoloReturn

LEMMA SoloWindowCloses ==
    ASSUME Solo, SInv, IInv', NEW m \in Messages, WindowCloses(m)
    PROVE  SInv' /\ BoardStep
<1>1. \A n \in Messages : /\ msg'[n].kind = msg[n].kind /\ msg'[n].unsent = msg[n].unsent
                          /\ msg'[n].flags = msg[n].flags
  BY DEF SInv, IInv, TypeOK, WindowCloses, Message
<1>2. UNCHANGED <<status, deal, req>>
  BY DEF WindowCloses, inquiry
<1>3. ASSUME NEW s \in Requests PROVE Fresh(req[s])'
  <2>1. Fresh(req[s]) /\ HandlerOK(req[s])
    BY DEF SInv, IInv
  <2>2. \A n \in Messages : LiveQuote(n)' = LiveQuote(n)
    BY <1>1 DEF LiveQuote
  <2>3. req'[s] = req[s]
    BY <1>2
  <2> QED BY <1>1, <1>2, <2>1, <2>2, <2>3 DEF Fresh, HandlerOK, Decided
<1> QED BY <1>1, <1>2, <1>3, BoardBlind DEF SInv

---------------------------------------------------------------------------
(* The theorems for one handler at a time *)

LEMMA SoloInit == Init => SInv /\ Board!Init
<1> SUFFICES ASSUME Init PROVE SInv /\ Board!Init
  OBVIOUS
<1>1. Absent.flags = NoFlags /\ Absent.kind = "NONE"
  BY DEF Absent, Row
<1>2. RowsSettled
  BY <1>1 DEF Init, RowsSettled, Marked, OneAccepted, BookedDealStands, NoFlags
<1>3. \A r \in Requests : Fresh(req[r])
  BY IdleType DEF Init, Fresh, Decided, HostOps
<1>4. \A m \in Messages : Standing(m) = "none" /\ ~msg[m].flags.booked
  BY <1>1 DEF Init, Standing, NoFlags
<1> QED BY <1>2, <1>3, <1>4, InitEstablishes DEF SInv, Init, Board!Init

LEMMA SoloNext == ASSUME Solo PROVE SInv /\ [Next]_vars => SInv' /\ BoardStep
<1> SUFFICES ASSUME SInv, [Next]_vars PROVE SInv' /\ BoardStep
  OBVIOUS
<1>0. IInv'
  BY NextKeeps DEF SInv
<1>1. CASE UNCHANGED vars
  <2>1. UNCHANGED <<status, deal, bookedAt, msg, req>>
    BY <1>1 DEF vars, inquiry
  <2>2. \A r \in Requests : Fresh(req[r])'
    BY <2>1 DEF SInv, Fresh, Decided, LiveQuote
  <2> QED BY <1>0, <2>1, <2>2, BoardBlind DEF SInv
<1>2. ASSUME NEW r \in Requests, Step(r) PROVE SInv' /\ BoardStep
  BY <1>0, <1>2, SoloPostCreate, SoloPostTouch, SoloReadQuote, SoloReadSiblings, SoloAccept,
     SoloReject, SoloBook, SoloDecide, SoloUnsend, SoloAmend DEF Step
<1> QED BY <1>0, <1>1, <1>2, SoloArrive, SoloDie, SoloWindowCloses DEF Next

\* With handlers one after another, what a handler read still holds when it writes, and
\* decisions stand on live quotes only, even if handlers die between two statements.
THEOREM SoloInvariant == ASSUME Solo PROVE Spec => []SInv
<1>1. SInv /\ [Next]_vars => SInv'
  BY SoloNext
<1> QED BY <1>1, SoloInit, PTL DEF Spec

\* With handlers one after another, acceptQuote leaves one quote accepted at most.
THEOREM OneQuoteAccepted == ASSUME Solo PROVE Spec => []OneAccepted
<1>1. SInv => OneAccepted
  BY DEF SInv, RowsSettled
<1> QED BY <1>1, SoloInvariant, PTL

\* With handlers one after another, the amount of a booked inquiry stays that of a quote
\* that is accepted, booked and not unsent.
THEOREM BookedDealIsKept == ASSUME Solo PROVE Spec => []BookedDealStands
<1>1. SInv => BookedDealStands
  BY DEF SInv, RowsSettled
<1> QED BY <1>1, SoloInvariant, PTL

\* With handlers one after another, InquiryThread implements QuoteBoard: every step of a
\* handler is one decision of the board on the quotes as they stand, or none.
THEOREM BoardIsImplemented == ASSUME Solo PROVE Spec => ImplementsBoard
<1>1. SInv /\ [Next]_vars => [Board!Next]_(Board!board)
  BY SoloNext DEF BoardStep
<1> QED BY <1>1, SoloInit, SoloInvariant, PTL DEF Spec, ImplementsBoard, Board!Spec
=============================================================================
