--------------------------- MODULE GuestListProofs ---------------------------
(***************************************************************************)
(* What holds of a guest list of any size, with any number of requests at  *)
(* once. The invariant says what a request that nothing has crossed may    *)
(* still rely on: the addresses it found free are free, the guest it found *)
(* is there with the address and the invite it read.  The second half      *)
(* shows that the list implements InviteBook: every step of a request is   *)
(* one of the book's, or none.                                             *)
(***************************************************************************)
EXTENDS GuestList, TLAPS

\* A guest without an invite has no answer; a token handed out is the guest's.
Invites == \A g \in Guest : /\ token[g] = 0 => answer[g] = "PENDING"
                            /\ handed[g] > 0 => g \in listed /\ token[g] = handed[g]

Reliable(c) ==
    /\ call[c].at \in {"import", "seat"} => \A g \in listed : mail[g] \notin call[c].mails
    /\ call[c].at = "invite" => /\ call[c].guest \in listed
                                /\ token[call[c].guest] = 0
                                /\ mail[call[c].guest] \in call[c].mails
    /\ call[c].at = "answer" => /\ Stored(c)
                                /\ call[c].mails # {} => mail[call[c].guest] \in call[c].mails

\* What even a crossed request holds.
FoundIn(held) ==
    /\ held.at \in {"unlock", "send", "invite", "answer"} => held.guest \in Guest
    /\ held.at = "answer" => held.token > 0
    /\ held.at \in {"find", "seat", "invite", "answer"} => held.says \in Answers

Found(c) == FoundIn(call[c])

IInv ==
    /\ TypeOK
    /\ Invites
    /\ \A c \in Caller : Found(c) /\ (~call[c].crossed => Reliable(c))

-----------------------------------------------------------------------------
\* Who is at rest, or hands out a link, is not marked by a write.
Unmarked == {"idle", "unlock", "send"}

\* Everyone else is crossed by it; what a request holds stays as it is.
LEMMA WriteCrosses ==
    ASSUME TypeOK, NEW held \in Held, NEW c \in Caller, Writes(c, held)
    PROVE  /\ call' \in [Caller -> Held]
           /\ call'[c] = held
           /\ \A d \in Caller \ {c} : /\ call'[d].crossed \/ call'[d].at \in Unmarked
                                      /\ call'[d].at = call[d].at
                                      /\ call'[d].guest = call[d].guest
                                      /\ call'[d].mails = call[d].mails
                                      /\ call'[d].token = call[d].token
                                      /\ call'[d].says = call[d].says
<1>1. \A d \in Caller : call[d] \in Held
  BY DEF TypeOK
<1>2. \A d \in Caller : /\ Crossed(d) \in Held
                        /\ Crossed(d).crossed \/ Crossed(d).at \in Unmarked
                        /\ Crossed(d).at = call[d].at
                        /\ Crossed(d).guest = call[d].guest
                        /\ Crossed(d).mails = call[d].mails
                        /\ Crossed(d).token = call[d].token
                        /\ Crossed(d).says = call[d].says
  BY <1>1 DEF Crossed, Unmarked, Held, Stages
<1>3. call' = [d \in Caller |-> IF d = c THEN held ELSE Crossed(d)]
  BY DEF Writes
<1> QED
  BY <1>2, <1>3

LEMMA WriteAtOnceCrosses ==
    ASSUME TypeOK, WritesAtOnce
    PROVE  /\ call' \in [Caller -> Held]
           /\ \A d \in Caller : /\ call'[d].crossed \/ call'[d].at \in Unmarked
                                /\ call'[d].at = call[d].at
                                /\ call'[d].guest = call[d].guest
                                /\ call'[d].mails = call[d].mails
                                /\ call'[d].token = call[d].token
                                /\ call'[d].says = call[d].says
<1>1. \A d \in Caller : call[d] \in Held
  BY DEF TypeOK
<1>2. \A d \in Caller : /\ Crossed(d) \in Held
                        /\ Crossed(d).crossed \/ Crossed(d).at \in Unmarked
                        /\ Crossed(d).at = call[d].at
                        /\ Crossed(d).guest = call[d].guest
                        /\ Crossed(d).mails = call[d].mails
                        /\ Crossed(d).token = call[d].token
                        /\ Crossed(d).says = call[d].says
  BY <1>1 DEF Crossed, Unmarked, Held, Stages
<1>3. call' = [d \in Caller |-> Crossed(d)]
  BY DEF WritesAtOnce
<1> QED
  BY <1>2, <1>3

LEMMA IdleIsHeld == Idle \in Held /\ Idle.at = "idle" /\ ~Idle.crossed /\ FoundIn(Idle)
BY DEF Idle, Held, Stages, Answers, FoundIn

\* A request that only reads: its own facts are to be shown, the others' stay.
LEMMA ReadKeeps ==
    ASSUME IInv, UNCHANGED <<listed, mail, token, answer>>, NEW c \in Caller, NEW held \in Held,
           call' = [call EXCEPT ![c] = held],
           FoundIn(held),
           ~held.crossed => Reliable(c)'
    PROVE  \A d \in Caller : Found(d)' /\ (~call'[d].crossed => Reliable(d)')
<1>1. call'[c] = held /\ \A d \in Caller \ {c} : call'[d] = call[d]
  BY DEF IInv, TypeOK
<1>2. \A d \in Caller \ {c} : Found(d)' /\ (~call'[d].crossed => Reliable(d)')
  BY <1>1 DEF IInv, Found, FoundIn, Reliable, Stored
<1> QED
  BY <1>1, <1>2 DEF Found

\* After a write only the writer has facts to show.
LEMMA WriteKeeps ==
    ASSUME IInv, NEW c \in Caller, NEW held \in Held, Writes(c, held),
           FoundIn(held),
           ~held.crossed => Reliable(c)'
    PROVE  \A d \in Caller : Found(d)' /\ (~call'[d].crossed => Reliable(d)')
<1>1. /\ call'[c] = held
      /\ \A d \in Caller \ {c} : /\ call'[d].crossed \/ call'[d].at \in Unmarked
                                 /\ call'[d].at = call[d].at
                                 /\ call'[d].guest = call[d].guest
                                 /\ call'[d].token = call[d].token
                                 /\ call'[d].says = call[d].says
  BY WriteCrosses DEF IInv
<1>2. \A d \in Caller \ {c} : Found(d)' /\ (~call'[d].crossed => Reliable(d)')
  BY <1>1 DEF IInv, Found, FoundIn, Reliable, Unmarked
<1> QED
  BY <1>1, <1>2 DEF Found

LEMMA WriteAtOnceKeeps ==
    ASSUME IInv, WritesAtOnce
    PROVE  \A d \in Caller : Found(d)' /\ (~call'[d].crossed => Reliable(d)')
<1>1. \A d \in Caller : /\ call'[d].crossed \/ call'[d].at \in Unmarked
                        /\ call'[d].at = call[d].at
                        /\ call'[d].guest = call[d].guest
                        /\ call'[d].token = call[d].token
                        /\ call'[d].says = call[d].says
  BY WriteAtOnceCrosses DEF IInv
<1> QED
  BY <1>1 DEF IInv, Found, FoundIn, Reliable, Unmarked

-----------------------------------------------------------------------------
\* The rows and their invites, whatever the request.
LEMMA InvitedKeeps ==
    ASSUME TypeOK, Invites, NEW g \in Guest, NEW until \in {"never", "ahead"}, token[g] = 0,
           Invited(g, until)
    PROVE  /\ token' \in [Guest -> Nat] /\ expiry' \in [Guest -> {"never", "ahead", "past"}]
           /\ answer' \in [Guest -> Answers \cup {"PENDING"}]
           /\ token'[g] = 1 /\ answer'[g] = "PENDING"
           /\ \A h \in Guest \ {g} : token'[h] = token[h] /\ answer'[h] = answer[h]
           /\ \A h \in Guest : answer'[h] = answer[h]
<1>1. token' = [token EXCEPT ![g] = 1]
  BY DEF TypeOK, Invited
<1>2. answer[g] = "PENDING"
  BY DEF Invites
<1> QED
  BY <1>1, <1>2 DEF TypeOK, Invited

LEMMA HandOutKeeps ==
    ASSUME TypeOK, Invites, NEW g \in Guest, NEW t \in Nat, HandOut(g, t)
    PROVE  /\ handed' \in [Guest -> Nat]
           /\ handed'[g] \in {handed[g], t}
           /\ \A h \in Guest \ {g} : handed'[h] = handed[h]
BY DEF TypeOK, HandOut

LEMMA InvariantInit == Init => IInv
<1> SUFFICES ASSUME Init PROVE IInv
  OBVIOUS
<1>1. TypeOK
  BY IdleIsHeld, BoundAssumption DEF Init, TypeOK
<1>2. \A c \in Caller : Found(c) /\ Reliable(c)
  BY IdleIsHeld DEF Init, Found, FoundIn, Reliable
<1> QED
  BY <1>1, <1>2 DEF IInv, Invites, Init

\* What a host writes in one step.
LEMMA HostKeeps == IInv /\ HostStep /\ signed' \subseteq listed' => IInv'
<1> SUFFICES ASSUME IInv, HostStep, signed' \subseteq listed' PROVE IInv'
  OBVIOUS
<1> USE DEF IInv
<1>1. ASSUME NEW m \in Mail \cup {NoMail}, AddGuest(m) PROVE IInv'
  <2>1. PICK g \in Guest : Unused(g) /\ Created({g}, [h \in {g} |-> m])
    BY <1>1 DEF AddGuest
  <2>2. /\ listed' = listed \cup {g}
        /\ mail' \in [Guest -> Mail \cup {NoMail}]
    BY <2>1 DEF Created, TypeOK
  <2>3. \A d \in Caller : Found(d)' /\ (~call'[d].crossed => Reliable(d)')
    BY <1>1, WriteAtOnceKeeps DEF AddGuest
  <2>4. call' \in [Caller -> Held]
    BY <1>1, WriteAtOnceCrosses DEF AddGuest
  <2> QED
    BY <1>1, <2>2, <2>3, <2>4 DEF AddGuest, TypeOK, Invites
<1>2. ASSUME NEW g \in Guest, NEW m \in Mail \cup {NoMail}, UpdateGuest(g, m) PROVE IInv'
  <2>1. \A d \in Caller : Found(d)' /\ (~call'[d].crossed => Reliable(d)')
    BY <1>2, WriteAtOnceKeeps DEF UpdateGuest
  <2>2. call' \in [Caller -> Held]
    BY <1>2, WriteAtOnceCrosses DEF UpdateGuest
  <2> QED
    BY <1>2, <2>1, <2>2 DEF UpdateGuest, TypeOK, Invites
<1>3. ASSUME NEW g \in Guest, RemoveGuest(g) PROVE IInv'
  <2>1. \A d \in Caller : Found(d)' /\ (~call'[d].crossed => Reliable(d)')
    BY <1>3, WriteAtOnceKeeps DEF RemoveGuest
  <2>2. call' \in [Caller -> Held]
    BY <1>3, WriteAtOnceCrosses DEF RemoveGuest
  <2> QED
    BY <1>3, <2>1, <2>2 DEF RemoveGuest, TypeOK, Invites
<1> QED
  BY <1>1, <1>2, <1>3 DEF HostStep

\* The requests of the host that take two steps.
LEMMA GuestsKeep ==
    ASSUME IInv, NEW c \in Caller, signed' \subseteq listed',
           \/ ImportRead(c) \/ ImportCreate(c) \/ UnlockCreate(c) \/ SendUpsert(c)
           \/ \E g \in Guest : UnlockRead(c, g) \/ SendRead(c, g)
    PROVE  IInv'
<1> USE DEF IInv
<1>0. call[c] \in Held /\ Found(c)
  BY DEF TypeOK
<1>1. CASE ImportRead(c)
  <2>1. PICK list \in SUBSET Mail : \E new \in SUBSET (list \ Known) :
           Begin(c, [Idle EXCEPT !.at = "import", !.mails = new])
    BY <1>1 DEF ImportRead
  <2>2. PICK new \in SUBSET (list \ Known) :
           Begin(c, [Idle EXCEPT !.at = "import", !.mails = new])
    BY <2>1
  <2> DEFINE held == [Idle EXCEPT !.at = "import", !.mails = new]
  <2>3. held \in Held /\ held.at = "import" /\ held.mails = new /\ FoundIn(held)
    BY DEF Idle, Held, Stages, Answers, FoundIn
  <2>4. call' = [call EXCEPT ![c] = held]
    BY <2>2 DEF Begin
  <2>5. call'[c] = held /\ call' \in [Caller -> Held]
    BY <2>3, <2>4 DEF TypeOK
  <2>6. Reliable(c)'
    <3>1. listed' = listed /\ mail' = mail
      BY <1>1 DEF ImportRead, rows
    <3>2. \A g \in listed : mail[g] \notin new
      BY DEF Known
    <3>3. call'[c].at = "import" /\ call'[c].mails = new
      BY <2>3, <2>5
    <3> QED
      BY <3>1, <3>2, <3>3 DEF Reliable
  <2>7. \A d \in Caller : Found(d)' /\ (~call'[d].crossed => Reliable(d)')
    <3> HIDE DEF held, IInv
    <3> QED
      BY <1>1, <2>3, <2>4, <2>6, ReadKeeps DEF ImportRead, rows
  <2> QED
    BY <1>1, <2>5, <2>7 DEF ImportRead, rows, TypeOK, Invites
<1>2. CASE ImportCreate(c)
  <2>0. PICK new \in SUBSET {g \in Guest : Unused(g)} :
           \E address \in [new -> call[c].mails] : Created(new, address)
    BY <1>2 DEF ImportCreate
  <2>1. PICK address \in [new -> call[c].mails] : Created(new, address)
    BY <2>0
  <2>2. listed' = listed \cup new /\ mail' \in [Guest -> Mail \cup {NoMail}]
    BY <1>0, <2>1 DEF Created, TypeOK, Held
  <2>3. Reliable(c)' /\ call' \in [Caller -> Held]
    BY <1>2, WriteCrosses, IdleIsHeld DEF ImportCreate, Reliable
  <2>4. \A d \in Caller : Found(d)' /\ (~call'[d].crossed => Reliable(d)')
    BY <1>2, <2>3, WriteKeeps, IdleIsHeld DEF ImportCreate
  <2> QED
    BY <1>2, <2>2, <2>3, <2>4 DEF ImportCreate, TypeOK, Invites
<1>3. ASSUME NEW g \in Guest, UnlockRead(c, g) PROVE IInv'
  <2>1. CASE token[g] > 0
    <3>1. HandOut(g, token[g]) /\ UNCHANGED <<call, listed, mail, token, expiry, answer, door, deleted, edits>>
      BY <1>3, <2>1 DEF UnlockRead
    <3>2. g \in listed
      BY <1>3 DEF UnlockRead
    <3>3. handed' \in [Guest -> Nat] /\ handed'[g] \in {handed[g], token[g]}
          /\ \A h \in Guest \ {g} : handed'[h] = handed[h]
      BY <3>1, HandOutKeeps DEF TypeOK
    <3>4. Invites'
      BY <3>1, <3>2, <3>3 DEF Invites, TypeOK
    <3>5. \A d \in Caller : Found(d)' /\ (~call'[d].crossed => Reliable(d)')
      BY <3>1 DEF Found, Reliable, Stored
    <3> QED
      BY <3>1, <3>3, <3>4, <3>5 DEF TypeOK
  <2>2. CASE ~(token[g] > 0)
    <3> DEFINE held == [Idle EXCEPT !.at = "unlock", !.guest = g]
    <3>1. held \in Held /\ held.at = "unlock" /\ FoundIn(held)
      BY DEF Idle, Held, Stages, Answers, FoundIn
    <3>2. call' = [call EXCEPT ![c] = held] /\ UNCHANGED <<rows, door, deleted, edits>>
      BY <1>3, <2>2 DEF UnlockRead, Begin, rows
    <3>3. call'[c] = held /\ call' \in [Caller -> Held]
      BY <3>1, <3>2 DEF TypeOK
    <3>4. Reliable(c)'
      BY <3>1, <3>3 DEF Reliable
    <3>5. \A d \in Caller : Found(d)' /\ (~call'[d].crossed => Reliable(d)')
      <4> HIDE DEF held, IInv
      <4> QED
        BY <3>1, <3>2, <3>4, ReadKeeps DEF rows
    <3> QED
      BY <3>2, <3>3, <3>5 DEF rows, TypeOK, Invites
  <2> QED
    BY <2>1, <2>2
<1>4. CASE UnlockCreate(c)
  <2> DEFINE g == call[c].guest
  <2>0. g \in Guest
    BY <1>0, <1>4 DEF UnlockCreate, Found, FoundIn
  <2>1. CASE g \in listed /\ token[g] = 0
    <3>1. Invited(g, "never") /\ HandOut(g, 1) /\ Writes(c, Idle)
          /\ UNCHANGED <<listed, mail, door, deleted, edits>>
      BY <1>4, <2>0, <2>1 DEF UnlockCreate
    <3>2. /\ token' \in [Guest -> Nat] /\ expiry' \in [Guest -> {"never", "ahead", "past"}]
          /\ answer' \in [Guest -> Answers \cup {"PENDING"}]
          /\ token'[g] = 1 /\ answer'[g] = "PENDING"
          /\ \A h \in Guest \ {g} : token'[h] = token[h] /\ answer'[h] = answer[h]
      BY <2>0, <2>1, <3>1, InvitedKeeps
    <3>3. handed' \in [Guest -> Nat] /\ handed'[g] \in {handed[g], 1}
          /\ \A h \in Guest \ {g} : handed'[h] = handed[h]
      BY <2>0, <3>1, HandOutKeeps
    <3>4. Invites'
      BY <2>0, <2>1, <3>1, <3>2, <3>3 DEF Invites, TypeOK
    <3>5. Reliable(c)' /\ call' \in [Caller -> Held]
      BY <3>1, WriteCrosses, IdleIsHeld DEF Reliable
    <3>6. \A d \in Caller : Found(d)' /\ (~call'[d].crossed => Reliable(d)')
      BY <3>1, <3>5, WriteKeeps, IdleIsHeld
    <3> QED
      BY <2>0, <2>1, <3>1, <3>2, <3>3, <3>4, <3>5, <3>6 DEF TypeOK
  <2>2. CASE ~(g \in listed /\ token[g] = 0)
    <3>1. Moves(c, Idle) /\ UNCHANGED <<rows, door, deleted, edits>>
      BY <1>4, <2>2 DEF UnlockCreate, rows
    <3>2. call' = [call EXCEPT ![c] = Idle] /\ call'[c] = Idle /\ call' \in [Caller -> Held]
      BY <3>1, IdleIsHeld DEF Moves, TypeOK
    <3>3. Reliable(c)'
      BY <3>2, IdleIsHeld DEF Reliable
    <3>4. \A d \in Caller : Found(d)' /\ (~call'[d].crossed => Reliable(d)')
      BY <3>1, <3>2, <3>3, IdleIsHeld, ReadKeeps DEF rows
    <3> QED
      BY <3>1, <3>2, <3>4 DEF rows, TypeOK, Invites
  <2> QED
    BY <2>1, <2>2
<1>5. ASSUME NEW g \in Guest, SendRead(c, g) PROVE IInv'
  <2> DEFINE held == [Idle EXCEPT !.at = "send", !.guest = g]
  <2>1. held \in Held /\ held.at = "send" /\ FoundIn(held)
    BY DEF Idle, Held, Stages, Answers, FoundIn
  <2>2. call' = [call EXCEPT ![c] = held] /\ UNCHANGED <<rows, door, deleted, edits>>
    BY <1>5 DEF SendRead, Begin
  <2>3. call'[c] = held /\ call' \in [Caller -> Held]
    BY <2>1, <2>2 DEF TypeOK
  <2>4. Reliable(c)'
    BY <2>1, <2>3 DEF Reliable
  <2>5. \A d \in Caller : Found(d)' /\ (~call'[d].crossed => Reliable(d)')
    <3> HIDE DEF held, IInv
    <3> QED
      BY <2>1, <2>2, <2>4, ReadKeeps DEF rows
  <2> QED
    BY <2>2, <2>3, <2>5 DEF rows, TypeOK, Invites
<1>6. CASE SendUpsert(c)
  <2> DEFINE g == call[c].guest
  <2>0. g \in Guest
    BY <1>0, <1>6 DEF SendUpsert, Found, FoundIn
  <2>1. CASE g \in listed
    <3>1. Writes(c, Idle) /\ HandOut(g, token'[g]) /\ UNCHANGED <<listed, mail, door, deleted, edits>>
      BY <1>6, <2>1 DEF SendUpsert
    <3>2. /\ token' \in [Guest -> Nat] /\ expiry' \in [Guest -> {"never", "ahead", "past"}]
          /\ answer' \in [Guest -> Answers \cup {"PENDING"}]
          /\ token'[g] > 0 /\ token[g] \in {0, token'[g]}
          /\ \A h \in Guest \ {g} : token'[h] = token[h] /\ answer'[h] = answer[h]
      <4>1. CASE token[g] = 0
        <5>1. Invited(g, "ahead")
          BY <1>6, <2>1, <4>1 DEF SendUpsert
        <5> QED
          BY <2>0, <4>1, <5>1, InvitedKeeps
      <4>2. CASE token[g] # 0
        <5>1. expiry' = [expiry EXCEPT ![g] = "ahead"] /\ UNCHANGED <<token, answer>>
          BY <1>6, <2>1, <4>2 DEF SendUpsert
        <5> QED
          BY <2>0, <4>2, <5>1 DEF TypeOK
      <4> QED
        BY <4>1, <4>2
    <3>3. handed' \in [Guest -> Nat] /\ handed'[g] \in {handed[g], token'[g]}
          /\ \A h \in Guest \ {g} : handed'[h] = handed[h]
      <4>1. token'[g] \in Nat
        BY <2>0, <3>2
      <4> QED
        BY <2>0, <3>1, <4>1, HandOutKeeps
    <3>4. Invites'
      BY <2>0, <2>1, <3>1, <3>2, <3>3 DEF Invites, TypeOK
    <3>5. Reliable(c)' /\ call' \in [Caller -> Held]
      BY <3>1, WriteCrosses, IdleIsHeld DEF Reliable
    <3>6. \A d \in Caller : Found(d)' /\ (~call'[d].crossed => Reliable(d)')
      BY <3>1, <3>5, WriteKeeps, IdleIsHeld
    <3> QED
      BY <2>0, <2>1, <3>1, <3>2, <3>3, <3>4, <3>5, <3>6 DEF TypeOK
  <2>2. CASE g \notin listed
    <3>1. Moves(c, Idle) /\ UNCHANGED <<rows, door, deleted, edits>>
      BY <1>6, <2>2 DEF SendUpsert, rows
    <3>2. call' = [call EXCEPT ![c] = Idle] /\ call'[c] = Idle /\ call' \in [Caller -> Held]
      BY <3>1, IdleIsHeld DEF Moves, TypeOK
    <3>3. Reliable(c)'
      BY <3>2, IdleIsHeld DEF Reliable
    <3>4. \A d \in Caller : Found(d)' /\ (~call'[d].crossed => Reliable(d)')
      BY <3>1, <3>2, <3>3, IdleIsHeld, ReadKeeps DEF rows
    <3> QED
      BY <3>1, <3>2, <3>4 DEF rows, TypeOK, Invites
  <2> QED
    BY <2>1, <2>2
<1> QED
  BY <1>1, <1>2, <1>3, <1>4, <1>5, <1>6

-----------------------------------------------------------------------------
\* A request that finds its guest's invite and is about to answer it.
LEMMA AnswerBegins ==
    ASSUME IInv, NEW c \in Caller, NEW held \in Held, FoundIn(held), held.at = "answer",
           held.guest \in listed, held.token = token[held.guest],
           held.mails # {} => mail[held.guest] \in held.mails,
           Begin(c, held), UNCHANGED <<rows, door, deleted, edits>>, signed' \subseteq listed'
    PROVE  IInv'
<1>1. call' = [call EXCEPT ![c] = held]
  BY DEF Begin
<1>2. call'[c] = held /\ call' \in [Caller -> Held]
  BY <1>1 DEF IInv, TypeOK
<1>3. listed' = listed /\ mail' = mail /\ token' = token
  BY DEF rows
<1>4. Reliable(c)'
  BY <1>2, <1>3 DEF Reliable, Stored
<1>5. \A d \in Caller : Found(d)' /\ (~call'[d].crossed => Reliable(d)')
  BY <1>1, <1>4, ReadKeeps DEF rows
<1> QED
  BY <1>2, <1>5 DEF rows, IInv, TypeOK, Invites

LEMMA DoorKeeps ==
    ASSUME IInv, NEW c \in Caller, signed' \subseteq listed',
           \/ \E says \in Answers :
                 \/ \E g \in Guest : AnswerLink(c, g, says) \/ AnswerInvited(c, g, says)
                 \/ \E m \in Mail : AnswerOpen(c, m, says)
           \/ OpenFind(c) \/ OpenSeat(c) \/ OpenInvite(c) \/ WriteRsvp(c)
    PROVE  IInv'
<1> USE DEF IInv
<1>0. call[c] \in Held /\ Found(c)
  BY DEF TypeOK
<1>1. ASSUME NEW says \in Answers, NEW g \in Guest, AnswerLink(c, g, says) PROVE IInv'
  <2>1. g \in listed /\ token[g] > 0
    BY <1>1 DEF AnswerLink, Invites
  <2> DEFINE held == [Idle EXCEPT !.at = "answer", !.guest = g, !.token = token[g], !.says = says]
  <2>2. held.at = "answer" /\ held.guest = g /\ held.token = token[g] /\ held.mails = {}
    BY DEF Idle
  <2>3. held \in Held /\ FoundIn(held)
    BY <2>1 DEF Idle, Held, Stages, FoundIn, TypeOK
  <2>4. Begin(c, held) /\ UNCHANGED <<rows, door, deleted, edits>>
    BY <1>1 DEF AnswerLink
  <2> HIDE DEF held, IInv
  <2> QED
    BY <2>1, <2>2, <2>3, <2>4, AnswerBegins
<1>2. ASSUME NEW says \in Answers, NEW g \in Guest, AnswerInvited(c, g, says) PROVE IInv'
  <2>1. PICK found \in {{}, {mail[g]}} :
           /\ found \subseteq Mail
           /\ Begin(c, [Idle EXCEPT !.at = "answer", !.guest = g, !.token = token[g],
                                    !.mails = found, !.says = says])
    BY <1>2 DEF AnswerInvited, TakenFor
  <2>2. g \in listed /\ token[g] > 0
    BY <1>2 DEF AnswerInvited, InviteIsActive
  <2> DEFINE held == [Idle EXCEPT !.at = "answer", !.guest = g, !.token = token[g],
                                  !.mails = found, !.says = says]
  <2>3. held.at = "answer" /\ held.guest = g /\ held.token = token[g] /\ held.mails = found
    BY DEF Idle
  <2>4. held \in Held /\ FoundIn(held)
    BY <2>1, <2>2 DEF Idle, Held, Stages, FoundIn, TypeOK
  <2>5. Begin(c, held) /\ UNCHANGED <<rows, door, deleted, edits>>
    BY <1>2, <2>1 DEF AnswerInvited
  <2>6. found # {} => mail[g] \in found
    BY <2>1
  <2> HIDE DEF held, IInv
  <2> QED
    BY <2>2, <2>3, <2>4, <2>5, <2>6, AnswerBegins
<1>3. ASSUME NEW says \in Answers, NEW m \in Mail, AnswerOpen(c, m, says) PROVE IInv'
  <2> DEFINE held == [Idle EXCEPT !.at = "find", !.mails = {m}, !.says = says]
  <2>1. held \in Held /\ held.at = "find" /\ FoundIn(held)
    BY DEF Idle, Held, Stages, FoundIn
  <2>2. call' = [call EXCEPT ![c] = held] /\ UNCHANGED <<rows, door, deleted, edits>>
    BY <1>3 DEF AnswerOpen, Begin
  <2>3. call'[c] = held /\ call' \in [Caller -> Held]
    BY <2>1, <2>2 DEF TypeOK
  <2>4. Reliable(c)'
    BY <2>1, <2>3 DEF Reliable
  <2>5. \A d \in Caller : Found(d)' /\ (~call'[d].crossed => Reliable(d)')
    <3> HIDE DEF held, IInv
    <3> QED
      BY <2>1, <2>2, <2>4, ReadKeeps DEF rows
  <2> QED
    BY <2>2, <2>3, <2>5 DEF rows, TypeOK, Invites
<1>4. CASE OpenFind(c)
  <2> DEFINE found == {g \in listed : mail[g] \in call[c].mails}
  <2>0. UNCHANGED <<rows, door, deleted, edits>> /\ call[c].at = "find" /\ call[c].says \in Answers
    BY <1>0, <1>4 DEF OpenFind, Found, FoundIn
  <2>1. CASE found = {} /\ Moves(c, [call[c] EXCEPT !.at = "seat"])
    <3> DEFINE held == [call[c] EXCEPT !.at = "seat"]
    <3>1. held \in Held /\ held.at = "seat" /\ held.mails = call[c].mails /\ FoundIn(held)
      BY <1>0, <2>0 DEF Held, Stages, FoundIn
    <3>2. call' = [call EXCEPT ![c] = held]
      BY <2>1 DEF Moves
    <3>3. call'[c] = held /\ call' \in [Caller -> Held]
      BY <3>1, <3>2 DEF TypeOK
    <3>4. Reliable(c)'
      <4>1. call'[c].at = "seat" /\ call'[c].mails = call[c].mails
        BY <3>1, <3>3
      <4>2. \A g \in listed : mail[g] \notin call[c].mails
        BY <2>1
      <4> QED
        BY <4>1, <4>2, <2>0 DEF Reliable, rows
    <3>5. \A d \in Caller : Found(d)' /\ (~call'[d].crossed => Reliable(d)')
      <4> HIDE DEF held, IInv
      <4> QED
        BY <2>0, <3>1, <3>2, <3>4, ReadKeeps DEF rows
    <3> QED
      BY <2>0, <3>3, <3>5 DEF rows, TypeOK, Invites
  <2>2. ASSUME NEW g \in found,
               Moves(c, [call[c] EXCEPT !.at = IF token[g] > 0 THEN "answer" ELSE "invite",
                                        !.guest = g, !.token = token[g]])
        PROVE  IInv'
    <3> DEFINE at == IF token[g] > 0 THEN "answer" ELSE "invite"
               held == [call[c] EXCEPT !.at = at, !.guest = g, !.token = token[g]]
    <3>0. g \in listed /\ g \in Guest /\ mail[g] \in call[c].mails /\ token[g] \in Nat
      BY DEF TypeOK
    <3>1. /\ held \in Held /\ held.at = at /\ held.guest = g /\ held.token = token[g]
          /\ held.mails = call[c].mails /\ FoundIn(held)
      BY <1>0, <2>0, <3>0 DEF Held, Stages, FoundIn
    <3>2. call' = [call EXCEPT ![c] = held]
      BY <2>2 DEF Moves
    <3>3. call'[c] = held /\ call' \in [Caller -> Held]
      BY <3>1, <3>2 DEF TypeOK
    <3>4. Reliable(c)'
      <4>1. /\ call'[c].at = at /\ call'[c].guest = g /\ call'[c].token = token[g]
            /\ call'[c].mails = call[c].mails
        BY <3>1, <3>3
      <4>2. listed' = listed /\ mail' = mail /\ token' = token
        BY <2>0 DEF rows
      <4>3. at \in {"answer", "invite"} /\ (at = "invite" => token[g] = 0)
        BY <3>0
      <4> HIDE DEF at, held
      <4> QED
        BY <3>0, <4>1, <4>2, <4>3 DEF Reliable, Stored
    <3>5. \A d \in Caller : Found(d)' /\ (~call'[d].crossed => Reliable(d)')
      <4> HIDE DEF held, IInv
      <4> QED
        BY <2>0, <3>1, <3>2, <3>4, ReadKeeps DEF rows
    <3> QED
      BY <2>0, <3>3, <3>5 DEF rows, TypeOK, Invites
  <2> QED
    BY <1>4, <2>1, <2>2 DEF OpenFind
<1>5. CASE OpenSeat(c)
  <2>1. PICK g \in Guest : \E m \in call[c].mails :
          /\ Unused(g)
          /\ Created({g}, [h \in {g} |-> m])
          /\ Invited(g, "never")
          /\ Writes(c, [call[c] EXCEPT !.at = "answer", !.guest = g, !.token = token[g] + 1])
    BY <1>5 DEF OpenSeat
  <2>2. PICK m \in call[c].mails :
          /\ Unused(g)
          /\ Created({g}, [h \in {g} |-> m])
          /\ Invited(g, "never")
          /\ Writes(c, [call[c] EXCEPT !.at = "answer", !.guest = g, !.token = token[g] + 1])
    BY <2>1
  <2>3. m \in Mail /\ g \notin listed /\ token[g] = 0
    BY <1>0, <2>2 DEF Held, Unused, TypeOK
  <2>4. /\ listed' = listed \cup {g} /\ mail' \in [Guest -> Mail \cup {NoMail}] /\ mail'[g] = m
        /\ \A h \in Guest \ {g} : mail'[h] = mail[h]
    BY <2>2, <2>3 DEF Created, TypeOK
  <2>5. /\ token' \in [Guest -> Nat] /\ expiry' \in [Guest -> {"never", "ahead", "past"}]
        /\ answer' \in [Guest -> Answers \cup {"PENDING"}]
        /\ token'[g] = 1 /\ answer'[g] = "PENDING"
        /\ \A h \in Guest \ {g} : token'[h] = token[h] /\ answer'[h] = answer[h]
    BY <2>2, <2>3, InvitedKeeps
  <2> DEFINE held == [call[c] EXCEPT !.at = "answer", !.guest = g, !.token = token[g] + 1]
  <2>6. /\ held \in Held /\ held.at = "answer" /\ held.guest = g /\ held.token = 1
        /\ held.mails = call[c].mails /\ held.says = call[c].says
    <3>1. token[g] + 1 = 1
      BY <2>3
    <3>2. held = [call[c] EXCEPT !.at = "answer", !.guest = g, !.token = 1]
      BY <3>1
    <3> HIDE DEF held
    <3> QED
      BY <1>0, <3>2 DEF Held, Stages
  <2>61. FoundIn(held)
    <3>1. call[c].says \in Answers
      BY <1>0, <1>5 DEF Found, FoundIn, OpenSeat
    <3> QED
      BY <2>6, <3>1 DEF FoundIn
  <2>7. Writes(c, held)
    BY <2>2
  <2>8. call'[c] = held /\ call' \in [Caller -> Held]
    <3> HIDE DEF held
    <3> QED
      BY <2>6, <2>7, WriteCrosses
  <2>9. Reliable(c)'
    <3>1. /\ call'[c].at = "answer" /\ call'[c].guest = g /\ call'[c].token = 1
          /\ call'[c].mails = call[c].mails
      BY <2>6, <2>8
    <3> QED
      BY <2>2, <2>4, <2>5, <3>1 DEF Reliable, Stored
  <2>10. \A d \in Caller : Found(d)' /\ (~call'[d].crossed => Reliable(d)')
    <3> HIDE DEF held, IInv
    <3> QED
      BY <2>6, <2>61, <2>7, <2>9, WriteKeeps
  <2>11. UNCHANGED <<handed, door, deleted, edits>>
    BY <1>5 DEF OpenSeat
  <2>12. Invites'
    <3>1. handed[g] = 0
      BY <2>3 DEF Invites, TypeOK
    <3> QED
      BY <2>3, <2>4, <2>5, <2>11, <3>1 DEF Invites, TypeOK
  <2>13. TypeOK'
    BY <2>4, <2>5, <2>8, <2>11 DEF TypeOK
  <2> QED
    BY <2>10, <2>12, <2>13
<1>6. CASE OpenInvite(c)
  <2> DEFINE g == call[c].guest
  <2>0. g \in Guest
    BY <1>0, <1>6 DEF OpenInvite, Found, FoundIn
  <2>1. CASE g \in listed /\ token[g] = 0
    <3> DEFINE held == [call[c] EXCEPT !.at = "answer", !.token = token[g] + 1]
    <3>1. Invited(g, "never") /\ Writes(c, held) /\ UNCHANGED <<listed, mail, handed, door, deleted, edits>>
      BY <1>6, <2>1 DEF OpenInvite
    <3>2. /\ token' \in [Guest -> Nat] /\ expiry' \in [Guest -> {"never", "ahead", "past"}]
          /\ answer' \in [Guest -> Answers \cup {"PENDING"}]
          /\ token'[g] = 1 /\ answer'[g] = "PENDING"
          /\ \A h \in Guest \ {g} : token'[h] = token[h] /\ answer'[h] = answer[h]
      BY <2>0, <2>1, <3>1, InvitedKeeps
    <3>3. /\ held \in Held /\ held.at = "answer" /\ held.guest = g /\ held.token = 1
          /\ held.mails = call[c].mails /\ held.crossed = call[c].crossed
          /\ held.says = call[c].says
      <4>1. token[g] + 1 = 1
        BY <2>1
      <4>2. held = [call[c] EXCEPT !.at = "answer", !.token = 1]
        BY <4>1
      <4> HIDE DEF held
      <4> QED
        BY <1>0, <4>2 DEF Held, Stages
    <3>31. FoundIn(held)
      <4>1. call[c].says \in Answers
        BY <1>0, <1>6 DEF Found, FoundIn, OpenInvite
      <4> QED
        BY <2>0, <3>3, <4>1 DEF FoundIn
    <3>4. call'[c] = held /\ call' \in [Caller -> Held]
      <4> HIDE DEF held
      <4> QED
        BY <3>1, <3>3, WriteCrosses
    <3>5. ~held.crossed => Reliable(c)'
      <4>1. /\ call'[c].at = "answer" /\ call'[c].guest = g /\ call'[c].token = 1
            /\ call'[c].mails = call[c].mails
        BY <3>3, <3>4
      <4>2. ~held.crossed => mail[g] \in call[c].mails
        BY <1>6, <3>3 DEF OpenInvite, Reliable
      <4> QED
        BY <2>1, <3>1, <3>2, <4>1, <4>2 DEF Reliable, Stored
    <3>6. \A d \in Caller : Found(d)' /\ (~call'[d].crossed => Reliable(d)')
      <4> HIDE DEF held, IInv
      <4> QED
        BY <3>1, <3>3, <3>31, <3>5, WriteKeeps
    <3>7. Invites'
      BY <2>0, <2>1, <3>1, <3>2 DEF Invites, TypeOK
    <3> QED
      BY <2>0, <2>1, <3>1, <3>2, <3>4, <3>6, <3>7 DEF TypeOK
  <2>2. CASE ~(g \in listed /\ token[g] = 0)
    <3>1. Moves(c, Idle) /\ UNCHANGED <<rows, door, deleted, edits>>
      BY <1>6, <2>2 DEF OpenInvite, rows
    <3>2. call' = [call EXCEPT ![c] = Idle] /\ call'[c] = Idle /\ call' \in [Caller -> Held]
      BY <3>1, IdleIsHeld DEF Moves, TypeOK
    <3>3. Reliable(c)'
      BY <3>2, IdleIsHeld DEF Reliable
    <3>4. \A d \in Caller : Found(d)' /\ (~call'[d].crossed => Reliable(d)')
      BY <3>1, <3>2, <3>3, IdleIsHeld, ReadKeeps DEF rows
    <3> QED
      BY <3>1, <3>2, <3>4 DEF rows, TypeOK, Invites
  <2> QED
    BY <2>1, <2>2
<1>7. CASE WriteRsvp(c)
  <2>1. CASE Stored(c)
    <3> DEFINE g == call[c].guest
    <3>1. /\ answer' = [answer EXCEPT ![g] = call[c].says] /\ Writes(c, Idle)
          /\ UNCHANGED <<listed, mail, token, expiry, handed, door, deleted, edits>>
      BY <1>7, <2>1 DEF WriteRsvp
    <3>2. Reliable(c)' /\ call' \in [Caller -> Held]
      BY <3>1, WriteCrosses, IdleIsHeld DEF Reliable
    <3>3. \A d \in Caller : Found(d)' /\ (~call'[d].crossed => Reliable(d)')
      BY <3>1, <3>2, WriteKeeps, IdleIsHeld
    <3>4. answer' \in [Guest -> Answers \cup {"PENDING"}]
          /\ \A h \in Guest \ {g} : answer'[h] = answer[h]
      BY <1>0, <3>1 DEF TypeOK, Held
    <3>5. token[g] > 0
      BY <1>0, <1>7, <2>1 DEF Found, FoundIn, Stored, WriteRsvp
    <3> QED
      BY <3>1, <3>2, <3>3, <3>4, <3>5 DEF TypeOK, Invites
  <2>2. CASE ~Stored(c)
    <3>1. Moves(c, Idle) /\ UNCHANGED <<rows, door, deleted, edits>>
      BY <1>7, <2>2 DEF WriteRsvp, rows
    <3>2. call' = [call EXCEPT ![c] = Idle] /\ call'[c] = Idle /\ call' \in [Caller -> Held]
      BY <3>1, IdleIsHeld DEF Moves, TypeOK
    <3>3. Reliable(c)'
      BY <3>2, IdleIsHeld DEF Reliable
    <3>4. \A d \in Caller : Found(d)' /\ (~call'[d].crossed => Reliable(d)')
      BY <3>1, <3>2, <3>3, IdleIsHeld, ReadKeeps DEF rows
    <3> QED
      BY <3>1, <3>2, <3>4 DEF rows, TypeOK, Invites
  <2> QED
    BY <2>1, <2>2
<1> QED
  BY <1>1, <1>2, <1>3, <1>4, <1>5, <1>6, <1>7

\* Time, the site and the deletion of the event.
LEMMA SurroundingsKeep ==
    /\ IInv /\ signed' \subseteq listed'
    /\ (\E g \in Guest : Expire(g)) \/ SetDoor \/ SoftDelete
    => IInv'
<1> SUFFICES ASSUME IInv, signed' \subseteq listed',
                    (\E g \in Guest : Expire(g)) \/ SetDoor \/ SoftDelete
             PROVE  IInv'
  OBVIOUS
<1>1. WritesAtOnce /\ UNCHANGED <<listed, mail, token, answer, handed>>
  BY DEF Expire, SetDoor, SoftDelete, Edit, rows
<1>2. \A d \in Caller : Found(d)' /\ (~call'[d].crossed => Reliable(d)')
  BY <1>1, WriteAtOnceKeeps
<1>3. call' \in [Caller -> Held]
  BY <1>1, WriteAtOnceCrosses DEF IInv
<1>4. /\ expiry' \in [Guest -> {"never", "ahead", "past"}] /\ edits' \in Nat
      /\ door' \in {"closed", "INVITED_ONLY", "OPEN"} /\ deleted' \in BOOLEAN
  <2>1. ASSUME NEW g \in Guest, Expire(g)
        PROVE  /\ expiry' \in [Guest -> {"never", "ahead", "past"}] /\ edits' \in Nat
               /\ door' \in {"closed", "INVITED_ONLY", "OPEN"} /\ deleted' \in BOOLEAN
    BY <2>1 DEF IInv, TypeOK, Expire
  <2>2. CASE SetDoor
    BY <2>2 DEF IInv, TypeOK, SetDoor, Edit, rows
  <2>3. CASE SoftDelete
    BY <2>3 DEF IInv, TypeOK, SoftDelete, Edit, rows
  <2> QED
    BY <2>1, <2>2, <2>3
<1> QED
  BY <1>1, <1>2, <1>3, <1>4 DEF IInv, TypeOK, Invites

LEMMA InvariantNext == IInv /\ [Next]_vars => IInv'
<1> SUFFICES ASSUME IInv, [Next]_vars PROVE IInv'
  OBVIOUS
<1>1. CASE Next
  <2>1. signed' \subseteq listed'
    BY <1>1 DEF Next, SignsIn
  <2>2. CASE HostStep
    BY <2>1, <2>2, HostKeeps
  <2>3. ASSUME NEW c \in Caller, Step(c) PROVE IInv'
    BY <2>1, <2>3, GuestsKeep, DoorKeeps DEF Step
  <2>4. CASE (\E g \in Guest : Expire(g)) \/ SetDoor \/ SoftDelete
    BY <2>1, <2>4, SurroundingsKeep
  <2> QED
    BY <1>1, <2>2, <2>3, <2>4 DEF Next
<1>2. CASE UNCHANGED vars
  BY <1>2 DEF vars, rows, IInv, TypeOK, Invites, Found, FoundIn, Reliable, Stored
<1> QED
  BY <1>1, <1>2

\* The inductive invariant behind the theorems below.
THEOREM GuestListInvariant == Spec => []IInv
BY InvariantInit, InvariantNext, PTL DEF Spec

-----------------------------------------------------------------------------
\* Rows keep their columns, and no invite outlives its guest.
THEOREM GuestListTypes == Spec => []TypeOK
<1>1. IInv => TypeOK
  BY DEF IInv
<1> QED
  BY <1>1, GuestListInvariant, PTL

\* However many requests look a link up, send it or create it at once, a link
\* handed out is its guest's for as long as the guest is on the list.
THEOREM LinksStayGood == Spec => []LinkStaysGood
<1>1. IInv => LinkStaysGood
  BY DEF IInv, Invites, LinkStaysGood
<1> QED
  BY <1>1, GuestListInvariant, PTL

\* An RSVP that nothing crossed finds the invite it is to be stored in. If its
\* guest was found by an address, the guest has it; an answer that came with a
\* session, a code or a link is the guest's they name, whatever the address.
THEOREM RsvpsAreStored == Spec => []RsvpIsStored
<1>1. IInv => RsvpIsStored
  BY DEF IInv, Reliable, RsvpIsStored
<1> QED
  BY <1>1, GuestListInvariant, PTL
-----------------------------------------------------------------------------
\* An import and an open RSVP that nothing crossed never list an address twice.
THEOREM NoTwinIsCreated == Spec => NoTwinCreated
<1>1. ASSUME IInv, [Next]_vars, NEW c \in Caller, Adding(c), ~call[c].crossed,
             call'[c].at # call[c].at,
             NEW g \in listed' \ listed, NEW h \in listed' \ {g}
      PROVE  mail'[h] # mail'[g]
  <2> USE DEF IInv
  <2>1. \A k \in listed : mail[k] \notin call[c].mails
    BY <1>1 DEF Adding, Reliable
  <2>2. call' # call /\ listed' # listed
    BY <1>1
  <2>3. ImportCreate(c) \/ OpenSeat(c)
    <3>1. ASSUME WritesAtOnce PROVE FALSE
      BY <1>1, <3>1, WriteAtOnceCrosses
    <3>2. ASSUME NEW d \in Caller \ {c}, NEW held \in Held, Writes(d, held) PROVE FALSE
      BY <1>1, <3>2, WriteCrosses
    <3>3. ~HostStep
      BY <3>1 DEF HostStep, AddGuest, UpdateGuest, RemoveGuest
    <3>4. ~((\E k \in Guest : Expire(k)) \/ SetDoor \/ SoftDelete)
      BY <3>1 DEF Expire, SetDoor, SoftDelete, Edit
    <3>5. PICK d \in Caller : Step(d)
      BY <1>1, <2>2, <3>3, <3>4 DEF Next, vars
    <3>6. ImportCreate(d) \/ OpenSeat(d)
      BY <2>2, <3>5 DEF Step, ImportRead, UnlockRead, SendRead, UnlockCreate, SendUpsert,
                        AnswerLink, AnswerInvited, AnswerOpen, OpenFind, OpenInvite, WriteRsvp, rows
    <3>7. \E held \in Held : Writes(d, held)
      <4>1. CASE ImportCreate(d)
        BY <4>1, IdleIsHeld DEF ImportCreate
      <4>2. CASE OpenSeat(d)
        <5>1. PICK k \in Guest :
                 Writes(d, [call[d] EXCEPT !.at = "answer", !.guest = k, !.token = token[k] + 1])
          BY <4>2 DEF OpenSeat
        <5>2. token[k] + 1 \in Nat /\ call[d] \in Held
          BY <1>1 DEF TypeOK
        <5>3. [call[d] EXCEPT !.at = "answer", !.guest = k, !.token = token[k] + 1] \in Held
          BY <5>2 DEF Held, Stages
        <5> QED
          BY <5>1, <5>3
      <4> QED
        BY <3>6, <4>1, <4>2
    <3> QED
      BY <3>2, <3>6, <3>7
  <2>4. CASE ImportCreate(c)
    <3>1. PICK new \in SUBSET {k \in Guest : Unused(k)} :
             \E address \in [new -> call[c].mails] :
                /\ \A k, l \in new : address[k] = address[l] => k = l
                /\ Created(new, address)
      BY <2>4 DEF ImportCreate
    <3>2. PICK address \in [new -> call[c].mails] :
             /\ \A k, l \in new : address[k] = address[l] => k = l
             /\ Created(new, address)
      BY <3>1
    <3>3. /\ listed' = listed \cup new
          /\ \A k \in new : mail'[k] = address[k] /\ address[k] \in call[c].mails
          /\ \A k \in listed \ new : mail'[k] = mail[k]
      BY <1>1, <3>2 DEF Created, TypeOK
    <3> QED
      BY <1>1, <2>1, <3>2, <3>3
  <2>5. CASE OpenSeat(c)
    <3>1. PICK k \in Guest : \E m \in call[c].mails : Unused(k) /\ Created({k}, [l \in {k} |-> m])
      BY <2>5 DEF OpenSeat
    <3>2. PICK m \in call[c].mails : Unused(k) /\ Created({k}, [l \in {k} |-> m])
      BY <3>1
    <3>3. /\ listed' = listed \cup {k} /\ mail'[k] = m
          /\ \A l \in listed \ {k} : mail'[l] = mail[l]
      BY <1>1, <3>2 DEF Created, TypeOK
    <3> QED
      BY <1>1, <2>1, <3>2, <3>3
  <2> QED
    BY <2>3, <2>4, <2>5
<1>2. IInv /\ [Next]_vars =>
        [\A c \in Caller : Adding(c) /\ ~call[c].crossed /\ call'[c].at # call[c].at =>
            \A g \in listed' \ listed : \A h \in listed' \ {g} : mail'[h] # mail'[g]]_vars
  BY <1>1
<1> QED
  BY <1>2, GuestListInvariant, PTL DEF Spec, NoTwinCreated
\* Whatever the host does, and however often a guest is invited, an answer given
\* is only ever replaced by another.
THEOREM AnswersAreKept == Spec => AnswerIsKept
<1>1. ASSUME IInv, [Next]_vars, NEW g \in listed \cap listed', answer[g] # "PENDING"
      PROVE  answer'[g] # "PENDING"
  <2> USE DEF IInv
  <2>0. g \in Guest
    BY <1>1 DEF TypeOK
  <2>1. CASE HostStep
    <3>1. ASSUME NEW h \in Guest, RemoveGuest(h) PROVE answer'[g] # "PENDING"
      BY <1>1, <2>0, <3>1 DEF RemoveGuest, TypeOK
    <3> QED
      BY <1>1, <2>1, <3>1 DEF HostStep, AddGuest, UpdateGuest
  <2>2. ASSUME NEW c \in Caller, Step(c) PROVE answer'[g] # "PENDING"
    <3>0. call[c] \in Held /\ Found(c)
      BY <1>1 DEF TypeOK
    <3>1. ASSUME NEW h \in Guest, token[h] = 0, NEW until \in {"never", "ahead"}, Invited(h, until)
          PROVE  answer'[g] # "PENDING"
      BY <1>1, <2>0, <3>1, InvitedKeeps
    <3>2. CASE UnlockCreate(c)
      BY <1>1, <3>0, <3>1, <3>2 DEF UnlockCreate, Found, FoundIn
    <3>3. CASE SendUpsert(c)
      BY <1>1, <3>0, <3>1, <3>3 DEF SendUpsert, Found, FoundIn
    <3>4. CASE OpenSeat(c)
      BY <1>1, <3>1, <3>4 DEF OpenSeat, Unused, TypeOK
    <3>5. CASE OpenInvite(c)
      BY <1>1, <3>0, <3>1, <3>5 DEF OpenInvite, Found, FoundIn
    <3>6. CASE WriteRsvp(c)
      <4>1. call[c].says # "PENDING"
        BY <3>0, <3>6 DEF WriteRsvp, Found, FoundIn, Answers
      <4> QED
        BY <1>1, <2>0, <3>6, <4>1 DEF WriteRsvp, TypeOK
    <3>7. CASE UNCHANGED answer
      BY <1>1, <3>7
    <3> QED
      BY <2>2, <3>2, <3>3, <3>4, <3>5, <3>6, <3>7
         DEF Step, ImportRead, ImportCreate, UnlockRead, SendRead, AnswerLink, AnswerInvited,
             AnswerOpen, OpenFind, rows
  <2>3. CASE (\E h \in Guest : Expire(h)) \/ SetDoor \/ SoftDelete
    BY <1>1, <2>3 DEF Expire, SetDoor, SoftDelete, Edit, rows
  <2> QED
    BY <1>1, <2>1, <2>2, <2>3 DEF Next, vars, rows
<1>2. IInv /\ [Next]_vars =>
        [\A g \in listed \cap listed' : answer[g] # "PENDING" => answer'[g] # "PENDING"]_vars
  BY <1>1
<1> QED
  BY <1>2, GuestListInvariant, PTL DEF Spec, AnswerIsKept

-----------------------------------------------------------------------------
\* A request at the event's own door that nothing crossed began before any
\* deletion.
Unwarned(c) ==
    call[c].at \in {"find", "seat", "invite", "answer"} /\ ~call[c].crossed => ~deleted

\* The event's own site and its links take no answer once it is deleted; the
\* site of a parent does, which is why the theorem asks for ~ViaParent.
THEOREM DeletedTakesNone ==
    ASSUME ~ViaParent
    PROVE  Spec => []DeletedTakesNoAnswer
<1> DEFINE Inv == \A c \in Caller : Unwarned(c)
<1>1. Init => Inv
  BY IdleIsHeld DEF Init, Unwarned
<1>2. ASSUME IInv, Inv, [Next]_vars PROVE Inv'
  <2>0. TypeOK
    BY <1>2 DEF IInv
  <2>1. ASSUME WritesAtOnce PROVE Inv'
    BY <2>0, <2>1, WriteAtOnceCrosses DEF Unwarned, Unmarked
  <2>2. ASSUME NEW c \in Caller, NEW held \in Held, Writes(c, held), UNCHANGED deleted,
               held.at \in {"find", "seat", "invite", "answer"} /\ ~held.crossed => ~deleted
        PROVE  Inv'
    BY <2>0, <2>2, WriteCrosses DEF Unwarned, Unmarked
  <2>3. ASSUME NEW c \in Caller, NEW held \in Held, call' = [call EXCEPT ![c] = held],
               UNCHANGED deleted,
               held.at \in {"find", "seat", "invite", "answer"} /\ ~held.crossed => ~deleted
        PROVE  Inv'
    <3>1. call'[c] = held /\ \A d \in Caller \ {c} : call'[d] = call[d]
      BY <2>0, <2>3 DEF TypeOK
    <3> QED
      BY <1>2, <2>3, <3>1 DEF Unwarned
  <2>4. CASE HostStep
    BY <2>1, <2>4 DEF HostStep, AddGuest, UpdateGuest, RemoveGuest
  <2>5. CASE (\E g \in Guest : Expire(g)) \/ SetDoor \/ SoftDelete
    BY <2>1, <2>5 DEF Expire, SetDoor, SoftDelete, Edit
  <2>6. ASSUME NEW c \in Caller, Step(c) PROVE Inv'
    <3>0. call[c] \in Held /\ Unwarned(c)
      BY <1>2, <2>0 DEF TypeOK
    <3> DEFINE Quiet(held) ==
                 held.at \in {"find", "seat", "invite", "answer"} /\ ~held.crossed => ~deleted
    <3>1. Quiet(Idle) /\ Idle \in Held
      BY IdleIsHeld
    <3>2. ASSUME NEW held \in Held, Begin(c, held) \/ Moves(c, held), UNCHANGED deleted, Quiet(held)
          PROVE  Inv'
      BY <2>3, <3>2 DEF Begin, Moves
    <3>3. ASSUME NEW held \in Held, Writes(c, held), UNCHANGED deleted, Quiet(held)
          PROVE  Inv'
      BY <2>2, <3>3
    <3>4. CASE ImportRead(c)
      <4>1. PICK list \in SUBSET Mail : \E new \in SUBSET (list \ Known) :
               Begin(c, [Idle EXCEPT !.at = "import", !.mails = new])
        BY <3>4 DEF ImportRead
      <4>2. PICK new \in SUBSET (list \ Known) :
               Begin(c, [Idle EXCEPT !.at = "import", !.mails = new])
        BY <4>1
      <4> DEFINE held == [Idle EXCEPT !.at = "import", !.mails = new]
      <4>3. held \in Held /\ held.at = "import"
        BY DEF Idle, Held, Stages, Answers
      <4>4. Begin(c, held) /\ UNCHANGED deleted
        BY <3>4, <4>2 DEF ImportRead
      <4> HIDE DEF held, Inv
      <4> QED
        BY <3>2, <4>3, <4>4
    <3>5. CASE ImportCreate(c) \/ UnlockCreate(c) \/ SendUpsert(c) \/ WriteRsvp(c)
      BY <3>1, <3>2, <3>3, <3>5 DEF ImportCreate, UnlockCreate, SendUpsert, WriteRsvp
    <3>6. ASSUME NEW g \in Guest, UnlockRead(c, g) PROVE Inv'
      <4> DEFINE held == [Idle EXCEPT !.at = "unlock", !.guest = g]
      <4>1. held \in Held /\ held.at = "unlock"
        BY DEF Idle, Held, Stages, Answers
      <4>2. UNCHANGED deleted /\ (UNCHANGED call \/ Begin(c, held))
        BY <3>6 DEF UnlockRead
      <4>3. CASE UNCHANGED call
        BY <1>2, <4>2, <4>3 DEF Unwarned
      <4>4. CASE Begin(c, held)
        <5> HIDE DEF held, Inv
        <5> QED
          BY <3>2, <4>1, <4>2, <4>4
      <4> QED
        BY <4>2, <4>3, <4>4
    <3>7. ASSUME NEW g \in Guest, SendRead(c, g) PROVE Inv'
      <4> DEFINE held == [Idle EXCEPT !.at = "send", !.guest = g]
      <4>1. held \in Held /\ held.at = "send"
        BY DEF Idle, Held, Stages, Answers
      <4>2. UNCHANGED deleted /\ Begin(c, held)
        BY <3>7 DEF SendRead
      <4> HIDE DEF held, Inv
      <4> QED
        BY <3>2, <4>1, <4>2
    <3>8. ASSUME NEW says \in Answers, NEW g \in Guest, AnswerLink(c, g, says) PROVE Inv'
      <4> DEFINE held == [Idle EXCEPT !.at = "answer", !.guest = g, !.token = token[g], !.says = says]
      <4>1. held \in Held
        BY <2>0 DEF Idle, Held, Stages, TypeOK
      <4>2. UNCHANGED deleted /\ Begin(c, held) /\ ~deleted
        BY <3>8 DEF AnswerLink
      <4> HIDE DEF held, Inv
      <4> QED
        BY <3>2, <4>1, <4>2
    <3>9. ASSUME NEW says \in Answers, NEW g \in Guest, AnswerInvited(c, g, says) PROVE Inv'
      <4>1. PICK found \in {{}, {mail[g]}} :
               /\ found \subseteq Mail
               /\ Begin(c, [Idle EXCEPT !.at = "answer", !.guest = g, !.token = token[g],
                                        !.mails = found, !.says = says])
        BY <3>9 DEF AnswerInvited, TakenFor
      <4> DEFINE held == [Idle EXCEPT !.at = "answer", !.guest = g, !.token = token[g],
                                      !.mails = found, !.says = says]
      <4>2. held \in Held
        BY <2>0, <4>1 DEF Idle, Held, Stages, TypeOK
      <4>3. UNCHANGED deleted /\ Begin(c, held) /\ ~deleted
        BY <1>2, <3>9, <4>1 DEF AnswerInvited, SiteIsUp
      <4> HIDE DEF held, Inv
      <4> QED
        BY <3>2, <4>2, <4>3
    <3>10. ASSUME NEW says \in Answers, NEW m \in Mail, AnswerOpen(c, m, says) PROVE Inv'
      <4> DEFINE held == [Idle EXCEPT !.at = "find", !.mails = {m}, !.says = says]
      <4>1. held \in Held
        BY DEF Idle, Held, Stages
      <4>2. UNCHANGED deleted /\ Begin(c, held) /\ ~deleted
        BY <1>2, <3>10 DEF AnswerOpen, SiteIsUp
      <4> HIDE DEF held, Inv
      <4> QED
        BY <3>2, <4>1, <4>2
    <3>11. CASE OpenFind(c)
      <4>1. UNCHANGED deleted /\ (~call[c].crossed => ~deleted)
        BY <3>0, <3>11 DEF OpenFind, Unwarned
      <4>2. CASE Moves(c, [call[c] EXCEPT !.at = "seat"])
        <5>1. [call[c] EXCEPT !.at = "seat"] \in Held
              /\ [call[c] EXCEPT !.at = "seat"].crossed = call[c].crossed
          BY <3>0 DEF Held, Stages
        <5> HIDE DEF Inv
        <5> QED
          BY <3>2, <4>1, <4>2, <5>1
      <4>3. ASSUME NEW g \in listed,
                   Moves(c, [call[c] EXCEPT !.at = IF token[g] > 0 THEN "answer" ELSE "invite",
                                            !.guest = g, !.token = token[g]])
            PROVE  Inv'
        <5> DEFINE held == [call[c] EXCEPT !.at = IF token[g] > 0 THEN "answer" ELSE "invite",
                                           !.guest = g, !.token = token[g]]
        <5>1. held \in Held /\ held.crossed = call[c].crossed
          BY <2>0, <3>0 DEF Held, Stages, TypeOK
        <5>2. Moves(c, held)
          BY <4>3
        <5> HIDE DEF held, Inv
        <5> QED
          BY <3>2, <4>1, <5>1, <5>2
      <4> QED
        BY <3>11, <4>2, <4>3 DEF OpenFind
    <3>12. CASE OpenSeat(c)
      <4>1. PICK g \in Guest :
               Writes(c, [call[c] EXCEPT !.at = "answer", !.guest = g, !.token = token[g] + 1])
        BY <3>12 DEF OpenSeat
      <4> DEFINE held == [call[c] EXCEPT !.at = "answer", !.guest = g, !.token = token[g] + 1]
      <4>2. held \in Held /\ held.crossed = call[c].crossed
        <5>1. token[g] + 1 \in Nat
          BY <2>0 DEF TypeOK
        <5> DEFINE t == token[g] + 1
        <5>2. held = [call[c] EXCEPT !.at = "answer", !.guest = g, !.token = t]
          OBVIOUS
        <5> HIDE DEF held, t
        <5>3. t \in Nat
          BY <5>1 DEF t
        <5> QED
          BY <3>0, <5>2, <5>3 DEF Held, Stages
      <4>3. Writes(c, held) /\ UNCHANGED deleted /\ (~call[c].crossed => ~deleted)
        BY <3>0, <3>12, <4>1 DEF OpenSeat, Unwarned
      <4> HIDE DEF held, Inv
      <4> QED
        BY <3>3, <4>2, <4>3
    <3>13. CASE OpenInvite(c)
      <4> DEFINE held == [call[c] EXCEPT !.at = "answer", !.token = token[call[c].guest] + 1]
      <4>1. UNCHANGED deleted /\ (~call[c].crossed => ~deleted)
        BY <3>0, <3>13 DEF OpenInvite, Unwarned
      <4>2. (Writes(c, held) /\ call[c].guest \in listed) \/ Moves(c, Idle)
        BY <3>13 DEF OpenInvite
      <4>3. CASE Writes(c, held) /\ call[c].guest \in listed
        <5>1. held \in Held /\ held.crossed = call[c].crossed
          <6>1. token[call[c].guest] + 1 \in Nat
            BY <2>0, <4>3 DEF TypeOK
          <6> DEFINE t == token[call[c].guest] + 1
          <6>2. held = [call[c] EXCEPT !.at = "answer", !.token = t]
            OBVIOUS
          <6> HIDE DEF held, t
          <6>3. t \in Nat
            BY <6>1 DEF t
          <6> QED
            BY <3>0, <6>2, <6>3 DEF Held, Stages
        <5> HIDE DEF held, Inv
        <5> QED
          BY <3>3, <4>1, <4>3, <5>1
      <4>4. CASE Moves(c, Idle)
        BY <3>1, <3>2, <4>1, <4>4
      <4> QED
        BY <4>2, <4>3, <4>4
    <3> QED
      BY <2>6, <3>4, <3>5, <3>6, <3>7, <3>8, <3>9, <3>10, <3>11, <3>12, <3>13 DEF Step
  <2>7. CASE UNCHANGED vars
    BY <1>2, <2>7 DEF vars, Unwarned
  <2> HIDE DEF Inv
  <2> QED
    BY <1>2, <2>4, <2>5, <2>6, <2>7 DEF Next
<1>3. Inv => DeletedTakesNoAnswer
  BY DEF Unwarned, DeletedTakesNoAnswer
<1>4. IInv /\ Inv /\ [Next]_vars => Inv'
  BY <1>2
<1> HIDE DEF Inv
<1> QED
  BY <1>1, <1>3, <1>4, GuestListInvariant, PTL DEF Spec

-----------------------------------------------------------------------------
(* However requests overlap, the guest list implements InviteBook.         *)

\* An answer on its way to a guest who is still listed will be stored: the
\* guest's id is not given to another as long as a request holds it, and an
\* invite goes only with its guest.
Aimed == \A d \in Caller : call[d].at = "answer" /\ call[d].guest \in listed => Stored(d)

BookStep == Book!Next \/ UNCHANGED Book!book

Linked == {g \in Guest : handed[g] > 0 /\ token[g] = handed[g]}

\* What a request is about to do is what it was about to do before.
Same(d) == /\ call'[d].at = call[d].at /\ call'[d].guest = call[d].guest
           /\ call'[d].token = call[d].token /\ call'[d].says = call[d].says

\* No invite is lost, and no guest is added under an id that others hold.
RowsGrow(others) ==
    /\ listed \subseteq listed'
    /\ \A g \in Guest : token[g] > 0 => token'[g] = token[g]
    /\ \A d \in others : call[d].guest \notin listed' \ listed

LEMMA OthersStayAimed ==
    ASSUME IInv, Aimed, NEW others \in SUBSET Caller, RowsGrow(others), \A d \in others : Same(d)
    PROVE  \A d \in others : /\ Stored(d)' <=> Stored(d)
                             /\ call'[d].at = "answer" /\ call'[d].guest \in listed' => Stored(d)'
<1> SUFFICES ASSUME NEW d \in others
             PROVE  /\ Stored(d)' <=> Stored(d)
                    /\ call'[d].at = "answer" /\ call'[d].guest \in listed' => Stored(d)'
  OBVIOUS
<1>1. Same(d) /\ Found(d)
  BY DEF IInv
<1>2. CASE call[d].at # "answer"
  BY <1>1, <1>2 DEF Same, Stored
<1>3. CASE call[d].at = "answer" /\ call[d].guest \in listed
  <2>1. Stored(d) /\ call[d].guest \in Guest /\ call[d].token > 0
    BY <1>1, <1>3 DEF Aimed, Found, FoundIn
  <2>2. token'[call[d].guest] = call[d].token /\ call[d].guest \in listed'
    BY <1>3, <2>1 DEF Stored, RowsGrow
  <2> QED
    BY <1>1, <1>3, <2>1, <2>2 DEF Same, Stored
<1>4. CASE call[d].at = "answer" /\ call[d].guest \notin listed
  <2>1. call[d].guest \notin listed'
    BY <1>4 DEF RowsGrow
  <2> QED
    BY <1>1, <1>4, <2>1 DEF Same, Stored
<1> QED
  BY <1>2, <1>3, <1>4

\* The answers underway after a step: the same, one more, one less, or all but
\* those for a guest who was removed.
LEMMA UnderwaySame ==
    ASSUME \A d \in Caller : /\ Stored(d)' <=> Stored(d)
                             /\ Stored(d) => /\ call'[d].guest = call[d].guest
                                             /\ call'[d].says = call[d].says
    PROVE  Underway' = Underway
BY DEF Underway

LEMMA UnderwayGrows ==
    ASSUME NEW c \in Caller, ~Stored(c), Stored(c)',
           \A d \in Caller \ {c} : /\ Stored(d)' <=> Stored(d)
                                   /\ Stored(d) => /\ call'[d].guest = call[d].guest
                                                   /\ call'[d].says = call[d].says
    PROVE  Underway' = Underway \cup {<<call'[c].guest, call'[c].says>>}
<1>1. ASSUME NEW x \in Underway' PROVE x \in Underway \cup {<<call'[c].guest, call'[c].says>>}
  <2>1. PICK d \in Caller : Stored(d)' /\ x = <<call'[d].guest, call'[d].says>>
    BY <1>1 DEF Underway
  <2>2. CASE d = c
    BY <2>1, <2>2
  <2>3. CASE d # c
    BY <2>1, <2>3 DEF Underway
  <2> QED
    BY <2>2, <2>3
<1>2. ASSUME NEW x \in Underway PROVE x \in Underway'
  <2>1. PICK d \in Caller : Stored(d) /\ x = <<call[d].guest, call[d].says>>
    BY <1>2 DEF Underway
  <2>2. d # c
    BY <2>1
  <2> QED
    BY <2>1, <2>2 DEF Underway
<1>3. <<call'[c].guest, call'[c].says>> \in Underway'
  BY DEF Underway
<1> QED
  BY <1>1, <1>2, <1>3

LEMMA UnderwayShrinks ==
    ASSUME NEW c \in Caller, Stored(c), ~Stored(c)',
           \A d \in Caller \ {c} : /\ Stored(d)' <=> Stored(d)
                                   /\ Stored(d) => /\ call'[d].guest = call[d].guest
                                                   /\ call'[d].says = call[d].says
    PROVE  Underway' \in {Underway, Underway \ {<<call[c].guest, call[c].says>>}}
<1> DEFINE mine == <<call[c].guest, call[c].says>>
<1>1. ASSUME NEW x \in Underway' PROVE x \in Underway
  <2>1. PICK d \in Caller : Stored(d)' /\ x = <<call'[d].guest, call'[d].says>>
    BY <1>1 DEF Underway
  <2>2. d # c
    BY <2>1
  <2> QED
    BY <2>1, <2>2 DEF Underway
<1>2. ASSUME NEW x \in Underway, x # mine PROVE x \in Underway'
  <2>1. PICK d \in Caller : Stored(d) /\ x = <<call[d].guest, call[d].says>>
    BY <1>2 DEF Underway
  <2>2. d # c
    BY <1>2, <2>1
  <2> QED
    BY <2>1, <2>2 DEF Underway
<1> HIDE DEF mine
<1>3. Underway' = Underway \/ Underway' = Underway \ {mine}
  BY <1>1, <1>2
<1> QED
  BY <1>3 DEF mine

LEMMA UnderwayWithout ==
    ASSUME NEW g \in Guest,
           \A d \in Caller : /\ Stored(d)' <=> Stored(d) /\ call[d].guest # g
                             /\ call'[d].guest = call[d].guest /\ call'[d].says = call[d].says
    PROVE  Underway' = {x \in Underway : x[1] # g}
<1>1. ASSUME NEW x \in Underway' PROVE x \in Underway /\ x[1] # g
  <2>1. PICK d \in Caller : Stored(d)' /\ x = <<call'[d].guest, call'[d].says>>
    BY <1>1 DEF Underway
  <2> QED
    BY <2>1 DEF Underway
<1>2. ASSUME NEW x \in Underway, x[1] # g PROVE x \in Underway'
  <2>1. PICK d \in Caller : Stored(d) /\ x = <<call[d].guest, call[d].says>>
    BY <1>2 DEF Underway
  <2> QED
    BY <1>2, <2>1 DEF Underway
<1> QED
  BY <1>1, <1>2

-----------------------------------------------------------------------------
\* What each action of the book looks like guest by guest.
LEMMA BookStutters ==
    ASSUME \A g \in Guest : Standing(g)' = Standing(g), Linked' = Linked, Underway' = Underway
    PROVE  BookStep
<1>1. [g \in Guest |-> Standing(g)]' = [g \in Guest |-> Standing(g)]
  OBVIOUS
<1> QED
  BY <1>1 DEF BookStep, Book!book, Linked

LEMMA BookLists ==
    ASSUME NEW new \in SUBSET Guest,
           \A g \in new : Standing(g) = "absent" /\ Standing(g)' = "listed",
           \A g \in Guest \ new : Standing(g)' = Standing(g),
           Linked' = Linked, Underway' = Underway
    PROVE  BookStep
<1>1. Book!List(new)
  BY DEF Book!List, Linked
<1> QED
  BY <1>1 DEF BookStep, Book!Next

\* One guest moves, the others stay where they are.
LEMMA OneMoves ==
    ASSUME NEW g \in Guest, NEW to, Standing(g)' = to,
           \A h \in Guest \ {g} : Standing(h)' = Standing(h)
    PROVE  Book!Moves(g, to)
BY DEF Book!Moves

LEMMA BookInvites ==
    ASSUME NEW g \in Guest, Standing(g) = "listed", Standing(g)' = "invited",
           \A h \in Guest \ {g} : Standing(h)' = Standing(h),
           Linked' = Linked \cup {g}, Underway' = Underway
    PROVE  BookStep
<1>1. Book!Invite(g)
  BY OneMoves DEF Book!Invite, Linked
<1> QED
  BY <1>1 DEF BookStep, Book!Next

LEMMA BookWelcomes ==
    ASSUME NEW g \in Guest, NEW a \in Answers,
           Standing(g) \in {"absent", "listed"}, Standing(g)' = "invited",
           \A h \in Guest \ {g} : Standing(h)' = Standing(h),
           Linked' = Linked, Underway' = Underway \cup {<<g, a>>}
    PROVE  BookStep
<1>1. Book!Welcome(g, a)
  BY OneMoves DEF Book!Welcome, Linked
<1> QED
  BY <1>1 DEF BookStep, Book!Next, Book!Answers, Answers

LEMMA BookShows ==
    ASSUME NEW g \in Guest, Standing(g) \in Answers \cup {"invited"},
           \A h \in Guest : Standing(h)' = Standing(h),
           Linked' = Linked \cup {g}, Underway' = Underway
    PROVE  BookStep
<1>1. Book!Show(g)
  BY DEF Book!Show, Book!HasInvite, Book!Answers, Answers, Linked
<1> QED
  BY <1>1 DEF BookStep, Book!Next

LEMMA BookAsks ==
    ASSUME NEW g \in Guest, NEW a \in Answers, Standing(g) \in Answers \cup {"invited"},
           \A h \in Guest : Standing(h)' = Standing(h),
           Linked' = Linked, Underway' = Underway \cup {<<g, a>>}
    PROVE  BookStep
<1>1. Book!Ask(g, a)
  BY DEF Book!Ask, Book!HasInvite, Book!Answers, Answers, Linked
<1> QED
  BY <1>1 DEF BookStep, Book!Next, Book!Answers, Answers

LEMMA BookStores ==
    ASSUME NEW g \in Guest, NEW a \in Answers, <<g, a>> \in Underway, Standing(g)' = a,
           \A h \in Guest \ {g} : Standing(h)' = Standing(h),
           Linked' = Linked, Underway' \in {Underway, Underway \ {<<g, a>>}}
    PROVE  BookStep
<1>1. Book!Store(g, a)
  BY OneMoves DEF Book!Store, Linked
<1> QED
  BY <1>1 DEF BookStep, Book!Next, Book!Answers, Answers

LEMMA BookRemoves ==
    ASSUME NEW g \in Guest, Standing(g) # "absent", Standing(g)' = "absent",
           \A h \in Guest \ {g} : Standing(h)' = Standing(h),
           Linked' = Linked \ {g}, Underway' = {x \in Underway : x[1] # g}
    PROVE  BookStep
<1>1. Book!Remove(g)
  BY OneMoves DEF Book!Remove, Linked
<1> QED
  BY <1>1 DEF BookStep, Book!Next

-----------------------------------------------------------------------------
\* What a step of one request leaves to show.
LEMMA OneSteps ==
    ASSUME IInv, Aimed, NEW c \in Caller, RowsGrow(Caller \ {c}),
           \A d \in Caller \ {c} : Same(d),
           call'[c].at = "answer" /\ call'[c].guest \in listed' => Stored(c)'
    PROVE  /\ Aimed'
           /\ \A d \in Caller \ {c} : /\ Stored(d)' <=> Stored(d)
                                      /\ Stored(d) => /\ call'[d].guest = call[d].guest
                                                      /\ call'[d].says = call[d].says
<1>1. Caller \ {c} \in SUBSET Caller
  OBVIOUS
<1>2. \A d \in Caller \ {c} : /\ Stored(d)' <=> Stored(d)
                              /\ call'[d].at = "answer" /\ call'[d].guest \in listed' => Stored(d)'
  BY <1>1, OthersStayAimed
<1> QED
  BY <1>2 DEF Aimed, Same

LEMMA NobodySteps ==
    ASSUME IInv, Aimed, RowsGrow(Caller), \A d \in Caller : Same(d)
    PROVE  Aimed' /\ Underway' = Underway
<1>1. \A d \in Caller : /\ Stored(d)' <=> Stored(d)
                        /\ call'[d].at = "answer" /\ call'[d].guest \in listed' => Stored(d)'
  BY OthersStayAimed
<1> QED
  BY <1>1, UnderwaySame DEF Aimed, Same

\* A request that only reads, or ends without writing: at most it now has an
\* answer to store.
LEMMA ReadIsBook ==
    ASSUME IInv, Aimed, UNCHANGED <<listed, token, answer, handed>>,
           NEW c \in Caller, NEW held, call' = [call EXCEPT ![c] = held], ~Stored(c),
           held.at = "answer" => /\ held.guest \in listed /\ token[held.guest] = held.token
                                 /\ held.token > 0 /\ held.says \in Answers
    PROVE  Aimed' /\ BookStep
<1>1. call'[c] = held /\ \A d \in Caller \ {c} : call'[d] = call[d]
  BY DEF IInv, TypeOK
<1>2. RowsGrow(Caller \ {c}) /\ \A d \in Caller \ {c} : Same(d)
  BY <1>1 DEF RowsGrow, Same
<1>3. call'[c].at = "answer" => Stored(c)'
  BY <1>1 DEF Stored
<1>4. /\ Aimed'
      /\ \A d \in Caller \ {c} : /\ Stored(d)' <=> Stored(d)
                                 /\ Stored(d) => /\ call'[d].guest = call[d].guest
                                                 /\ call'[d].says = call[d].says
  BY <1>2, <1>3, OneSteps
<1>5. (\A g \in Guest : Standing(g)' = Standing(g)) /\ Linked' = Linked
  BY DEF Standing, Linked
<1>6. CASE held.at = "answer"
  <2>1. Underway' = Underway \cup {<<held.guest, held.says>>}
    BY <1>1, <1>3, <1>4, <1>6, UnderwayGrows
  <2>2. held.guest \in Guest /\ Standing(held.guest) \in Answers \cup {"invited"}
    BY <1>6 DEF IInv, TypeOK, Standing
  <2> QED
    BY <1>4, <1>5, <1>6, <2>1, <2>2, BookAsks
<1>7. CASE held.at # "answer"
  <2>1. ~Stored(c)'
    BY <1>1, <1>7 DEF Stored
  <2>2. Underway' = Underway
    BY <1>4, <2>1, UnderwaySame
  <2> QED
    BY <1>4, <1>5, <2>2, BookStutters
<1> QED
  BY <1>6, <1>7

\* What the host writes in one step, and what happens around the list.
LEMMA HostIsBook == IInv /\ Aimed /\ HostStep => Aimed' /\ BookStep
<1> SUFFICES ASSUME IInv, Aimed, HostStep PROVE Aimed' /\ BookStep
  OBVIOUS
<1> USE DEF IInv
<1>0. WritesAtOnce => \A d \in Caller : Same(d)
  BY WriteAtOnceCrosses DEF Same
<1>1. ASSUME NEW m \in Mail \cup {NoMail}, AddGuest(m) PROVE Aimed' /\ BookStep
  <2>1. PICK g \in Guest : Unused(g) /\ Created({g}, [h \in {g} |-> m])
    BY <1>1 DEF AddGuest
  <2>2. /\ listed' = listed \cup {g} /\ UNCHANGED <<token, answer, handed>>
        /\ g \notin listed /\ token[g] = 0 /\ \A d \in Caller : call[d].guest # g
    BY <1>1, <2>1 DEF AddGuest, Created, Unused, TypeOK
  <2>3. RowsGrow(Caller)
    BY <2>2 DEF RowsGrow
  <2>4. Aimed' /\ Underway' = Underway
    BY <1>0, <1>1, <2>3, NobodySteps DEF AddGuest
  <2>5. /\ \A h \in {g} : Standing(h) = "absent" /\ Standing(h)' = "listed"
        /\ \A h \in Guest \ {g} : Standing(h)' = Standing(h)
        /\ Linked' = Linked
    BY <2>2 DEF Standing, Linked
  <2>6. {g} \in SUBSET Guest
    OBVIOUS
  <2> QED
    BY <2>4, <2>5, <2>6, BookLists
<1>2. ASSUME NEW g \in Guest, NEW m \in Mail \cup {NoMail}, UpdateGuest(g, m) PROVE Aimed' /\ BookStep
  <2>1. UNCHANGED <<listed, token, answer, handed>> /\ WritesAtOnce
    BY <1>2 DEF UpdateGuest
  <2>2. Aimed' /\ Underway' = Underway
    BY <1>0, <2>1, NobodySteps DEF RowsGrow
  <2> QED
    BY <2>1, <2>2, BookStutters DEF Standing, Linked
<1>3. ASSUME NEW g \in Guest, RemoveGuest(g) PROVE Aimed' /\ BookStep
  <2>1. /\ g \in listed /\ listed' = listed \ {g}
        /\ token'[g] = 0 /\ handed'[g] = 0
        /\ \A h \in Guest \ {g} : token'[h] = token[h] /\ answer'[h] = answer[h] /\ handed'[h] = handed[h]
        /\ \A d \in Caller : Same(d)
    BY <1>0, <1>3 DEF RemoveGuest, TypeOK
  <2>2. ASSUME NEW d \in Caller
        PROVE  /\ Stored(d)' <=> Stored(d) /\ call[d].guest # g
               /\ call'[d].at = "answer" /\ call'[d].guest \in listed' => Stored(d)'
    <3>1. Stored(d)' <=> Stored(d) /\ call[d].guest # g
      <4>1. CASE call[d].guest = g
        BY <2>1, <4>1 DEF Same, Stored
      <4>2. CASE call[d].guest # g
        BY <2>1, <4>2 DEF Same, Stored, TypeOK
      <4> QED
        BY <4>1, <4>2
    <3> QED
      BY <2>1, <3>1 DEF Aimed, Same
  <2>3. Underway' = {x \in Underway : x[1] # g}
    BY <2>1, <2>2, UnderwayWithout DEF Same
  <2>4. /\ Standing(g) # "absent" /\ Standing(g)' = "absent"
        /\ \A h \in Guest \ {g} : Standing(h)' = Standing(h)
    BY <2>1 DEF Standing, TypeOK, Answers
  <2>5. Linked' = Linked \ {g}
    BY <2>1 DEF Linked
  <2> QED
    BY <2>2, <2>3, <2>4, <2>5, BookRemoves DEF Aimed
<1> QED
  BY <1>1, <1>2, <1>3 DEF HostStep

LEMMA SurroundingsAreBook ==
    IInv /\ Aimed /\ ((\E g \in Guest : Expire(g)) \/ SetDoor \/ SoftDelete) => Aimed' /\ BookStep
<1> SUFFICES ASSUME IInv, Aimed, (\E g \in Guest : Expire(g)) \/ SetDoor \/ SoftDelete
             PROVE  Aimed' /\ BookStep
  OBVIOUS
<1>1. WritesAtOnce /\ UNCHANGED <<listed, token, answer, handed>>
  BY DEF Expire, SetDoor, SoftDelete, Edit, rows
<1>2. \A d \in Caller : Same(d)
  BY <1>1, WriteAtOnceCrosses DEF IInv, Same
<1>3. Aimed' /\ Underway' = Underway
  BY <1>1, <1>2, NobodySteps DEF RowsGrow
<1> QED
  BY <1>1, <1>3, BookStutters DEF Standing, Linked

\* The requests that read, and those that end without writing.
LEMMA ReadsAreBook ==
    ASSUME IInv, Aimed, NEW c \in Caller,
           \/ ImportRead(c) \/ OpenFind(c)
           \/ \E g \in Guest : SendRead(c, g)
           \/ \E says \in Answers :
                 \/ \E g \in Guest : AnswerLink(c, g, says) \/ AnswerInvited(c, g, says)
                 \/ \E m \in Mail : AnswerOpen(c, m, says)
    PROVE  Aimed' /\ BookStep
<1> USE DEF IInv
<1>0. call[c] \in Held /\ Found(c)
  BY DEF TypeOK
<1>1. ASSUME NEW held, Begin(c, held), UNCHANGED rows,
             held.at = "answer" => /\ held.guest \in listed /\ token[held.guest] = held.token
                                   /\ held.token > 0 /\ held.says \in Answers
      PROVE  Aimed' /\ BookStep
  <2>1. ~Stored(c)
    BY <1>1 DEF Begin, Stored
  <2> QED
    BY <1>1, <2>1, ReadIsBook DEF Begin, rows
<1>2. CASE ImportRead(c)
  <2>1. PICK new \in SUBSET Mail : Begin(c, [Idle EXCEPT !.at = "import", !.mails = new])
    BY <1>2 DEF ImportRead
  <2>2. [Idle EXCEPT !.at = "import", !.mails = new].at = "import"
    BY DEF Idle
  <2>3. UNCHANGED rows
    BY <1>2 DEF ImportRead
  <2> QED
    BY <1>1, <2>1, <2>2, <2>3
<1>3. ASSUME NEW g \in Guest, SendRead(c, g) PROVE Aimed' /\ BookStep
  <2>1. [Idle EXCEPT !.at = "send", !.guest = g].at = "send"
    BY DEF Idle
  <2> QED
    BY <1>1, <1>3, <2>1 DEF SendRead
<1>4. ASSUME NEW says \in Answers, NEW g \in Guest, AnswerLink(c, g, says) PROVE Aimed' /\ BookStep
  <2> DEFINE held == [Idle EXCEPT !.at = "answer", !.guest = g, !.token = token[g], !.says = says]
  <2>1. held.guest = g /\ held.token = token[g] /\ held.says = says
    BY DEF Idle
  <2>2. g \in listed /\ token[g] > 0
    BY <1>4 DEF AnswerLink, Invites
  <2>3. Begin(c, held) /\ UNCHANGED rows
    BY <1>4 DEF AnswerLink
  <2> HIDE DEF held
  <2> QED
    BY <1>1, <2>1, <2>2, <2>3
<1>5. ASSUME NEW says \in Answers, NEW g \in Guest, AnswerInvited(c, g, says) PROVE Aimed' /\ BookStep
  <2>1. PICK found \in {{}, {mail[g]}} :
           Begin(c, [Idle EXCEPT !.at = "answer", !.guest = g, !.token = token[g],
                                 !.mails = found, !.says = says])
    BY <1>5 DEF AnswerInvited
  <2> DEFINE held == [Idle EXCEPT !.at = "answer", !.guest = g, !.token = token[g],
                                  !.mails = found, !.says = says]
  <2>2. held.guest = g /\ held.token = token[g] /\ held.says = says
    BY DEF Idle
  <2>3. g \in listed /\ token[g] > 0 /\ Begin(c, held) /\ UNCHANGED rows
    BY <1>5, <2>1 DEF AnswerInvited, InviteIsActive
  <2> HIDE DEF held
  <2> QED
    BY <1>1, <2>2, <2>3
<1>6. ASSUME NEW says \in Answers, NEW m \in Mail, AnswerOpen(c, m, says) PROVE Aimed' /\ BookStep
  <2>1. [Idle EXCEPT !.at = "find", !.mails = {m}, !.says = says].at = "find"
    BY DEF Idle
  <2> QED
    BY <1>1, <1>6, <2>1 DEF AnswerOpen
<1>7. CASE OpenFind(c)
  <2>0. UNCHANGED <<listed, token, answer, handed>> /\ ~Stored(c) /\ call[c].says \in Answers
    BY <1>0, <1>7 DEF OpenFind, Stored, Found, FoundIn, rows
  <2>1. CASE Moves(c, [call[c] EXCEPT !.at = "seat"])
    <3>1. [call[c] EXCEPT !.at = "seat"].at = "seat"
      BY <1>0 DEF Held
    <3> QED
      BY <2>0, <2>1, <3>1, ReadIsBook DEF Moves
  <2>2. ASSUME NEW g \in listed,
               Moves(c, [call[c] EXCEPT !.at = IF token[g] > 0 THEN "answer" ELSE "invite",
                                        !.guest = g, !.token = token[g]])
        PROVE  Aimed' /\ BookStep
    <3> DEFINE at == IF token[g] > 0 THEN "answer" ELSE "invite"
               held == [call[c] EXCEPT !.at = at, !.guest = g, !.token = token[g]]
    <3>1. /\ held.at = at /\ held.guest = g /\ held.token = token[g] /\ held.says = call[c].says
      BY <1>0 DEF Held
    <3>2. call' = [call EXCEPT ![c] = held]
      BY <2>2 DEF Moves
    <3>3. at = "answer" => token[g] > 0
      OBVIOUS
    <3> HIDE DEF at, held, IInv
    <3> QED
      BY <2>0, <3>1, <3>2, <3>3, ReadIsBook
  <2> QED
    BY <1>7, <2>1, <2>2 DEF OpenFind
<1> QED
  BY <1>2, <1>3, <1>4, <1>5, <1>6, <1>7

\* An invite for a listed guest who has none: no request had an answer for it.
LEMMA InvitingGrows ==
    ASSUME IInv, NEW g \in Guest, token[g] = 0, NEW until \in {"never", "ahead"}, Invited(g, until)
    PROVE  /\ \A h \in Guest : token[h] > 0 => token'[h] = token[h]
           /\ token'[g] = 1 /\ answer'[g] = "PENDING"
           /\ \A h \in Guest \ {g} : token'[h] = token[h] /\ answer'[h] = answer[h]
<1>1. /\ token'[g] = 1 /\ answer'[g] = "PENDING"
      /\ \A h \in Guest \ {g} : token'[h] = token[h] /\ answer'[h] = answer[h]
  BY InvitedKeeps DEF IInv
<1> QED
  BY <1>1

\* The link of a guest with an invite is given away.
LEMMA HandingLinks ==
    ASSUME IInv, NEW g \in Guest, token'[g] > 0, token[g] \in {0, token'[g]},
           \A h \in Guest \ {g} : token'[h] = token[h], HandOut(g, token'[g])
    PROVE  Linked' = Linked \cup {g}
<1>1. handed'[g] = token'[g]
  BY DEF HandOut, IInv, TypeOK, Invites
<1>2. \A h \in Guest \ {g} : handed'[h] = handed[h]
  BY DEF HandOut, IInv, TypeOK
<1> QED
  BY <1>1, <1>2 DEF Linked

\* The requests that look up a link or send it, and the import.
LEMMA InvitesAreBook ==
    ASSUME IInv, Aimed, NEW c \in Caller,
           ImportCreate(c) \/ UnlockCreate(c) \/ SendUpsert(c) \/ \E g \in Guest : UnlockRead(c, g)
    PROVE  Aimed' /\ BookStep
<1> USE DEF IInv
<1>0. call[c] \in Held /\ Found(c) /\ Idle.at = "idle"
  BY IdleIsHeld DEF TypeOK
<1>1. ASSUME Writes(c, Idle), RowsGrow(Caller \ {c}), ~Stored(c)
      PROVE  Aimed' /\ Underway' = Underway
  <2>1. call'[c] = Idle /\ \A d \in Caller \ {c} : Same(d)
    BY <1>1, WriteCrosses, IdleIsHeld DEF Same
  <2>2. call'[c].at # "answer" /\ ~Stored(c)'
    BY <1>0, <2>1 DEF Stored
  <2>3. /\ Aimed'
        /\ \A d \in Caller \ {c} : /\ Stored(d)' <=> Stored(d)
                                   /\ Stored(d) => /\ call'[d].guest = call[d].guest
                                                   /\ call'[d].says = call[d].says
    BY <1>1, <2>1, <2>2, OneSteps
  <2> QED
    BY <1>1, <2>2, <2>3, UnderwaySame
<1>2. ASSUME Moves(c, Idle), UNCHANGED <<listed, token, answer, handed>>, ~Stored(c)
      PROVE  Aimed' /\ BookStep
  BY <1>0, <1>2, ReadIsBook DEF Moves
<1>3. CASE ImportCreate(c)
  <2>0. PICK new \in SUBSET {g \in Guest : Unused(g)} :
           \E address \in [new -> call[c].mails] : Created(new, address)
    BY <1>3 DEF ImportCreate
  <2>1. /\ listed' = listed \cup new /\ UNCHANGED <<token, answer, handed>>
        /\ \A g \in new : g \notin listed /\ token[g] = 0 /\ \A d \in Caller : call[d].guest # g
    BY <1>3, <2>0 DEF ImportCreate, Created, Unused, TypeOK
  <2>2. RowsGrow(Caller \ {c}) /\ ~Stored(c)
    BY <1>3, <2>1 DEF RowsGrow, ImportCreate, Stored
  <2>3. Aimed' /\ Underway' = Underway
    BY <1>1, <1>3, <2>2 DEF ImportCreate
  <2>4. /\ \A h \in new : Standing(h) = "absent" /\ Standing(h)' = "listed"
        /\ \A h \in Guest \ new : Standing(h)' = Standing(h)
        /\ Linked' = Linked
    BY <2>1 DEF Standing, Linked
  <2> QED
    BY <2>0, <2>3, <2>4, BookLists
<1>4. ASSUME NEW g \in Guest, UnlockRead(c, g) PROVE Aimed' /\ BookStep
  <2>1. CASE token[g] > 0
    <3>1. HandOut(g, token[g]) /\ UNCHANGED <<call, listed, token, answer>> /\ g \in listed
      BY <1>4, <2>1 DEF UnlockRead
    <3>2. Linked' = Linked \cup {g}
      BY <2>1, <3>1, HandingLinks
    <3>3. Aimed' /\ Underway' = Underway /\ \A h \in Guest : Standing(h)' = Standing(h)
      BY <3>1 DEF Aimed, Underway, Stored, Standing
    <3>4. Standing(g) \in Answers \cup {"invited"}
      BY <2>1, <3>1 DEF Standing, TypeOK
    <3> QED
      BY <3>2, <3>3, <3>4, BookShows
  <2>2. CASE ~(token[g] > 0)
    <3> DEFINE held == [Idle EXCEPT !.at = "unlock", !.guest = g]
    <3>1. held.at = "unlock"
      BY DEF Idle
    <3>2. call' = [call EXCEPT ![c] = held] /\ UNCHANGED <<listed, token, answer, handed>>
          /\ call[c].at = "idle"
      BY <1>4, <2>2 DEF UnlockRead, Begin
    <3>3. ~Stored(c)
      BY <3>2 DEF Stored
    <3> HIDE DEF held, IInv
    <3> QED
      BY <3>1, <3>2, <3>3, ReadIsBook
  <2> QED
    BY <2>1, <2>2
<1>5. CASE UnlockCreate(c)
  <2>0. ~Stored(c) /\ call[c].guest \in Guest
    BY <1>0, <1>5 DEF UnlockCreate, Found, FoundIn, Stored
  <2>g. PICK g \in Guest : g = call[c].guest
    BY <2>0
  <2>1. CASE g \in listed /\ token[g] = 0
    <3>1. Invited(g, "never") /\ HandOut(g, 1) /\ Writes(c, Idle) /\ listed' = listed
      BY <1>5, <2>g, <2>1 DEF UnlockCreate
    <3>2. /\ \A h \in Guest : token[h] > 0 => token'[h] = token[h]
          /\ token'[g] = 1 /\ answer'[g] = "PENDING"
          /\ \A h \in Guest \ {g} : token'[h] = token[h] /\ answer'[h] = answer[h]
      BY <2>0, <2>1, <3>1, InvitingGrows
    <3>3. Linked' = Linked \cup {g}
      BY <2>0, <2>1, <3>1, <3>2, HandingLinks
    <3>4. RowsGrow(Caller \ {c})
      BY <3>1, <3>2 DEF RowsGrow
    <3>5. Aimed' /\ Underway' = Underway
      BY <1>1, <2>0, <3>1, <3>4
    <3>6. /\ Standing(g) = "listed" /\ Standing(g)' = "invited"
          /\ \A h \in Guest \ {g} : Standing(h)' = Standing(h)
      BY <2>0, <2>1, <3>1, <3>2 DEF Standing
    <3> QED
      BY <2>0, <3>3, <3>5, <3>6, BookInvites
  <2>2. CASE ~(g \in listed /\ token[g] = 0)
    <3>1. Moves(c, Idle) /\ UNCHANGED <<listed, token, answer, handed>>
      BY <1>5, <2>g, <2>2 DEF UnlockCreate
    <3> QED
      BY <1>2, <2>0, <3>1
  <2> QED
    BY <2>1, <2>2
<1>6. CASE SendUpsert(c)
  <2>0. ~Stored(c) /\ call[c].guest \in Guest
    BY <1>0, <1>6 DEF SendUpsert, Found, FoundIn, Stored
  <2>g. PICK g \in Guest : g = call[c].guest
    BY <2>0
  <2>1. CASE g \in listed /\ token[g] = 0
    <3>1. Invited(g, "ahead") /\ HandOut(g, token'[g]) /\ Writes(c, Idle) /\ listed' = listed
      BY <1>6, <2>g, <2>1 DEF SendUpsert
    <3>2. /\ \A h \in Guest : token[h] > 0 => token'[h] = token[h]
          /\ token'[g] = 1 /\ answer'[g] = "PENDING"
          /\ \A h \in Guest \ {g} : token'[h] = token[h] /\ answer'[h] = answer[h]
      BY <2>0, <2>1, <3>1, InvitingGrows
    <3>3. Linked' = Linked \cup {g}
      BY <2>0, <2>1, <3>1, <3>2, HandingLinks
    <3>4. RowsGrow(Caller \ {c})
      BY <3>1, <3>2 DEF RowsGrow
    <3>5. Aimed' /\ Underway' = Underway
      BY <1>1, <2>0, <3>1, <3>4
    <3>6. /\ Standing(g) = "listed" /\ Standing(g)' = "invited"
          /\ \A h \in Guest \ {g} : Standing(h)' = Standing(h)
      BY <2>0, <2>1, <3>1, <3>2 DEF Standing
    <3> QED
      BY <2>0, <3>3, <3>5, <3>6, BookInvites
  <2>2. CASE g \in listed /\ token[g] # 0
    <3>1. HandOut(g, token'[g]) /\ Writes(c, Idle) /\ UNCHANGED <<listed, token, answer>>
      BY <1>6, <2>g, <2>2 DEF SendUpsert
    <3>2. Linked' = Linked \cup {g}
      <4>1. token'[g] > 0
        BY <2>0, <2>2, <3>1 DEF TypeOK
      <4> QED
        BY <2>0, <3>1, <4>1, HandingLinks
    <3>3. Aimed' /\ Underway' = Underway
      BY <1>1, <2>0, <3>1 DEF RowsGrow
    <3>4. /\ Standing(g) \in Answers \cup {"invited"}
          /\ \A h \in Guest : Standing(h)' = Standing(h)
      BY <2>0, <2>2, <3>1 DEF Standing, TypeOK
    <3> QED
      BY <2>0, <3>2, <3>3, <3>4, BookShows
  <2>3. CASE g \notin listed
    <3>1. Moves(c, Idle) /\ UNCHANGED <<listed, token, answer, handed>>
      BY <1>6, <2>g, <2>3 DEF SendUpsert
    <3> QED
      BY <1>2, <2>0, <3>1
  <2> QED
    BY <2>1, <2>2, <2>3
<1> QED
  BY <1>3, <1>4, <1>5, <1>6

\* The open door, which invites as it asks, and the answer that is stored.
LEMMA DoorIsBook ==
    ASSUME IInv, Aimed, NEW c \in Caller, OpenSeat(c) \/ OpenInvite(c) \/ WriteRsvp(c)
    PROVE  Aimed' /\ BookStep
<1> USE DEF IInv
<1>0. call[c] \in Held /\ Found(c)
  BY DEF TypeOK
\* The request goes on to an answer for the invite it has just made for g.
<1>1. ASSUME NEW g \in Guest, NEW held \in Held, Writes(c, held), RowsGrow(Caller \ {c}), ~Stored(c),
             held.at = "answer", held.guest = g, held.token = 1, held.says = call[c].says,
             g \in listed', token'[g] = 1
      PROVE  Aimed' /\ Underway' = Underway \cup {<<g, call[c].says>>}
  <2>1. call'[c] = held /\ \A d \in Caller \ {c} : Same(d)
    BY <1>1, WriteCrosses DEF Same
  <2>2. Stored(c)'
    BY <1>1, <2>1 DEF Stored
  <2>3. /\ Aimed'
        /\ \A d \in Caller \ {c} : /\ Stored(d)' <=> Stored(d)
                                   /\ Stored(d) => /\ call'[d].guest = call[d].guest
                                                   /\ call'[d].says = call[d].says
    BY <1>1, <2>1, <2>2, OneSteps
  <2>4. Underway' = Underway \cup {<<call'[c].guest, call'[c].says>>}
    BY <1>1, <2>2, <2>3, UnderwayGrows
  <2> QED
    BY <1>1, <2>1, <2>3, <2>4
<1>2. ASSUME Moves(c, Idle), UNCHANGED <<listed, token, answer, handed>>, ~Stored(c)
      PROVE  Aimed' /\ BookStep
  BY <1>2, IdleIsHeld, ReadIsBook DEF Moves
<1>3. CASE OpenSeat(c)
  <2>1. PICK g \in Guest : \E m \in call[c].mails :
          /\ Unused(g)
          /\ Created({g}, [h \in {g} |-> m])
          /\ Invited(g, "never")
          /\ Writes(c, [call[c] EXCEPT !.at = "answer", !.guest = g, !.token = token[g] + 1])
    BY <1>3 DEF OpenSeat
  <2>2. /\ g \notin listed /\ token[g] = 0 /\ listed' = listed \cup {g} /\ handed' = handed
        /\ \A d \in Caller : call[d].guest # g
    BY <1>3, <2>1 DEF OpenSeat, Created, Unused, TypeOK
  <2>3. /\ \A h \in Guest : token[h] > 0 => token'[h] = token[h]
        /\ token'[g] = 1 /\ answer'[g] = "PENDING"
        /\ \A h \in Guest \ {g} : token'[h] = token[h] /\ answer'[h] = answer[h]
    BY <2>1, <2>2, InvitingGrows
  <2> DEFINE held == [call[c] EXCEPT !.at = "answer", !.guest = g, !.token = 1]
  <2>4. Writes(c, held) /\ call[c].says \in Answers /\ ~Stored(c)
    <3>1. token[g] + 1 = 1
      BY <2>2
    <3> QED
      BY <1>0, <1>3, <2>1, <3>1 DEF OpenSeat, Found, FoundIn, Stored
  <2>5. /\ held \in Held /\ held.at = "answer" /\ held.guest = g /\ held.token = 1
        /\ held.says = call[c].says
    BY <1>0 DEF Held, Stages
  <2>6. RowsGrow(Caller \ {c})
    BY <2>2, <2>3 DEF RowsGrow
  <2>7. Aimed' /\ Underway' = Underway \cup {<<g, call[c].says>>}
    <3> HIDE DEF held, IInv
    <3> QED
      BY <1>1, <2>2, <2>3, <2>4, <2>5, <2>6
  <2>8. /\ Standing(g) = "absent" /\ Standing(g)' = "invited"
        /\ \A h \in Guest \ {g} : Standing(h)' = Standing(h)
    BY <2>2, <2>3 DEF Standing
  <2>9. Linked' = Linked
    BY <2>2, <2>3 DEF Linked, Invites, TypeOK
  <2> HIDE DEF held
  <2> QED
    BY <2>4, <2>7, <2>8, <2>9, BookWelcomes
<1>4. CASE OpenInvite(c)
  <2>0. ~Stored(c) /\ call[c].guest \in Guest /\ call[c].says \in Answers
    BY <1>0, <1>4 DEF OpenInvite, Found, FoundIn, Stored
  <2>g. PICK g \in Guest : g = call[c].guest
    BY <2>0
  <2>1. CASE g \in listed /\ token[g] = 0
    <3> DEFINE held == [call[c] EXCEPT !.at = "answer", !.token = 1]
    <3>1. Invited(g, "never") /\ Writes(c, held) /\ UNCHANGED <<listed, handed>>
      <4>1. token[g] + 1 = 1
        BY <2>1
      <4> QED
        BY <1>4, <2>g, <2>1, <4>1 DEF OpenInvite
    <3>2. /\ \A h \in Guest : token[h] > 0 => token'[h] = token[h]
          /\ token'[g] = 1 /\ answer'[g] = "PENDING"
          /\ \A h \in Guest \ {g} : token'[h] = token[h] /\ answer'[h] = answer[h]
      BY <2>1, <3>1, InvitingGrows
    <3>3. /\ held \in Held /\ held.at = "answer" /\ held.guest = g /\ held.token = 1
          /\ held.says = call[c].says
      BY <1>0, <2>g DEF Held, Stages
    <3>4. RowsGrow(Caller \ {c})
      BY <3>1, <3>2 DEF RowsGrow
    <3>5. Aimed' /\ Underway' = Underway \cup {<<g, call[c].says>>}
      <4> HIDE DEF held, IInv
      <4> QED
        BY <1>1, <2>0, <2>1, <3>1, <3>2, <3>3, <3>4
    <3>6. /\ Standing(g) = "listed" /\ Standing(g)' = "invited"
          /\ \A h \in Guest \ {g} : Standing(h)' = Standing(h)
      BY <2>1, <3>1, <3>2 DEF Standing
    <3>7. Linked' = Linked
      BY <2>1, <3>1, <3>2 DEF Linked, Invites, TypeOK
    <3> QED
      BY <2>0, <3>5, <3>6, <3>7, BookWelcomes
  <2>2. CASE ~(g \in listed /\ token[g] = 0)
    <3>1. Moves(c, Idle) /\ UNCHANGED <<listed, token, answer, handed>>
      BY <1>4, <2>g, <2>2 DEF OpenInvite
    <3> QED
      BY <1>2, <2>0, <3>1
  <2> QED
    BY <2>1, <2>2
<1>5. CASE WriteRsvp(c)
  <2>1. CASE Stored(c)
    <3>0. PICK g \in Guest, a \in Answers : g = call[c].guest /\ a = call[c].says
      BY <1>0, <2>1 DEF Stored, Found, FoundIn
    <3>1. /\ answer' = [answer EXCEPT ![g] = a] /\ Writes(c, Idle)
          /\ UNCHANGED <<listed, token, handed>>
      BY <1>5, <2>1, <3>0 DEF WriteRsvp
    <3>2. call'[c] = Idle /\ \A d \in Caller \ {c} : Same(d)
      BY <3>1, WriteCrosses, IdleIsHeld DEF Same
    <3>3. call'[c].at # "answer" /\ ~Stored(c)'
      BY <3>2, IdleIsHeld DEF Stored
    <3>4. RowsGrow(Caller \ {c})
      BY <3>1 DEF RowsGrow
    <3>5. /\ Aimed'
          /\ \A d \in Caller \ {c} : /\ Stored(d)' <=> Stored(d)
                                     /\ Stored(d) => /\ call'[d].guest = call[d].guest
                                                     /\ call'[d].says = call[d].says
      BY <3>2, <3>3, <3>4, OneSteps
    <3>6. Underway' \in {Underway, Underway \ {<<g, a>>}}
      BY <2>1, <3>0, <3>3, <3>5, UnderwayShrinks
    <3>7. <<g, a>> \in Underway
      BY <2>1, <3>0 DEF Underway
    <3>8. token[g] > 0 /\ g \in listed
      BY <1>0, <2>1, <3>0 DEF Stored, Found, FoundIn
    <3>9. Standing(g)' = a /\ \A h \in Guest \ {g} : Standing(h)' = Standing(h)
      BY <3>1, <3>8 DEF Standing, TypeOK, Answers
    <3>10. Linked' = Linked
      BY <3>1 DEF Linked
    <3> QED
      BY <3>5, <3>6, <3>7, <3>9, <3>10, BookStores
  <2>2. CASE ~Stored(c)
    <3>1. Moves(c, Idle) /\ UNCHANGED <<listed, token, answer, handed>>
      BY <1>5, <2>2 DEF WriteRsvp
    <3> QED
      BY <1>2, <2>2, <3>1
  <2> QED
    BY <2>1, <2>2
<1> QED
  BY <1>3, <1>4, <1>5

LEMMA BookInit == Init => Aimed /\ Book!Init
<1> SUFFICES ASSUME Init PROVE Aimed /\ Book!Init
  OBVIOUS
<1>1. Aimed /\ Underway = {}
  BY IdleIsHeld DEF Init, Aimed, Underway, Stored
<1>2. [g \in Guest |-> Standing(g)] = [g \in Guest |-> "absent"]
  BY DEF Init, Standing
<1>3. Linked = {}
  BY DEF Init, Linked
<1> QED
  BY <1>1, <1>2, <1>3 DEF Book!Init, Linked

LEMMA BookNext == IInv /\ Aimed /\ [Next]_vars => Aimed' /\ BookStep
<1> SUFFICES ASSUME IInv, Aimed, [Next]_vars PROVE Aimed' /\ BookStep
  OBVIOUS
<1>1. ASSUME NEW c \in Caller, Step(c) PROVE Aimed' /\ BookStep
  BY <1>1, ReadsAreBook, InvitesAreBook, DoorIsBook DEF Step
<1>2. CASE UNCHANGED vars
  <2>1. UNCHANGED <<listed, token, answer, handed, call>>
    BY <1>2 DEF vars, rows
  <2>2. Aimed' /\ Underway' = Underway /\ \A g \in Guest : Standing(g)' = Standing(g)
    BY <2>1 DEF Aimed, Underway, Stored, Standing
  <2>3. Linked' = Linked
    BY <2>1 DEF Linked
  <2> QED
    BY <2>2, <2>3, BookStutters
<1> QED
  BY <1>1, <1>2, HostIsBook, SurroundingsAreBook DEF Next

\* However requests overlap, GuestList implements InviteBook: every step of a
\* request is one move of the book, or none.
THEOREM BookIsImplemented == Spec => ImplementsBook
<1>1. IInv /\ Aimed /\ [Next]_vars => Aimed' /\ [Book!Next]_(Book!book)
  BY BookNext DEF BookStep
<1> QED
  BY <1>1, BookInit, GuestListInvariant, PTL DEF Spec, ImplementsBook, Book!Spec
=============================================================================
