--------------------------- MODULE AccountsProofs ---------------------------
(***************************************************************************)
(* Proofs about Accounts. The inductive invariant says what a handler that *)
(* is under way may rely on, which webhook the account stands at, and that *)
(* what is out of step has a webhook left that will mend it. On it rests   *)
(* the proof that Accounts implements Register.                            *)
(***************************************************************************)
EXTENDS Accounts, TLAPS

\* Only the last thing the provider tells of somebody is that they left.
LeftIsLast ==
    \A p \in Person : \A i \in 1..Len(log[p]) :
        log[p][i] = NoMail => i = Len(log[p]) /\ i > 1

\* Webhooks are about something that was told.
ToldBefore ==
    /\ \A p \in Person, n \in 1..MaxEvents : <<p, n>> \in inbox => n <= Len(log[p])
    /\ \A p \in Person : seen[p] <= Len(log[p])

\* A live account has an address, and only who left is dead. A deleted account
\* has none, unless its deletion came in between the statements of upsert().
RowsOK ==
    \A p \in Person :
        /\ row[p].is = "live" => row[p].mail # NoMail
        /\ row[p].is = "none" => row[p].mail = NoMail
        /\ row[p].is = "dead" =>
              /\ Overlap \/ row[p].mail = NoMail
              /\ log[p] # <<>> /\ Newest(p) = NoMail
              /\ seen[p] = Len(log[p])

\* The webhook in hand is unanswered and bears an address, and its account was
\* not deleted unless in between; in its second statement the account has that
\* address.
HooksOK ==
    \A p \in Person :
        /\ hook[p].at # "idle" =>
              /\ hook[p].n \in 1..Len(log[p])
              /\ <<p, hook[p].n>> \in inbox
              /\ log[p][hook[p].n] # NoMail
              /\ Overlap \/ row[p].is # "dead"
        /\ hook[p].at = "seats" =>
              /\ row[p].is # "none"
              /\ row[p].is = "live" => row[p].mail = log[p][hook[p].n]
              /\ hook[p].n <= seen[p]
              /\ late[p] \/ row[p].is = "dead" \/ hook[p].n = seen[p]

\* What a visit was told is an address.
VisitsOK == \A p \in Person : visit[p].at = "make" => visit[p].mail # NoMail

\* A webhook that was answered took effect, or found the account deleted.
AnsweredOK ==
    \A p \in Person : \A n \in 1..Len(log[p]) :
        <<p, n>> \notin inbox =>
            /\ row[p].is # "none" \/ log[p][n] = NoMail
            /\ n <= seen[p] \/ row[p].is = "dead"

\* Unless an older webhook came late, the account stands at the newest one
\* that took effect; a deletion that found no account leaves the first one.
StandsAt ==
    \A p \in Person :
        ~late[p] /\ seen[p] > 0 =>
            IF log[p][seen[p]] = NoMail
            THEN row[p].is = "dead" \/ <<p, 1>> \in inbox
            ELSE row[p].is = "live" /\ row[p].mail = log[p][seen[p]]

\* Seats are held by people with accounts, and a seat that bears another
\* address than its holder's account waits for a webhook, or is a stray.
SeatsOK ==
    \A p \in Person, s \in Seat : holder[s] = p =>
        /\ row[p].is # "none"
        /\ row[p].is = "live" /\ seatMail[s] # row[p].mail /\ s \notin stray =>
              \E n \in 1..Len(log[p]) : <<p, n>> \in inbox /\ log[p][n] # NoMail

\* A seat that was not given out is nobody's.
UngivenIsFree == \A s \in Seat : seatMail[s] = NoMail => holder[s] = NoOne

\* A request about seats holds someone with an account, whatever has become
\* of it, an address, and a seat that was given out.
CallsOK ==
    \A c \in Caller :
        /\ call[c].at # "idle" /\ call[c].who # NoOne => row[call[c].who].is # "none"
        /\ call[c].at \in {"create", "check"} => call[c].mail # NoMail
        /\ call[c].at \in {"check", "take"} =>
              /\ call[c].who \in Person
              /\ call[c].seat \in Seat
              /\ seatMail[call[c].seat] # NoMail

IInv ==
    /\ TypeOK /\ LeftIsLast /\ ToldBefore /\ RowsOK /\ HooksOK
    /\ VisitsOK /\ AnsweredOK /\ StandsAt /\ SeatsOK /\ UngivenIsFree /\ CallsOK

-----------------------------------------------------------------------------

LEMMA InitIInv == Init => IInv
  <1> SUFFICES ASSUME Init PROVE IInv
      OBVIOUS
  <1> USE NoneAssumption, BoundAssumption DEF Init
  <1>1. log \in [Person -> Seq(Mails)] /\ \A p \in Person : Len(log[p]) = 0
        OBVIOUS
  <1>2. TypeOK
        BY <1>1 DEF TypeOK, Mails, Row, NoRow, Hook, NoHook, Visit, NoVisit, Held, Idle
  <1>3. LeftIsLast /\ ToldBefore
        BY <1>1 DEF LeftIsLast, ToldBefore
  <1>4. RowsOK /\ HooksOK /\ VisitsOK
        BY DEF RowsOK, HooksOK, VisitsOK, NoRow, NoHook, NoVisit
  <1>5. AnsweredOK /\ StandsAt /\ SeatsOK /\ UngivenIsFree /\ CallsOK
        BY <1>1 DEF AnsweredOK, StandsAt, SeatsOK, UngivenIsFree, CallsOK, Idle
  <1> QED BY <1>2, <1>3, <1>4, <1>5 DEF IInv

\* A log that grows keeps what it had.
LEMMA LogGrows ==
    ASSUME TypeOK, NEW p \in Person, NEW m \in Mails, Tell(p, m)
    PROVE  /\ log' \in [Person -> Seq(Mails)]
           /\ \A q \in Person : Len(log'[q]) = (IF q = p THEN Len(log[q]) + 1 ELSE Len(log[q]))
           /\ \A q \in Person : \A i \in 1..Len(log[q]) : log'[q][i] = log[q][i]
           /\ log'[p][Len(log[p]) + 1] = m
           /\ \A q \in Person \ {p} : log'[q] = log[q]
           /\ \A q \in Person, n \in 1..MaxEvents :
                 <<q, n>> \in inbox' <=> <<q, n>> \in inbox \/ (q = p /\ n = Len(log[p]) + 1)
           /\ Len(log[p]) + 1 \in 1..MaxEvents
  <1> USE BoundAssumption DEF TypeOK, Tell
  <1>1. log[p] \in Seq(Mails) /\ Len(log[p]) \in Nat
        OBVIOUS
  <1>2. /\ Append(log[p], m) \in Seq(Mails)
        /\ Len(Append(log[p], m)) = Len(log[p]) + 1
        /\ \A i \in 1..Len(log[p]) : Append(log[p], m)[i] = log[p][i]
        /\ Append(log[p], m)[Len(log[p]) + 1] = m
        BY <1>1
  <1>3. log' = [log EXCEPT ![p] = Append(log[p], m)]
        OBVIOUS
  <1>4. log'[p] = Append(log[p], m) /\ \A q \in Person \ {p} : log'[q] = log[q]
        BY <1>3
  <1>5. log' \in [Person -> Seq(Mails)]
        BY <1>2, <1>3
  <1>6. inbox' = inbox \cup {<<p, Len(log[p]) + 1>>}
        OBVIOUS
  <1>7. \A q \in Person, n \in 1..MaxEvents :
            <<q, n>> \in inbox' <=> <<q, n>> \in inbox \/ (q = p /\ n = Len(log[p]) + 1)
        BY <1>6
  <1>8. Len(log[p]) + 1 \in 1..MaxEvents
        BY <1>1
  <1> QED BY <1>2, <1>4, <1>5, <1>7, <1>8

LEMMA LastOf ==
    ASSUME TypeOK, NEW p \in Person
    PROVE  /\ Len(log[p]) \in Nat
           /\ log[p] # <<>> <=> Len(log[p]) > 0
           /\ \A i \in 1..Len(log[p]) : log[p][i] \in Mails
  BY DEF TypeOK

\* What the provider does only adds a webhook.
LEMMA TellSafe ==
    ASSUME IInv, NEW p \in Person, NEW m \in Mails, Tell(p, m),
           log[p] = <<>> \/ SignedUp(p), m = NoMail => log[p] # <<>>
    PROVE  IInv'
  <1> USE NoneAssumption, BoundAssumption
  <1>a. TypeOK BY DEF IInv
  <1>b. /\ log' \in [Person -> Seq(Mails)]
        /\ \A q \in Person : Len(log'[q]) = (IF q = p THEN Len(log[q]) + 1 ELSE Len(log[q]))
        /\ \A q \in Person : \A i \in 1..Len(log[q]) : log'[q][i] = log[q][i]
        /\ log'[p][Len(log[p]) + 1] = m
        /\ \A q \in Person \ {p} : log'[q] = log[q]
        /\ \A q \in Person, n \in 1..MaxEvents :
              <<q, n>> \in inbox' <=> <<q, n>> \in inbox \/ (q = p /\ n = Len(log[p]) + 1)
        /\ Len(log[p]) + 1 \in 1..MaxEvents
        BY <1>a, LogGrows
  <1>c. \A q \in Person : Len(log[q]) \in Nat /\ (log[q] # <<>> <=> Len(log[q]) > 0)
                          /\ Len(log[q]) <= MaxEvents
        BY <1>a, LastOf DEF TypeOK
  <1>d. UNCHANGED <<row, holder, seatMail, accepted, call, stray, hook, visit, seen, late>>
        BY DEF Tell, seats
  <1>1. TypeOK'
    <2>1. inbox' \subseteq Webhook
          BY <1>a, <1>b DEF TypeOK, Tell, Webhook
    <2>2. \A q \in Person : Len(log'[q]) <= MaxEvents
          BY <1>b, <1>c
    <2> QED BY <1>a, <1>b, <1>d, <2>1, <2>2 DEF TypeOK
  <1>2. LeftIsLast'
    <2> SUFFICES ASSUME NEW q \in Person, NEW i \in 1..Len(log'[q]), log'[q][i] = NoMail
                 PROVE  i = Len(log'[q]) /\ i > 1
        BY DEF LeftIsLast
    <2>1. CASE q # p
          BY <2>1, <1>b, <1>c DEF IInv, LeftIsLast
    <2>2. CASE q = p /\ i = Len(log[p]) + 1
          BY <2>2, <1>b, <1>c
    <2>3. CASE q = p /\ i \in 1..Len(log[p])
      <3>1. log[p][i] = NoMail /\ i = Len(log[p]) /\ log[p] # <<>>
            BY <2>3, <1>b, <1>c DEF IInv, LeftIsLast
      <3>2. Newest(p) # NoMail
            BY <3>1 DEF SignedUp
      <3> QED BY <3>1, <3>2 DEF Newest
    <2> QED BY <2>1, <2>2, <2>3, <1>b, <1>c
  <1>3. ToldBefore'
    <2>1. \A q \in Person, n \in 1..MaxEvents : <<q, n>> \in inbox' => n <= Len(log'[q])
          BY <1>b, <1>c DEF IInv, ToldBefore
    <2>2. \A q \in Person : seen[q] \in Nat /\ seen[q] <= Len(log[q])
          BY <1>a DEF IInv, ToldBefore, TypeOK
    <2>3. \A q \in Person : seen'[q] <= Len(log'[q])
          BY <2>2, <1>b, <1>c, <1>d
    <2> QED BY <2>1, <2>3 DEF ToldBefore
  <1>4. RowsOK'
    <2> SUFFICES ASSUME NEW q \in Person, row[q].is = "dead"
                 PROVE  log'[q] # <<>> /\ Newest(q)' = NoMail /\ seen'[q] = Len(log'[q])
        BY <1>d DEF IInv, RowsOK
    <2>1. log[q] # <<>> /\ Newest(q) = NoMail /\ seen[q] = Len(log[q])
          BY DEF IInv, RowsOK
    <2>2. q # p
          BY <2>1 DEF SignedUp
    <2> QED BY <2>1, <2>2, <1>b, <1>d DEF Newest
  <1>5. HooksOK'
    <2> SUFFICES ASSUME NEW q \in Person, hook[q].at # "idle"
                 PROVE  /\ hook[q].n \in 1..Len(log'[q])
                        /\ <<q, hook[q].n>> \in inbox'
                        /\ log'[q][hook[q].n] = log[q][hook[q].n]
        BY <1>d DEF IInv, HooksOK
    <2>1. hook[q].n \in 1..Len(log[q]) /\ <<q, hook[q].n>> \in inbox
          BY DEF IInv, HooksOK
    <2> QED BY <2>1, <1>b, <1>c DEF Tell
  <1>6. VisitsOK' /\ UngivenIsFree' /\ CallsOK'
        BY <1>d DEF IInv, VisitsOK, UngivenIsFree, CallsOK
  <1>7. AnsweredOK'
    <2> SUFFICES ASSUME NEW q \in Person, NEW n \in 1..Len(log'[q]), <<q, n>> \notin inbox'
                 PROVE  /\ row[q].is # "none" \/ log'[q][n] = NoMail
                        /\ n <= seen[q] \/ row[q].is = "dead"
        BY <1>d DEF AnsweredOK
    <2>1. n \in 1..Len(log[q]) /\ <<q, n>> \notin inbox
          BY <1>b, <1>c DEF Tell
    <2> QED BY <2>1, <1>b DEF IInv, AnsweredOK
  <1>8. StandsAt'
    <2> SUFFICES ASSUME NEW q \in Person, ~late[q], seen[q] > 0
                 PROVE  /\ log'[q][seen[q]] = log[q][seen[q]]
                        /\ <<q, 1>> \in inbox => <<q, 1>> \in inbox'
        BY <1>d DEF IInv, StandsAt
    <2>1. seen[q] \in 1..Len(log[q])
          BY <1>a, <1>c DEF IInv, ToldBefore, TypeOK
    <2> QED BY <2>1, <1>b DEF Tell
  <1>9. SeatsOK'
    <2> SUFFICES ASSUME NEW q \in Person, NEW n \in 1..Len(log[q]),
                        <<q, n>> \in inbox, log[q][n] # NoMail
                 PROVE  \E k \in 1..Len(log'[q]) : <<q, k>> \in inbox' /\ log'[q][k] # NoMail
        BY <1>d DEF IInv, SeatsOK
    <2> n \in 1..Len(log'[q]) /\ <<q, n>> \in inbox' /\ log'[q][n] # NoMail
        BY <1>b, <1>c DEF Tell
    <2> QED OBVIOUS
  <1> QED BY <1>1, <1>2, <1>3, <1>4, <1>5, <1>6, <1>7, <1>8, <1>9 DEF IInv

-----------------------------------------------------------------------------

\* A request goes on while accounts stay and seats stay given out.
LEMMA CallsKeep ==
    ASSUME TypeOK, CallsOK, UNCHANGED call,
           \A p \in Person : row[p].is # "none" => row'[p].is # "none",
           \A s \in Seat : seatMail[s] # NoMail => seatMail'[s] # NoMail
    PROVE  CallsOK'
  <1>1. \A c \in Caller : call[c].who \in Person \cup {NoOne}
        BY DEF TypeOK, Held
  <1> QED BY <1>1 DEF CallsOK

\* An answer takes away one webhook at most.
LEMMA AnswerTakesOne ==
    ASSUME NEW p \in Person, NEW n \in 1..MaxEvents, NEW lost \in BOOLEAN, Answer(p, n, lost)
    PROVE  /\ inbox' \subseteq inbox
           /\ \A q \in Person, k \in 1..MaxEvents :
                 <<q, k>> \in inbox /\ (q # p \/ k # n) => <<q, k>> \in inbox'
  BY DEF Answer

\* What is in the inbox was told.
LEMMA InboxTold ==
    ASSUME IInv, NEW p \in Person, NEW n, <<p, n>> \in inbox
    PROVE  n \in 1..MaxEvents /\ n \in 1..Len(log[p])
  <1>1. n \in 1..MaxEvents
        BY DEF IInv, TypeOK, Webhook
  <1>2. n <= Len(log[p]) /\ Len(log[p]) \in Nat
        BY <1>1, LastOf DEF IInv, ToldBefore
  <1> QED BY <1>1, <1>2

LEMMA UpsertReadSafe ==
    ASSUME IInv, NEW p \in Person, NEW n, NEW lost \in BOOLEAN, UpsertRead(p, n, lost)
    PROVE  IInv'
  <1> USE NoneAssumption, BoundAssumption
  <1>a. <<p, n>> \in inbox /\ hook[p].at = "idle" /\ log[p][n] # NoMail
        BY DEF UpsertRead, MailOf
  <1>b. n \in 1..MaxEvents /\ n \in 1..Len(log[p])
        BY <1>a, InboxTold
  <1>c. UNCHANGED <<log, row, holder, seatMail, accepted, call, stray, visit, seen, late>>
        BY DEF UpsertRead, seats
  <1>d. /\ \A q \in Person : Len(log[q]) \in Nat /\ Len(log[q]) <= MaxEvents
        /\ \A q \in Person : seen[q] \in 0..MaxEvents
        BY LastOf DEF IInv, TypeOK
  <1>1. CASE row[p].is = "dead"
    <2>1. UNCHANGED hook /\ Answer(p, n, lost)
          BY <1>1 DEF UpsertRead
    <2>2. /\ inbox' \subseteq inbox
          /\ \A q \in Person, k \in 1..MaxEvents :
                <<q, k>> \in inbox /\ (q # p \/ k # n) => <<q, k>> \in inbox'
          BY <2>1, <1>b, AnswerTakesOne
    <2>3. TypeOK' /\ LeftIsLast' /\ RowsOK' /\ VisitsOK' /\ UngivenIsFree' /\ CallsOK'
          BY <2>1, <2>2, <1>c DEF IInv, TypeOK, LeftIsLast, RowsOK, VisitsOK, Newest, UngivenIsFree, CallsOK
    <2>4. ToldBefore'
          BY <2>2, <1>c DEF IInv, ToldBefore
    <2>5. HooksOK'
      <3> SUFFICES ASSUME NEW q \in Person, hook[q].at # "idle"
                   PROVE  <<q, hook[q].n>> \in inbox'
          BY <2>1, <1>c DEF IInv, HooksOK
      <3>1. q # p /\ <<q, hook[q].n>> \in inbox
            BY <1>a DEF IInv, HooksOK
      <3> QED BY <3>1, <2>2, InboxTold
    <2>6. AnsweredOK'
      <3> SUFFICES ASSUME NEW q \in Person, NEW k \in 1..Len(log[q]), <<q, k>> \notin inbox'
                   PROVE  /\ row[q].is # "none" \/ log[q][k] = NoMail
                          /\ k <= seen[q] \/ row[q].is = "dead"
          BY <1>c DEF AnsweredOK
      <3>1. CASE q = p
            BY <3>1, <1>1
      <3>2. CASE q # p
            BY <3>2, <2>2, <1>d DEF IInv, AnsweredOK
      <3> QED BY <3>1, <3>2
    <2>7. StandsAt'
      <3> SUFFICES ASSUME NEW q \in Person, <<q, 1>> \in inbox, row[q].is # "dead"
                   PROVE  <<q, 1>> \in inbox'
          BY <1>c DEF IInv, StandsAt
      <3> QED BY <1>1, <2>2
    <2>8. SeatsOK'
      <3> SUFFICES ASSUME NEW q \in Person, row[q].is = "live",
                          NEW k \in 1..Len(log[q]), <<q, k>> \in inbox
                   PROVE  <<q, k>> \in inbox'
          BY <1>c DEF IInv, SeatsOK
      <3> QED BY <1>1, <1>d, <2>2
    <2> QED BY <2>3, <2>4, <2>5, <2>6, <2>7, <2>8 DEF IInv
  <1>2. CASE row[p].is # "dead"
    <2>1. UNCHANGED inbox /\ hook' = [hook EXCEPT ![p] = [at |-> "write", n |-> n]]
          BY <1>2 DEF UpsertRead
    <2>2. TypeOK'
          BY <2>1, <1>b, <1>c DEF IInv, TypeOK, Hook
    <2>3. HooksOK'
      <3> SUFFICES ASSUME NEW q \in Person
                   PROVE  HooksOK!(q)'
          BY DEF HooksOK
      <3>1. CASE q = p
        <4>1. hook'[p] = [at |-> "write", n |-> n]
              BY <2>1 DEF IInv, TypeOK
        <4> QED BY <3>1, <4>1, <1>a, <1>b, <1>c, <2>1, <1>2
      <3>2. CASE q # p
        <4>1. hook'[q] = hook[q]
              BY <3>2, <2>1 DEF IInv, TypeOK
        <4> QED BY <4>1, <2>1, <1>c DEF IInv, HooksOK
      <3> QED BY <3>1, <3>2
    <2> QED BY <2>1, <2>2, <2>3, <1>c
            DEF IInv, LeftIsLast, RowsOK, VisitsOK, ToldBefore, AnsweredOK, StandsAt, SeatsOK,
                UngivenIsFree, CallsOK, Newest
  <1> QED BY <1>1, <1>2

LEMMA UpsertWriteSafe ==
    ASSUME IInv, NEW p \in Person, UpsertWrite(p)
    PROVE  IInv'
  <1> USE NoneAssumption, BoundAssumption
  <1> DEFINE n == hook[p].n
             a == log[p][n]
             r == Written(row[p], a)
  <1>a. /\ hook[p].at = "write"
        /\ n \in 1..Len(log[p]) /\ <<p, n>> \in inbox /\ a # NoMail
        /\ Overlap \/ row[p].is # "dead"
        BY DEF UpsertWrite, IInv, HooksOK
  <1>b. n \in 1..MaxEvents /\ a \in Mails
        BY <1>a, InboxTold, LastOf DEF IInv
  <1>c. UNCHANGED <<log, inbox, holder, seatMail, accepted, call, stray, visit>>
        BY DEF UpsertWrite, seats, provider
  <1>d. /\ \A q \in Person : Len(log[q]) \in Nat /\ Len(log[q]) <= MaxEvents
        /\ \A q \in Person : seen[q] \in 0..MaxEvents /\ late[q] \in BOOLEAN
        BY LastOf DEF IInv, TypeOK
  <1>e. row' = [row EXCEPT ![p] = r] /\ r \in Row
    <2>1. row[p] \in Row
          BY DEF IInv, TypeOK
    <2> QED BY <2>1, <1>b DEF UpsertWrite, MailOf, Row, Written
  <1>f. row'[p] = r /\ \A q \in Person \ {p} : row'[q] = row[q]
        BY <1>e DEF IInv, TypeOK
  <1>g. /\ seen' = [seen EXCEPT ![p] = IF n > seen[p] THEN n ELSE seen[p]]
        /\ late' = [late EXCEPT ![p] = late[p] \/ n < seen[p]]
        BY DEF UpsertWrite, TakesEffect
  <1>h. /\ seen'[p] = IF n > seen[p] THEN n ELSE seen[p]
        /\ late'[p] = (late[p] \/ n < seen[p])
        /\ \A q \in Person \ {p} : seen'[q] = seen[q] /\ late'[q] = late[q]
        BY <1>g DEF IInv, TypeOK
  <1>i. /\ hook' = [hook EXCEPT ![p].at = "seats"]
        /\ hook'[p].at = "seats" /\ hook'[p].n = n
        /\ \A q \in Person \ {p} : hook'[q] = hook[q]
        BY DEF UpsertWrite, IInv, TypeOK, Hook
  <1>j. /\ r.mail = a /\ r.is # "none"
        /\ r.is = "dead" <=> row[p].is = "dead"
        BY <1>e DEF Written, Row, IInv, TypeOK
  <1> HIDE DEF n, a, r
  \* A deletion that came in between took effect: this webhook is late.
  <1>k. row[p].is = "dead" => n < seen[p] /\ seen[p] = Len(log[p]) /\ late'[p]
    <2> SUFFICES ASSUME row[p].is = "dead" PROVE n < seen[p] /\ seen[p] = Len(log[p])
        BY <1>h, Zenon
    <2>1. seen[p] = Len(log[p]) /\ log[p][Len(log[p])] = NoMail
          BY DEF IInv, RowsOK, Newest
    <2> QED BY <2>1, <1>a, <1>d DEF a
  <1>1. TypeOK'
    <2>1. row' \in [Person -> Row]
          BY <1>e DEF IInv, TypeOK
    <2>2. hook' \in [Person -> Hook]
          BY <1>i DEF IInv, TypeOK, Hook
    <2>3. seen' \in [Person -> 0..MaxEvents] /\ late' \in [Person -> BOOLEAN]
          BY <1>b, <1>d, <1>g DEF IInv, TypeOK
    <2> QED BY <2>1, <2>2, <2>3, <1>c DEF IInv, TypeOK
  <1>2. LeftIsLast' /\ VisitsOK' /\ UngivenIsFree'
        BY <1>c DEF IInv, LeftIsLast, VisitsOK, UngivenIsFree
  <1>3. ToldBefore'
    <2>1. \A q \in Person : seen'[q] <= Len(log[q])
          BY <1>a, <1>d, <1>h DEF IInv, ToldBefore
    <2> QED BY <2>1, <1>c DEF IInv, ToldBefore
  <1>4. RowsOK'
    <2> SUFFICES ASSUME NEW q \in Person PROVE RowsOK!(q)'
        BY DEF RowsOK
    <2>1. CASE q = p
      <3>1. r.is = "dead" => seen'[p] = seen[p]
            BY <1>b, <1>d, <1>h, <1>j, <1>k
      <3> QED BY <2>1, <3>1, <1>a, <1>c, <1>f, <1>j, <1>k DEF IInv, RowsOK, Newest
    <2>2. CASE q # p
          BY <2>2, <1>c, <1>f, <1>h DEF IInv, RowsOK, Newest
    <2> QED BY <2>1, <2>2
  <1>5. HooksOK'
    <2> SUFFICES ASSUME NEW q \in Person PROVE HooksOK!(q)'
        BY DEF HooksOK
    <2>1. CASE q = p
      <3>1. n <= seen'[p] /\ (late'[p] \/ n = seen'[p])
        <4>1. n \in Nat /\ seen[p] \in Nat
              BY <1>b, <1>d
        <4>2. CASE n < seen[p]
          <5>1. late'[p]
                BY <4>2, <1>h, Zenon
          <5>2. n <= seen'[p]
                BY <4>1, <4>2, <1>h
          <5> QED BY <5>1, <5>2
        <4>3. CASE ~(n < seen[p])
              BY <4>1, <4>3, <1>h
        <4> QED BY <4>2, <4>3
      <3> QED BY <2>1, <3>1, <1>a, <1>c, <1>f, <1>i, <1>j DEF a, n
    <2>2. CASE q # p
          BY <2>2, <1>c, <1>f, <1>h, <1>i DEF IInv, HooksOK
    <2> QED BY <2>1, <2>2
  <1>6. AnsweredOK'
    <2> SUFFICES ASSUME NEW q \in Person, NEW k \in 1..Len(log[q]), <<q, k>> \notin inbox
                 PROVE  /\ row'[q].is # "none" \/ log[q][k] = NoMail
                        /\ k <= seen'[q] \/ row'[q].is = "dead"
        BY <1>c DEF AnsweredOK
    <2>1. k <= seen[q] \/ row[q].is = "dead"
          BY DEF IInv, AnsweredOK
    <2>2. CASE q = p
          BY <2>1, <2>2, <1>b, <1>d, <1>f, <1>h, <1>j
    <2>3. CASE q # p
          BY <2>3, <1>f, <1>h DEF IInv, AnsweredOK
    <2> QED BY <2>2, <2>3
  <1>7. StandsAt'
    <2> SUFFICES ASSUME NEW q \in Person, ~late'[q], seen'[q] > 0
                 PROVE  IF log[q][seen'[q]] = NoMail
                        THEN row'[q].is = "dead" \/ <<q, 1>> \in inbox
                        ELSE row'[q].is = "live" /\ row'[q].mail = log[q][seen'[q]]
        BY <1>c DEF StandsAt
    <2>1. CASE q = p
      <3>1. seen'[p] = n
        <4>1. n \in Nat /\ seen[p] \in Nat
              BY <1>b, <1>d
        <4>2. ~(n < seen[p])
              BY <2>1, <1>h
        <4> QED BY <4>1, <4>2, <1>h
      <3>2. r.is = "live"
            BY <2>1, <1>e, <1>j, <1>k DEF Row
      <3> QED BY <2>1, <3>1, <3>2, <1>a, <1>f, <1>j DEF a
    <2>2. CASE q # p
          BY <2>2, <1>f, <1>h DEF IInv, StandsAt
    <2> QED BY <2>1, <2>2
  <1>8. SeatsOK'
    <2> SUFFICES ASSUME NEW q \in Person, NEW s \in Seat, holder[s] = q
                 PROVE  /\ row'[q].is # "none"
                        /\ row'[q].is = "live" /\ seatMail[s] # row'[q].mail /\ s \notin stray =>
                              \E k \in 1..Len(log[q]) : <<q, k>> \in inbox /\ log[q][k] # NoMail
        BY <1>c DEF SeatsOK
    <2>1. CASE q = p
          BY <2>1, <1>a, <1>f, <1>j DEF a
    <2>2. CASE q # p
          BY <2>2, <1>f DEF IInv, SeatsOK
    <2> QED BY <2>1, <2>2
  <1>9. CallsOK'
        BY <1>c, <1>f, <1>j, CallsKeep DEF IInv
  <1> QED BY <1>1, <1>2, <1>3, <1>4, <1>5, <1>6, <1>7, <1>8, <1>9 DEF IInv

LEMMA UpsertSeatsSafe ==
    ASSUME IInv, NEW p \in Person, NEW lost \in BOOLEAN, UpsertSeats(p, lost)
    PROVE  IInv'
  <1> USE NoneAssumption, BoundAssumption
  <1> DEFINE n == hook[p].n
             a == log[p][n]
  <1>a. /\ hook[p].at = "seats"
        /\ n \in 1..Len(log[p]) /\ <<p, n>> \in inbox /\ a # NoMail
        /\ row[p].is # "none" /\ (row[p].is = "live" => row[p].mail = a)
        /\ n <= seen[p]
        /\ late[p] \/ row[p].is = "dead" \/ n = seen[p]
        BY DEF UpsertSeats, IInv, HooksOK
  <1>b. n \in 1..MaxEvents /\ a \in Mails
        BY <1>a, InboxTold, LastOf DEF IInv
  <1>c. UNCHANGED <<log, row, holder, accepted, call, visit, seen, late>>
        BY DEF UpsertSeats
  <1>d. /\ \A q \in Person : Len(log[q]) \in Nat /\ Len(log[q]) <= MaxEvents
        /\ \A q \in Person : seen[q] \in 0..MaxEvents
        BY LastOf DEF IInv, TypeOK
  <1>e. /\ seatMail' = [s \in Seat |-> IF holder[s] = p THEN a ELSE seatMail[s]]
        /\ hook' = [hook EXCEPT ![p] = NoHook]
        /\ Answer(p, n, lost)
        BY DEF UpsertSeats, MailOf
  <1> HIDE DEF n, a
  <1>f. /\ hook'[p].at = "idle"
        /\ \A q \in Person \ {p} : hook'[q] = hook[q]
        BY <1>e DEF IInv, TypeOK, NoHook
  <1>h. stray' = {s \in stray : holder[s] # p}
        BY DEF UpsertSeats
  <1>g. /\ inbox' \subseteq inbox
        /\ \A q \in Person, k \in 1..MaxEvents :
              <<q, k>> \in inbox /\ (q # p \/ k # n) => <<q, k>> \in inbox'
        BY <1>b, <1>e, AnswerTakesOne
  <1>1. TypeOK'
    <2>1. seatMail' \in [Seat -> Mails]
          BY <1>b, <1>e DEF IInv, TypeOK
    <2>2. hook' \in [Person -> Hook]
          BY <1>e DEF IInv, TypeOK, Hook, NoHook
    <2> QED BY <2>1, <2>2, <1>c, <1>g, <1>h DEF IInv, TypeOK
  <1>2. LeftIsLast' /\ VisitsOK' /\ RowsOK'
        BY <1>c DEF IInv, LeftIsLast, VisitsOK, RowsOK, Newest
  <1>8. UngivenIsFree'
        BY <1>a, <1>c, <1>e DEF IInv, UngivenIsFree
  <1>3. ToldBefore'
        BY <1>c, <1>g DEF IInv, ToldBefore
  <1>4. HooksOK'
    <2> SUFFICES ASSUME NEW q \in Person PROVE HooksOK!(q)'
        BY DEF HooksOK
    <2>1. CASE q = p
          BY <2>1, <1>f
    <2>2. CASE q # p
      <3>1. hook[q].at # "idle" => <<q, hook[q].n>> \in inbox'
            BY <2>2, <1>g, InboxTold DEF IInv, HooksOK
      <3> QED BY <2>2, <3>1, <1>c, <1>f DEF IInv, HooksOK
    <2> QED BY <2>1, <2>2
  <1>5. AnsweredOK'
    <2> SUFFICES ASSUME NEW q \in Person, NEW k \in 1..Len(log[q]), <<q, k>> \notin inbox'
                 PROVE  /\ row[q].is # "none" \/ log[q][k] = NoMail
                        /\ k <= seen[q] \/ row[q].is = "dead"
        BY <1>c DEF AnsweredOK
    <2>1. CASE <<q, k>> \notin inbox
          BY <2>1 DEF IInv, AnsweredOK
    <2>2. CASE <<q, k>> \in inbox
      <3>1. q = p /\ k = n
            BY <2>2, <1>d, <1>g
      <3> QED BY <3>1, <1>a
    <2> QED BY <2>1, <2>2
  <1>6. StandsAt'
    <2> SUFFICES ASSUME NEW q \in Person, ~late[q], seen[q] > 0, row[q].is # "dead",
                        log[q][seen[q]] = NoMail, <<q, 1>> \in inbox
                 PROVE  <<q, 1>> \in inbox'
        BY <1>c DEF IInv, StandsAt
    <2>1. seen[q] \in 1..Len(log[q])
          BY <1>d DEF IInv, ToldBefore
    <2>2. seen[q] > 1
          BY <2>1 DEF IInv, LeftIsLast
    <2>3. q # p \/ 1 # n
          BY <2>2, <1>a, <1>b
    <2> QED BY <2>3, <1>g
  <1>7. SeatsOK'
    <2> SUFFICES ASSUME NEW q \in Person, NEW s \in Seat, holder[s] = q
                 PROVE  /\ row[q].is # "none"
                        /\ row[q].is = "live" /\ seatMail'[s] # row[q].mail /\ s \notin stray' =>
                              \E k \in 1..Len(log[q]) : <<q, k>> \in inbox' /\ log[q][k] # NoMail
        BY <1>c DEF SeatsOK
    <2>1. CASE q = p
          BY <2>1, <1>a, <1>e
    <2>2. CASE q # p
      <3>1. seatMail'[s] = seatMail[s]
            BY <2>2, <1>e
      <3>2. \A k \in 1..Len(log[q]) : <<q, k>> \in inbox => <<q, k>> \in inbox'
            BY <2>2, <1>d, <1>g
      <3>3. s \notin stray' => s \notin stray
            BY <2>2, <1>h
      <3> QED BY <2>2, <3>1, <3>2, <3>3 DEF IInv, SeatsOK
    <2> QED BY <2>1, <2>2
  <1>9. CallsOK'
        BY <1>a, <1>c, <1>e, CallsKeep DEF IInv
  <1> QED BY <1>1, <1>2, <1>3, <1>4, <1>5, <1>6, <1>7, <1>8, <1>9 DEF IInv

LEMMA HookFailsSafe ==
    ASSUME IInv, NEW p \in Person, HookFails(p)
    PROVE  IInv'
  <1> USE NoneAssumption, BoundAssumption
  <1>1. /\ hook' = [hook EXCEPT ![p] = NoHook]
        /\ UNCHANGED <<log, inbox, row, holder, seatMail, accepted, call, stray, visit, seen, late>>
        BY DEF HookFails, provider, seats
  <1>2. TypeOK'
        BY <1>1 DEF IInv, TypeOK, Hook, NoHook
  <1>3. HooksOK'
    <2> SUFFICES ASSUME NEW q \in Person PROVE HooksOK!(q)'
        BY DEF HooksOK
    <2>1. hook'[q] = IF q = p THEN NoHook ELSE hook[q]
          BY <1>1 DEF IInv, TypeOK
    <2> QED BY <2>1, <1>1 DEF IInv, HooksOK, NoHook
  <1> QED BY <1>1, <1>2, <1>3
          DEF IInv, LeftIsLast, RowsOK, VisitsOK, ToldBefore, AnsweredOK, StandsAt, SeatsOK,
                UngivenIsFree, CallsOK, Newest

LEMMA SoftDeleteSafe ==
    ASSUME IInv, NEW p \in Person, NEW n, NEW lost \in BOOLEAN, SoftDelete(p, n, lost)
    PROVE  IInv'
  <1> USE NoneAssumption, BoundAssumption
  <1> DEFINE r == IF row[p].is = "live" THEN [is |-> "dead", mail |-> NoMail] ELSE row[p]
  <1>a. <<p, n>> \in inbox /\ (Overlap \/ hook[p].at = "idle") /\ log[p][n] = NoMail
        BY DEF SoftDelete, MailOf
  <1>b. n \in 1..MaxEvents /\ n \in 1..Len(log[p])
        BY <1>a, InboxTold
  <1>c. UNCHANGED <<log, holder, seatMail, accepted, call, stray, hook, visit>>
        BY DEF SoftDelete, seats
  <1>d. /\ \A q \in Person : Len(log[q]) \in Nat /\ Len(log[q]) <= MaxEvents
                              /\ (log[q] # <<>> <=> Len(log[q]) > 0)
        /\ \A q \in Person : seen[q] \in 0..MaxEvents /\ late[q] \in BOOLEAN
        /\ \A q \in Person : seen[q] <= Len(log[q])
        BY LastOf DEF IInv, TypeOK, ToldBefore
  <1>e. n = Len(log[p]) /\ n > 1
        BY <1>a, <1>b DEF IInv, LeftIsLast
  <1>f. row' = [row EXCEPT ![p] = r]
        BY DEF SoftDelete
  <1>g. r \in Row /\ row[p] \in Row
        BY DEF IInv, TypeOK, Row, Mails
  <1>h. row'[p] = r /\ \A q \in Person \ {p} : row'[q] = row[q]
        BY <1>f DEF IInv, TypeOK
  <1>i. /\ row[p].is = "live" => r.is = "dead" /\ r.mail = NoMail
        /\ row[p].is # "live" => r = row[p]
        OBVIOUS
  <1>j. r.is # "live"
        BY <1>i
  <1> HIDE DEF r
  <1>k. /\ seen' = [seen EXCEPT ![p] = IF n > seen[p] THEN n ELSE seen[p]]
        /\ late' = [late EXCEPT ![p] = late[p] \/ n < seen[p]]
        BY DEF SoftDelete, TakesEffect
  <1>l. /\ seen'[p] = n /\ late'[p] = late[p]
        /\ \A q \in Person \ {p} : seen'[q] = seen[q] /\ late'[q] = late[q]
    <2>1. seen[p] <= n
          BY <1>d, <1>e
    <2>2. seen'[p] = IF n > seen[p] THEN n ELSE seen[p]
          BY <1>k DEF IInv, TypeOK
    <2>3. late'[p] = (late[p] \/ n < seen[p])
          BY <1>k DEF IInv, TypeOK
    <2>4. \A q \in Person \ {p} : seen'[q] = seen[q] /\ late'[q] = late[q]
          BY <1>k DEF IInv, TypeOK
    <2>5. ~(n < seen[p]) /\ seen'[p] = n
          BY <2>1, <2>2, <1>b, <1>d
    <2>6. late'[p] = late[p]
          BY <2>3, <2>5, <1>d
    <2> QED BY <2>4, <2>5, <2>6
  <1>m. /\ inbox' \subseteq inbox
        /\ \A q \in Person, k \in 1..MaxEvents :
              <<q, k>> \in inbox /\ (q # p \/ k # n) => <<q, k>> \in inbox'
        BY <1>b, AnswerTakesOne DEF SoftDelete
  <1>1. TypeOK'
    <2>1. row' \in [Person -> Row]
          BY <1>f, <1>g DEF IInv, TypeOK
    <2>2. seen' \in [Person -> 0..MaxEvents] /\ late' \in [Person -> BOOLEAN]
          BY <1>b, <1>d, <1>k DEF IInv, TypeOK
    <2> QED BY <2>1, <2>2, <1>c, <1>m DEF IInv, TypeOK
  <1>2. LeftIsLast' /\ VisitsOK' /\ UngivenIsFree'
        BY <1>c DEF IInv, LeftIsLast, VisitsOK, UngivenIsFree
  <1>3. ToldBefore'
    <2>1. \A q \in Person : seen'[q] <= Len(log[q])
          BY <1>d, <1>e, <1>l
    <2> QED BY <2>1, <1>c, <1>m DEF IInv, ToldBefore
  <1>4. RowsOK'
    <2> SUFFICES ASSUME NEW q \in Person PROVE RowsOK!(q)'
        BY DEF RowsOK
    <2>1. CASE q = p
      <3>1. log[p] # <<>> /\ Newest(p) = NoMail
            BY <1>a, <1>b, <1>d, <1>e DEF Newest
      <3>2. Overlap \/ r.mail = NoMail
            BY <1>g, <1>i DEF IInv, RowsOK, Row
      <3>3. r.is = "none" => r.mail = NoMail
            BY <1>i DEF IInv, RowsOK
      <3> QED BY <2>1, <3>1, <3>2, <3>3, <1>c, <1>e, <1>h, <1>j, <1>l DEF Newest
    <2>2. CASE q # p
          BY <2>2, <1>c, <1>h, <1>l DEF IInv, RowsOK, Newest
    <2> QED BY <2>1, <2>2
  <1>5. HooksOK'
    <2> SUFFICES ASSUME NEW q \in Person PROVE HooksOK!(q)'
        BY DEF HooksOK
    <2>1. CASE q = p
      <3>1. hook[p].at # "idle" => Overlap /\ <<p, hook[p].n>> \in inbox'
        <4> SUFFICES ASSUME hook[p].at # "idle" PROVE <<p, hook[p].n>> \in inbox'
            BY <1>a
        <4>1. <<p, hook[p].n>> \in inbox /\ log[p][hook[p].n] # NoMail
              BY DEF IInv, HooksOK
        <4>2. hook[p].n # n /\ hook[p].n \in 1..MaxEvents
              BY <4>1, <1>a, InboxTold
        <4> QED BY <4>1, <4>2, <1>m
      <3>2. hook[p].at = "seats" => r.is = "dead"
            BY <1>g, <1>i DEF IInv, HooksOK, Row
      <3>3. hook[p].at = "seats" => hook[p].n <= n
        <4> SUFFICES ASSUME hook[p].n \in 1..Len(log[p]) PROVE hook[p].n <= n
            BY DEF IInv, HooksOK
        <4> QED BY <1>d, <1>e
      <3> QED BY <2>1, <3>1, <3>2, <3>3, <1>c, <1>h, <1>l DEF IInv, HooksOK
    <2>2. CASE q # p
      <3>1. hook[q].at # "idle" => <<q, hook[q].n>> \in inbox'
            BY <2>2, <1>m, InboxTold DEF IInv, HooksOK
      <3> QED BY <2>2, <3>1, <1>c, <1>h, <1>l DEF IInv, HooksOK
    <2> QED BY <2>1, <2>2
  <1>6. AnsweredOK'
    <2> SUFFICES ASSUME NEW q \in Person, NEW k \in 1..Len(log[q]), <<q, k>> \notin inbox'
                 PROVE  /\ row'[q].is # "none" \/ log[q][k] = NoMail
                        /\ k <= seen'[q] \/ row'[q].is = "dead"
        BY <1>c DEF AnsweredOK
    <2>1. CASE q = p
      <3>1. k <= seen'[p]
            BY <2>1, <1>d, <1>e, <1>l
      <3>2. row'[p].is # "none" \/ log[p][k] = NoMail
        <4>1. CASE k = n
              BY <4>1, <1>a
        <4>2. CASE k # n
          <5>1. <<p, k>> \notin inbox
                BY <2>1, <4>2, <1>d, <1>m
          <5>2. row[p].is # "none" \/ log[p][k] = NoMail
                BY <2>1, <5>1 DEF IInv, AnsweredOK
          <5> QED BY <5>2, <1>h, <1>i
        <4> QED BY <4>1, <4>2
      <3> QED BY <2>1, <3>1, <3>2
    <2>2. CASE q # p
          BY <2>2, <1>d, <1>h, <1>l, <1>m DEF IInv, AnsweredOK
    <2> QED BY <2>1, <2>2
  <1>7. StandsAt'
    <2> SUFFICES ASSUME NEW q \in Person, ~late'[q], seen'[q] > 0
                 PROVE  IF log[q][seen'[q]] = NoMail
                        THEN row'[q].is = "dead" \/ <<q, 1>> \in inbox'
                        ELSE row'[q].is = "live" /\ row'[q].mail = log[q][seen'[q]]
        BY <1>c DEF StandsAt
    <2>1. CASE q = p
      <3>1. row'[p].is = "dead" \/ row[p].is = "none"
            BY <1>g, <1>h, <1>i DEF Row
      <3>2. row[p].is = "none" => <<p, 1>> \in inbox
        <4>1. 1 \in 1..Len(log[p]) /\ log[p][1] # NoMail
              BY <1>b, <1>d, <1>e DEF IInv, LeftIsLast
        <4> QED BY <4>1 DEF IInv, AnsweredOK
      <3>3. row[p].is = "none" => <<p, 1>> \in inbox'
            BY <3>2, <1>e, <1>m
      <3> QED BY <2>1, <3>1, <3>3, <1>a, <1>l
    <2>2. CASE q # p
          BY <2>2, <1>h, <1>l, <1>m DEF IInv, StandsAt
    <2> QED BY <2>1, <2>2
  <1>8. SeatsOK'
    <2> SUFFICES ASSUME NEW q \in Person, NEW s \in Seat, holder[s] = q
                 PROVE  /\ row'[q].is # "none"
                        /\ row'[q].is = "live" /\ seatMail[s] # row'[q].mail /\ s \notin stray =>
                              \E k \in 1..Len(log[q]) : <<q, k>> \in inbox' /\ log[q][k] # NoMail
        BY <1>c DEF SeatsOK
    <2>1. CASE q = p
          BY <2>1, <1>h, <1>i, <1>j DEF IInv, SeatsOK
    <2>2. CASE q # p
      <3>1. \A k \in 1..Len(log[q]) : <<q, k>> \in inbox => <<q, k>> \in inbox'
            BY <2>2, <1>d, <1>m
      <3> QED BY <2>2, <3>1, <1>h DEF IInv, SeatsOK
    <2> QED BY <2>1, <2>2
  <1>9. CallsOK'
        BY <1>c, <1>h, <1>i, CallsKeep DEF IInv
  <1> QED BY <1>1, <1>2, <1>3, <1>4, <1>5, <1>6, <1>7, <1>8, <1>9 DEF IInv

\* What a visit does before it writes.
LEMMA VisitStepSafe ==
    ASSUME IInv, NEW p \in Person, VisitReads(p) \/ VisitAsks(p) \/ VisitFails(p)
    PROVE  IInv'
  <1> USE NoneAssumption, BoundAssumption
  <1>1. UNCHANGED <<log, inbox, row, holder, seatMail, accepted, call, stray, hook, seen, late>>
        BY DEF VisitReads, VisitAsks, VisitFails, provider, seats
  <1>2. \E v \in Visit : visit' = [visit EXCEPT ![p] = v] /\ (v.at = "make" => v.mail # NoMail)
    <2>1. CASE VisitReads(p)
      <3> DEFINE v == [at |-> "ask", mail |-> NoMail]
      <3>1. v \in Visit /\ v.at # "make"
            BY DEF Visit, Mails
      <3>2. visit' = [visit EXCEPT ![p] = v]
            BY <2>1 DEF VisitReads
      <3> QED BY <3>1, <3>2
    <2>2. CASE VisitAsks(p)
      <3> DEFINE v == [at |-> "make", mail |-> Newest(p)]
      <3>1. Newest(p) # NoMail /\ Newest(p) \in Mails
            BY <2>2, LastOf DEF VisitAsks, SignedUp, Newest, IInv
      <3>2. v \in Visit /\ v.mail # NoMail
            BY <3>1 DEF Visit
      <3>3. visit' = [visit EXCEPT ![p] = v]
            BY <2>2 DEF VisitAsks
      <3> QED BY <3>2, <3>3
    <2>3. CASE VisitFails(p)
      <3>1. NoVisit \in Visit /\ NoVisit.at # "make"
            BY DEF NoVisit, Visit, Mails
      <3>2. visit' = [visit EXCEPT ![p] = NoVisit]
            BY <2>3 DEF VisitFails
      <3> QED BY <3>1, <3>2
    <2> QED BY <2>1, <2>2, <2>3
  <1>3. PICK v \in Visit : visit' = [visit EXCEPT ![p] = v] /\ (v.at = "make" => v.mail # NoMail)
        BY <1>2
  <1>4. TypeOK'
        BY <1>1, <1>3 DEF IInv, TypeOK
  <1>5. VisitsOK'
        BY <1>3 DEF IInv, TypeOK, VisitsOK
  <1> QED BY <1>1, <1>4, <1>5
          DEF IInv, LeftIsLast, RowsOK, HooksOK, ToldBefore, AnsweredOK, StandsAt, SeatsOK,
                UngivenIsFree, CallsOK, Newest

LEMMA VisitMakesSafe ==
    ASSUME IInv, NEW p \in Person, VisitMakes(p)
    PROVE  IInv'
  <1> USE NoneAssumption, BoundAssumption
  <1> DEFINE r == [is |-> "live", mail |-> visit[p].mail]
  <1>a. UNCHANGED <<log, inbox, holder, seatMail, accepted, call, stray, hook, seen, late>>
        BY DEF VisitMakes, provider, seats
  <1>b. visit' = [visit EXCEPT ![p] = NoVisit]
        BY DEF VisitMakes
  <1>c. visit' \in [Person -> Visit] /\ VisitsOK'
        BY <1>b DEF IInv, TypeOK, VisitsOK, Visit, NoVisit, Mails
  <1>1. CASE UNCHANGED row
    <2>1. TypeOK'
          BY <1>1, <1>a, <1>c DEF IInv, TypeOK
    <2> QED BY <1>1, <1>a, <1>c, <2>1
            DEF IInv, LeftIsLast, RowsOK, HooksOK, ToldBefore, AnsweredOK, StandsAt, SeatsOK,
                UngivenIsFree, CallsOK, Newest
  <1>2. CASE row[p].is = "none" /\ row' = [row EXCEPT ![p] = r]
    <2>1. r \in Row /\ r.is = "live" /\ r.mail # NoMail
          BY DEF IInv, TypeOK, VisitsOK, VisitMakes, Visit, Row
    <2>2. row'[p] = r /\ \A q \in Person \ {p} : row'[q] = row[q]
          BY <1>2 DEF IInv, TypeOK
    <2> HIDE DEF r
    <2>3. TypeOK'
          BY <1>2, <1>a, <1>c, <2>1 DEF IInv, TypeOK
    <2>4. RowsOK'
          BY <1>a, <2>1, <2>2 DEF IInv, RowsOK, Newest
    <2>5. HooksOK'
      <3> SUFFICES ASSUME NEW q \in Person PROVE HooksOK!(q)'
          BY DEF HooksOK
      <3>1. CASE q = p
            BY <3>1, <1>2, <1>a, <2>1, <2>2 DEF IInv, HooksOK
      <3>2. CASE q # p
            BY <3>2, <1>a, <2>2 DEF IInv, HooksOK
      <3> QED BY <3>1, <3>2
    <2>6. AnsweredOK'
      <3> SUFFICES ASSUME NEW q \in Person, NEW k \in 1..Len(log[q]), <<q, k>> \notin inbox
                   PROVE  /\ row'[q].is # "none" \/ log[q][k] = NoMail
                          /\ k <= seen[q] \/ row'[q].is = "dead"
          BY <1>a DEF AnsweredOK
      <3>1. /\ row[q].is # "none" \/ log[q][k] = NoMail
            /\ k <= seen[q] \/ row[q].is = "dead"
            BY DEF IInv, AnsweredOK
      <3> QED BY <3>1, <1>2, <2>1, <2>2
    <2>7. StandsAt'
      <3> SUFFICES ASSUME NEW q \in Person, ~late[q], seen[q] > 0
                   PROVE  IF log[q][seen[q]] = NoMail
                          THEN row'[q].is = "dead" \/ <<q, 1>> \in inbox
                          ELSE row'[q].is = "live" /\ row'[q].mail = log[q][seen[q]]
          BY <1>a DEF StandsAt
      <3>1. IF log[q][seen[q]] = NoMail
            THEN row[q].is = "dead" \/ <<q, 1>> \in inbox
            ELSE row[q].is = "live" /\ row[q].mail = log[q][seen[q]]
            BY DEF IInv, StandsAt
      <3> QED BY <3>1, <1>2, <2>2
    <2>8. SeatsOK'
      <3> SUFFICES ASSUME NEW q \in Person, NEW s \in Seat, holder[s] = q
                   PROVE  row'[q] = row[q]
          BY <1>a DEF IInv, SeatsOK
      <3> QED BY <1>2, <2>2 DEF IInv, SeatsOK
    <2>9. CallsOK'
          BY <1>a, <2>1, <2>2, CallsKeep DEF IInv
    <2> QED BY <1>a, <1>c, <2>3, <2>4, <2>5, <2>6, <2>7, <2>8, <2>9
            DEF IInv, LeftIsLast, ToldBefore, UngivenIsFree
  <1> QED BY <1>1, <1>2 DEF VisitMakes

\* A seat that is given on what was read before is right, or a stray.
LEMMA GivenSafe ==
    ASSUME IInv, NEW s \in Seat, NEW p \in Person \cup {NoOne}, NEW a \in Address, Given(s, p, a),
           p # NoOne => row[p].is # "none",
           seatMail' \in [Seat -> Mails], seatMail'[s] = a,
           \A t \in Seat \ {s} : seatMail'[t] = seatMail[t],
           UNCHANGED <<log, inbox, row>>
    PROVE  /\ holder' \in [Seat -> Person \cup {NoOne}] /\ stray' \subseteq Seat
           /\ SeatsOK' /\ UngivenIsFree'
  <1> USE NoneAssumption
  <1>1. holder' \in [Seat -> Person \cup {NoOne}] /\ stray' \subseteq Seat
        BY DEF Given, IInv, TypeOK
  <1>2. /\ holder'[s] = p
        /\ \A t \in Seat \ {s} : holder'[t] = holder[t] /\ (t \in stray' <=> t \in stray)
        /\ s \in stray' <=> p # NoOne /\ row[p].mail # a
        BY DEF Given, IInv, TypeOK
  <1>3. SeatsOK'
    <2> SUFFICES ASSUME NEW q \in Person, NEW t \in Seat, holder'[t] = q
                 PROVE  /\ row[q].is # "none"
                        /\ row[q].is = "live" /\ seatMail'[t] # row[q].mail /\ t \notin stray' =>
                              \E n \in 1..Len(log[q]) : <<q, n>> \in inbox /\ log[q][n] # NoMail
        BY DEF SeatsOK
    <2>1. CASE t = s
          BY <2>1, <1>2
    <2>2. CASE t # s
          BY <2>2, <1>2 DEF IInv, SeatsOK
    <2> QED BY <2>1, <2>2
  <1>4. UngivenIsFree'
    <2> SUFFICES ASSUME NEW t \in Seat, seatMail'[t] = NoMail PROVE holder'[t] = NoOne
        BY DEF UngivenIsFree
    <2>1. t # s
          OBVIOUS
    <2> QED BY <2>1, <1>2 DEF IInv, UngivenIsFree
  <1> QED BY <1>1, <1>3, <1>4

\* A request that goes on to what it holds next.
LEMMA HeldSafe ==
    ASSUME IInv, NEW c \in Caller, NEW h \in Held, call' = [call EXCEPT ![c] = h],
           h.at # "idle" /\ h.who # NoOne => row[h.who].is # "none",
           h.at \in {"create", "check"} => h.mail # NoMail,
           h.at \in {"check", "take"} =>
              h.who \in Person /\ h.seat \in Seat /\ seatMail[h.seat] # NoMail,
           UNCHANGED row, \A t \in Seat : seatMail[t] # NoMail => seatMail'[t] # NoMail
    PROVE  call' \in [Caller -> Held] /\ CallsOK'
  <1>1. call' \in [Caller -> Held]
        BY DEF IInv, TypeOK
  <1>2. \A d \in Caller : call'[d] = IF d = c THEN h ELSE call[d]
        BY DEF IInv, TypeOK
  <1>3. \A d \in Caller : d # c => CallsOK!(d)'
        BY <1>2 DEF IInv, CallsOK
  <1>4. CallsOK!(c)'
        BY <1>2
  <1> QED BY <1>1, <1>3, <1>4 DEF CallsOK

LEMMA IdleHeld == Idle \in Held /\ Idle.at = "idle"
  BY DEF Idle, Held, Mails

\* What a request about seats does before it writes.
LEMMA LookSafe ==
    ASSUME IInv, NEW c \in Caller,
           \/ \E a \in Address : InviteRead(c, a)
           \/ \E p \in Person, s \in Seat : AcceptRead(c, p, s)
           \/ AcceptCheck(c) \/ CallFails(c)
    PROVE  IInv'
  <1> USE NoneAssumption
  <1>1. UNCHANGED <<log, inbox, row, holder, seatMail, accepted, stray, hook, visit, seen, late>>
        BY DEF InviteRead, AcceptRead, AcceptCheck, CallFails, provider
  <1>2. call' \in [Caller -> Held] /\ CallsOK'
    <2>1. ASSUME NEW a \in Address, InviteRead(c, a) PROVE call' \in [Caller -> Held] /\ CallsOK'
      <3>1. PICK p \in IF AccountsWith(a) = {} THEN {NoOne} ELSE AccountsWith(a) :
                Begin(c, [at |-> "create", who |-> p, mail |-> a, seat |-> NoSeat])
            BY <2>1 DEF InviteRead
      <3> DEFINE h == [at |-> "create", who |-> p, mail |-> a, seat |-> NoSeat]
      <3>2. call' = [call EXCEPT ![c] = h]
            BY <3>1 DEF Begin
      <3>3. p # NoOne => p \in Person /\ row[p].is # "none"
            BY <3>1 DEF AccountsWith, IInv, RowsOK, TypeOK, Row
      <3>4. h \in Held /\ h.at = "create" /\ h.who = p /\ h.mail = a
            BY <3>1, <3>3 DEF Held, Mails
      <3> HIDE DEF h
      <3> QED BY <1>1, <3>2, <3>3, <3>4, HeldSafe
    <2>2. ASSUME NEW p \in Person, NEW s \in Seat, AcceptRead(c, p, s)
          PROVE  call' \in [Caller -> Held] /\ CallsOK'
      <3> DEFINE h == [at |-> "check", who |-> p, mail |-> row[p].mail, seat |-> s]
      <3>1. call' = [call EXCEPT ![c] = h]
            BY <2>2 DEF AcceptRead, Begin
      <3>2. row[p].is = "live" /\ row[p].mail # NoMail /\ seatMail[s] # NoMail
            BY <2>2 DEF AcceptRead, IInv, RowsOK
      <3>3. h \in Held
            BY DEF IInv, TypeOK, Row, Held
      <3> QED BY <1>1, <3>1, <3>2, <3>3, HeldSafe
    <2>3. CASE AcceptCheck(c)
      <3> DEFINE h == [call[c] EXCEPT !.at = "take", !.mail = NoMail]
      <3>1. call[c] \in Held /\ call[c].at = "check"
            BY <2>3 DEF AcceptCheck, IInv, TypeOK
      <3>2. call' = [call EXCEPT ![c] = h]
            BY <2>3 DEF AcceptCheck
      <3>3. /\ h \in Held
            /\ h.at = "take" /\ h.who = call[c].who /\ h.seat = call[c].seat
            BY <3>1 DEF Held, Mails
      <3>4. /\ call[c].who \in Person /\ call[c].seat \in Seat
            /\ seatMail[call[c].seat] # NoMail
            /\ row[call[c].who].is # "none"
            BY <3>1 DEF IInv, CallsOK
      <3> HIDE DEF h
      <3> QED BY <1>1, <3>2, <3>3, <3>4, HeldSafe
    <2>4. CASE CallFails(c)
          BY <2>4, <1>1, IdleHeld, HeldSafe DEF CallFails
    <2> QED BY <2>1, <2>2, <2>3, <2>4
  <1>3. TypeOK'
        BY <1>1, <1>2 DEF IInv, TypeOK
  <1> QED BY <1>1, <1>2, <1>3
          DEF IInv, LeftIsLast, RowsOK, HooksOK, VisitsOK, ToldBefore, AnsweredOK, StandsAt,
              SeatsOK, UngivenIsFree, Newest

\* The writes of invite() and accept().
LEMMA SeatStepSafe ==
    ASSUME IInv, NEW c \in Caller,
           (\E s \in Seat : InviteCreate(c, s)) \/ AcceptWrite(c)
    PROVE  IInv'
  <1> USE NoneAssumption
  <1>1. UNCHANGED <<log, inbox, row, hook, visit, seen, late>> /\ call' = [call EXCEPT ![c] = Idle]
        BY DEF InviteCreate, AcceptWrite, provider
  <1>a. call[c] \in Held
        BY DEF IInv, TypeOK
  <1>2. /\ holder' \in [Seat -> Person \cup {NoOne}] /\ stray' \subseteq Seat
        /\ SeatsOK' /\ UngivenIsFree'
        /\ seatMail' \in [Seat -> Mails] /\ accepted' \subseteq Seat
        /\ \A t \in Seat : seatMail[t] # NoMail => seatMail'[t] # NoMail
    <2>1. CASE \E s \in Seat : InviteCreate(c, s)
      <3>1. PICK s \in Seat : InviteCreate(c, s)
            BY <2>1
      <3>2. /\ call[c].who \in Person \cup {NoOne}
            /\ call[c].who # NoOne => row[call[c].who].is # "none"
            /\ call[c].mail \in Address
            BY <3>1, <1>a DEF InviteCreate, IInv, CallsOK, Held, Mails
      <3>3. /\ seatMail' = [seatMail EXCEPT ![s] = call[c].mail] /\ accepted' = accepted
            /\ Given(s, call[c].who, call[c].mail)
            BY <3>1 DEF InviteCreate
      <3>4. /\ seatMail' \in [Seat -> Mails] /\ seatMail'[s] = call[c].mail
            /\ \A t \in Seat \ {s} : seatMail'[t] = seatMail[t]
            BY <3>2, <3>3 DEF IInv, TypeOK, Mails
      <3>5. \A t \in Seat : seatMail[t] # NoMail => seatMail'[t] # NoMail
            BY <3>2, <3>4
      <3>6. accepted' \subseteq Seat
            BY <3>3 DEF IInv, TypeOK
      <3> QED BY <1>1, <3>2, <3>3, <3>4, <3>5, <3>6, GivenSafe
    <2>2. CASE AcceptWrite(c)
      <3> DEFINE s == call[c].seat
                 p == call[c].who
      <3>1. /\ p \in Person /\ s \in Seat /\ seatMail[s] # NoMail /\ row[p].is # "none"
            BY <2>2 DEF AcceptWrite, IInv, CallsOK
      <3>2. seatMail[s] \in Address /\ seatMail \in [Seat -> Mails]
            BY <3>1 DEF IInv, TypeOK, Mails
      <3>3. Given(s, p, seatMail[s]) /\ accepted' = accepted \cup {s} /\ seatMail' = seatMail
            BY <2>2 DEF AcceptWrite
      <3>4. accepted' \subseteq Seat
            BY <3>1, <3>3 DEF IInv, TypeOK
      <3> HIDE DEF s, p
      <3> QED BY <1>1, <3>1, <3>2, <3>3, <3>4, GivenSafe
    <2> QED BY <2>1, <2>2
  <1>3. call' \in [Caller -> Held] /\ CallsOK'
        BY <1>1, <1>2, IdleHeld, HeldSafe
  <1>4. TypeOK'
        BY <1>1, <1>2, <1>3 DEF IInv, TypeOK
  <1> QED BY <1>1, <1>2, <1>3, <1>4
          DEF IInv, LeftIsLast, RowsOK, HooksOK, VisitsOK, ToldBefore, AnsweredOK, StandsAt, Newest

-----------------------------------------------------------------------------

\* Every step keeps the invariant.
LEMMA StepIInv == IInv /\ [Next]_vars => IInv'
  <1> SUFFICES ASSUME IInv, [Next]_vars PROVE IInv'
      OBVIOUS
  <1> USE NoneAssumption
  <1>1. ASSUME NEW p \in Person, NEW a \in Address, SetAddress(p, a) PROVE IInv'
        BY <1>1, TellSafe DEF SetAddress, Mails
  <1>2. ASSUME NEW p \in Person, Leave(p) PROVE IInv'
        BY <1>2, TellSafe DEF Leave, SignedUp, Mails
  <1>3. ASSUME NEW w \in inbox, NEW lost \in BOOLEAN,
               UpsertRead(w[1], w[2], lost) \/ SoftDelete(w[1], w[2], lost)
        PROVE  IInv'
    <2>1. w[1] \in Person
          BY DEF IInv, TypeOK, Webhook
    <2> QED BY <1>3, <2>1, UpsertReadSafe, SoftDeleteSafe
  <1>4. ASSUME NEW p \in Person, NEW lost \in BOOLEAN,
               UpsertWrite(p) \/ UpsertSeats(p, lost) \/ HookFails(p)
        PROVE  IInv'
        BY <1>4, UpsertWriteSafe, UpsertSeatsSafe, HookFailsSafe
  <1>5. ASSUME NEW p \in Person,
               VisitReads(p) \/ VisitAsks(p) \/ VisitMakes(p) \/ VisitFails(p)
        PROVE  IInv'
        BY <1>5, VisitStepSafe, VisitMakesSafe
  <1>6. ASSUME NEW c \in Caller,
               \/ \E a \in Address : InviteRead(c, a)
               \/ \E s \in Seat : InviteCreate(c, s) \/ \E p \in Person : AcceptRead(c, p, s)
               \/ AcceptCheck(c) \/ AcceptWrite(c) \/ CallFails(c)
        PROVE  IInv'
        BY <1>6, LookSafe, SeatStepSafe
  <1>7. CASE UNCHANGED vars
    <2>1. UNCHANGED <<log, inbox, row, seats, hook, visit, seen, late>>
          BY <1>7 DEF vars, provider
    <2>2. TypeOK'
          BY <2>1 DEF IInv, TypeOK, seats
    <2>3. HooksOK'
          BY <2>1 DEF IInv, HooksOK
    <2> QED BY <2>1, <2>2, <2>3
            DEF seats, IInv, LeftIsLast, RowsOK, VisitsOK, ToldBefore, AnsweredOK, StandsAt,
                SeatsOK, UngivenIsFree, CallsOK, Newest
  <1> QED BY <1>1, <1>2, <1>3, <1>4, <1>5, <1>6, <1>7 DEF Next

\* The invariant holds for any number of people, addresses, seats and changes.
THEOREM AccountsInvariant == Spec => []IInv
  BY InitIInv, StepIInv, PTL DEF Spec

\* Rows, webhooks and handlers keep their form.
THEOREM AccountTypes == Spec => []TypeOK
  <1>1. IInv => TypeOK
        BY DEF IInv
  <1> QED BY <1>1, AccountsInvariant, PTL

\* upsert() and a visit never give a deleted account an address again.
\* Not when a deletion comes in between the read and the write of upsert().
THEOREM DeadHoldNoAddresses == ASSUME ~Overlap PROVE Spec => []DeadHoldsNoAddress
  <1>1. IInv => DeadHoldsNoAddress
        BY DEF IInv, RowsOK, DeadHoldsNoAddress
  <1> QED BY <1>1, AccountsInvariant, PTL

\* When nothing is left to answer, seats bear the address of their holder,
\* whatever failed between the two statements of upsert(), except those that
\* invite() or accept() gave to someone who had moved since they looked.
THEOREM SeatsFollowAccounts == Spec => []SeatsFollow
  <1>1. IInv => SeatsFollow
        BY InboxTold DEF IInv, SeatsOK, SeatsFollow, Settled
  <1> QED BY <1>1, AccountsInvariant, PTL

\* When nothing is left to answer and no older webhook came late, accounts
\* are what the provider says.
THEOREM AccountsFollowProvider == Spec => []AccountFollows
  <1>1. ASSUME IInv PROVE AccountFollows
    <2> SUFFICES ASSUME NEW p \in Person, Settled(p), ~late[p], log[p] # <<>>
                 PROVE  IF SignedUp(p) THEN row[p] = [is |-> "live", mail |-> Newest(p)]
                                       ELSE row[p].is = "dead"
        BY DEF AccountFollows
    <2> DEFINE L == Len(log[p])
    <2>1. L \in Nat /\ L > 0 /\ L <= MaxEvents /\ seen[p] \in Nat /\ seen[p] <= L
          BY <1>1, LastOf DEF IInv, TypeOK, ToldBefore
    <2>2. <<p, L>> \notin inbox /\ <<p, 1>> \notin inbox
          BY DEF Settled
    <2>3. L <= seen[p] \/ row[p].is = "dead"
          BY <1>1, <2>1, <2>2 DEF IInv, AnsweredOK
    <2>4. row[p] \in Row
          BY <1>1 DEF IInv, TypeOK
    <2>5. row[p].is = "dead" => Newest(p) = NoMail
          BY <1>1 DEF IInv, RowsOK
    <2>6. CASE row[p].is = "dead"
          BY <2>5, <2>6 DEF SignedUp
    <2>7. CASE row[p].is # "dead"
      <3>1. seen[p] = L
            BY <2>1, <2>3, <2>7
      <3>2. IF Newest(p) = NoMail
            THEN row[p].is = "dead" \/ <<p, 1>> \in inbox
            ELSE row[p].is = "live" /\ row[p].mail = Newest(p)
            BY <1>1, <2>1, <3>1 DEF IInv, StandsAt, Newest
      <3>3. row[p].is = "live" /\ row[p].mail = Newest(p) /\ Newest(p) # NoMail
            BY <3>2, <2>2, <2>7
      <3> QED BY <3>3, <2>4 DEF SignedUp, Row
    <2> QED BY <2>6, <2>7
  <1> QED BY <1>1, AccountsInvariant, PTL


-----------------------------------------------------------------------------
(* Accounts implements Register.                                           *)

\* What a visit is about to write was told, however long ago.
VisitsTold == \A p \in Person : visit[p].at = "make" => visit[p].mail \in Told(p)

RegisterStep == Reg!Next \/ UNCHANGED Reg!register

\* No request about a seat has moved on.
LEMMA CallsRest == UNCHANGED call => Found' = Found /\ Fits' = Fits
  BY DEF Found, Fits

\* What the register says of addresses is as it was.
Unsaid == \A p \in Person : log'[p] = log[p]

LEMMA ToldIs ==
    ASSUME TypeOK, NEW p \in Person
    PROVE  /\ Told(p) \subseteq Address
           /\ \A n \in 1..Len(log[p]) : log[p][n] # NoMail => log[p][n] \in Told(p)
  BY LastOf DEF Told, Mails

LEMMA UnsaidKeeps ==
    ASSUME Unsaid
    PROVE  /\ \A p \in Person : Told(p)' = Told(p)
           /\ [p \in Person |-> Told(p)]' = [p \in Person |-> Told(p)]
           /\ Gone' = Gone
  BY DEF Unsaid, Told, Gone, Newest

\* Something told is told of one person.
LEMMA TellAdds ==
    ASSUME IInv, NEW p \in Person, NEW m \in Mails, Tell(p, m),
           log[p] = <<>> \/ SignedUp(p)
    PROVE  /\ p \notin Gone
           /\ [q \in Person |-> Told(q)]' =
                 [[q \in Person |-> Told(q)] EXCEPT ![p] = Told(p) \cup ({m} \ {NoMail})]
           /\ Gone' = IF m = NoMail THEN Gone \cup {p} ELSE Gone
           /\ \A q \in Person : Told(q) \subseteq Told(q)'
           /\ UNCHANGED <<row, holder, seatMail, accepted, call, visit>>
  <1>a. TypeOK
        BY DEF IInv
  <1>b. /\ log' \in [Person -> Seq(Mails)]
        /\ \A q \in Person : Len(log'[q]) = (IF q = p THEN Len(log[q]) + 1 ELSE Len(log[q]))
        /\ \A q \in Person : \A i \in 1..Len(log[q]) : log'[q][i] = log[q][i]
        /\ log'[p][Len(log[p]) + 1] = m
        /\ \A q \in Person \ {p} : log'[q] = log[q]
        BY <1>a, LogGrows
  <1>c. Len(log[p]) \in Nat
        BY <1>a, LastOf
  <1>1. Told(p)' = Told(p) \cup ({m} \ {NoMail})
    <2>1. \A n \in 1..Len(log'[p]) :
              log'[p][n] = (IF n = Len(log[p]) + 1 THEN m ELSE log[p][n])
          BY <1>b, <1>c
    <2>2. \A n \in 1..Len(log'[p]) : n = Len(log[p]) + 1 \/ n \in 1..Len(log[p])
          BY <1>b, <1>c
    <2>3. /\ Len(log[p]) + 1 \in 1..Len(log'[p])
          /\ \A n \in 1..Len(log[p]) : n \in 1..Len(log'[p])
          BY <1>b, <1>c
    <2>4. ASSUME NEW x \in Told(p)' PROVE x \in Told(p) \cup ({m} \ {NoMail})
      <3>1. PICK n \in 1..Len(log'[p]) : x = log'[p][n] /\ x # NoMail
            BY <2>4 DEF Told
      <3>2. CASE n = Len(log[p]) + 1
            BY <3>1, <3>2, <1>b
      <3>3. CASE n \in 1..Len(log[p])
            BY <3>1, <3>3, <1>b DEF Told
      <3> QED BY <2>2, <3>2, <3>3
    <2>5. ASSUME NEW x \in Told(p) PROVE x \in Told(p)'
      <3>1. PICK n \in 1..Len(log[p]) : x = log[p][n] /\ x # NoMail
            BY <2>5 DEF Told
      <3>2. n \in 1..Len(log'[p]) /\ log'[p][n] = x
            BY <3>1, <2>3, <1>b
      <3> QED BY <3>1, <3>2 DEF Told
    <2>6. m # NoMail => m \in Told(p)'
          BY <2>3, <1>b DEF Told
    <2> QED BY <2>4, <2>5, <2>6
  <1>2. \A q \in Person \ {p} : Told(q)' = Told(q)
        BY <1>b DEF Told
  <1>3. [q \in Person |-> Told(q)]' =
            [[q \in Person |-> Told(q)] EXCEPT ![p] = Told(p) \cup ({m} \ {NoMail})]
    <2>1. \A q \in Person :
              Told(q)' = IF q = p THEN Told(p) \cup ({m} \ {NoMail}) ELSE Told(q)
          BY <1>1, <1>2
    <2> QED BY <2>1
  <1>4. log'[p] # <<>> /\ Newest(p)' = m
    <2>1. log'[p] \in Seq(Mails) /\ Len(log'[p]) = Len(log[p]) + 1
          BY <1>b
    <2> QED BY <2>1, <1>b, <1>c DEF Newest
  <1>5. \A q \in Person \ {p} : q \in Gone' <=> q \in Gone
        BY <1>b DEF Gone, Newest
  <1>6. p \notin Gone
        BY DEF Gone, SignedUp
  <1>7. Gone' = IF m = NoMail THEN Gone \cup {p} ELSE Gone
    <2>1. p \in Gone' <=> m = NoMail
          BY <1>4 DEF Gone
    <2>2. Gone \subseteq Person /\ Gone' \subseteq Person
          BY DEF Gone
    <2>3. CASE m = NoMail
          BY <1>5, <2>1, <2>2, <2>3
    <2>4. CASE m # NoMail
      <3>1. \A q \in Person : q \in Gone' <=> q \in Gone
            BY <1>5, <1>6, <2>1, <2>4
      <3> QED BY <3>1, <2>2, <2>4
    <2> QED BY <2>3, <2>4
  <1>8. UNCHANGED <<row, holder, seatMail, accepted, call, visit>>
        BY DEF Tell, seats
  <1> QED BY <1>1, <1>2, <1>3, <1>6, <1>7, <1>8

LEMMA TellsAreRegister ==
    ASSUME IInv, VisitsTold, NEW p \in Person,
           (\E a \in Address : SetAddress(p, a)) \/ Leave(p)
    PROVE  VisitsTold' /\ RegisterStep
  <1> USE NoneAssumption
  <1>1. ASSUME NEW a \in Address, SetAddress(p, a) PROVE VisitsTold' /\ RegisterStep
    <2>1. /\ p \notin Gone
          /\ [q \in Person |-> Told(q)]' =
                [[q \in Person |-> Told(q)] EXCEPT ![p] = Told(p) \cup ({a} \ {NoMail})]
          /\ Gone' = Gone
          /\ \A q \in Person : Told(q) \subseteq Told(q)'
          /\ UNCHANGED <<row, holder, seatMail, accepted, call, visit>>
          BY <1>1, TellAdds DEF SetAddress, Mails
    <2>2. [q \in Person |-> Told(q)]' =
              [[q \in Person |-> Told(q)] EXCEPT ![p] = @ \cup {a}]
          BY <2>1
    <2>3. Reg!Tell(p, a)
          BY <2>1, <2>2, CallsRest DEF Reg!Tell, Reg!seating
    <2>4. VisitsTold'
          BY <2>1 DEF VisitsTold
    <2> QED BY <2>3, <2>4 DEF RegisterStep, Reg!Next
  <1>2. ASSUME Leave(p) PROVE VisitsTold' /\ RegisterStep
    <2>1. /\ p \notin Gone
          /\ [q \in Person |-> Told(q)]' =
                [[q \in Person |-> Told(q)] EXCEPT ![p] = Told(p) \cup ({NoMail} \ {NoMail})]
          /\ Gone' = Gone \cup {p}
          /\ \A q \in Person : Told(q) \subseteq Told(q)'
          /\ UNCHANGED <<row, holder, seatMail, accepted, call, visit>>
          BY <1>2, TellAdds DEF Leave, Mails
    <2>2. [q \in Person |-> Told(q)]' = [q \in Person |-> Told(q)]
          BY <2>1
    <2>3. Newest(p) \in Told(p)
      <3>1. log[p] # <<>> /\ Newest(p) # NoMail
            BY <1>2 DEF Leave, SignedUp
      <3>2. Len(log[p]) \in Nat /\ Len(log[p]) > 0
            BY <3>1, LastOf DEF IInv
      <3> QED BY <3>1, <3>2 DEF Told, Newest
    <2>4. Reg!Leave(p)
          BY <2>1, <2>2, <2>3, CallsRest DEF Reg!Leave, Reg!seating
    <2>5. VisitsTold'
          BY <2>1 DEF VisitsTold
    <2> QED BY <2>4, <2>5 DEF RegisterStep, Reg!Next
  <1> QED BY <1>1, <1>2

\* An account that is written bears an address of its person's that is free.
LEMMA HoldIsRegister ==
    ASSUME TypeOK, Unsaid, NEW p \in Person, NEW a \in Told(p), row[p].is # "dead",
           Free(p, a), row' = [row EXCEPT ![p] = [is |-> "live", mail |-> a]],
           UNCHANGED <<holder, seatMail, accepted, call>>
    PROVE  RegisterStep
  <1>1. a \in Address
        BY ToldIs
  <1>2. Reg!Hold(p, a)
        BY UnsaidKeeps, CallsRest DEF Free, Reg!Hold, Reg!seating
  <1> QED BY <1>1, <1>2 DEF RegisterStep, Reg!Next

LEMMA WebhooksAreRegister ==
    ASSUME ~Overlap, IInv, VisitsTold, NEW p \in Person, NEW n, NEW lost \in BOOLEAN,
           \/ UpsertRead(p, n, lost) \/ UpsertWrite(p) \/ UpsertSeats(p, lost)
           \/ HookFails(p) \/ SoftDelete(p, n, lost)
    PROVE  VisitsTold' /\ RegisterStep
  <1> USE NoneAssumption
  <1>a. TypeOK /\ RowsOK /\ HooksOK
        BY DEF IInv
  <1>b. UNCHANGED <<log, visit>>
        BY DEF UpsertRead, UpsertWrite, UpsertSeats, HookFails, SoftDelete, provider
  <1>c. Unsaid
        BY <1>b DEF Unsaid
  <1>1. VisitsTold'
        BY <1>b, <1>c, UnsaidKeeps DEF VisitsTold
  <1>2. CASE UpsertRead(p, n, lost) \/ HookFails(p)
    <2>1. UNCHANGED <<row, holder, seatMail, accepted, call>>
          BY <1>2 DEF UpsertRead, HookFails, seats
    <2> QED BY <2>1, <1>c, <1>1, UnsaidKeeps, CallsRest
            DEF RegisterStep, Reg!register, Reg!accounts, Reg!seating
  <1>3. CASE UpsertWrite(p)
    <2>n. PICK k \in 1..Len(log[p]) : k = hook[p].n
          BY <1>3, <1>a DEF UpsertWrite, HooksOK
    <2>1. log[p][k] # NoMail /\ row[p].is # "dead"
          BY <2>n, <1>3, <1>a DEF UpsertWrite, HooksOK
    <2>2. log[p][k] \in Told(p)
          BY <2>1, <1>a, ToldIs
    <2>3. Free(p, log[p][k]) /\ row' = [row EXCEPT ![p] = Written(row[p], log[p][k])]
          BY <2>n, <1>3 DEF UpsertWrite, MailOf
    <2>4. Written(row[p], log[p][k]) = [is |-> "live", mail |-> log[p][k]]
          BY <2>1, <1>a DEF Written, TypeOK, Row
    <2>5. UNCHANGED <<holder, seatMail, accepted, call>>
          BY <1>3 DEF UpsertWrite, seats
    <2> QED BY <2>1, <2>2, <2>3, <2>4, <2>5, <1>a, <1>c, <1>1, HoldIsRegister
  <1>4. CASE UpsertSeats(p, lost)
    <2>1. row[p].is = "live" /\ row[p].mail = log[p][hook[p].n]
          BY <1>4, <1>a DEF UpsertSeats, HooksOK, TypeOK, Row
    <2>2. seatMail' = [s \in Seat |-> IF holder[s] = p THEN row[p].mail ELSE seatMail[s]]
          BY <1>4, <2>1 DEF UpsertSeats, MailOf
    <2>3. UNCHANGED <<row, holder, accepted, call>>
          BY <1>4 DEF UpsertSeats
    <2>4. Reg!Follow(p)
          BY <2>1, <2>2, <2>3, <1>c, UnsaidKeeps, CallsRest DEF Reg!Follow, Reg!accounts
    <2> QED BY <2>4, <1>1 DEF RegisterStep, Reg!Next
  <1>5. CASE SoftDelete(p, n, lost)
    <2>1. UNCHANGED <<holder, seatMail, accepted, call>>
          BY <1>5 DEF SoftDelete, seats
    <2>2. CASE row[p].is = "live"
      <3>1. row' = [row EXCEPT ![p] = [is |-> "dead", mail |-> NoMail]]
            BY <1>5, <2>2 DEF SoftDelete
      <3>2. n \in 1..Len(log[p]) /\ log[p][n] = NoMail
            BY <1>5, InboxTold DEF SoftDelete, MailOf
      <3>3. p \in Gone
            BY <3>2, <1>a, LastOf DEF IInv, LeftIsLast, Gone, Newest
      <3>4. Reg!Close(p)
            BY <2>1, <2>2, <3>1, <3>3, <1>c, UnsaidKeeps, CallsRest DEF Reg!Close, Reg!seating
      <3> QED BY <3>4, <1>1 DEF RegisterStep, Reg!Next
    <2>3. CASE row[p].is # "live"
      <3>1. row' = row
            BY <1>5, <1>a, <2>3 DEF SoftDelete, TypeOK
      <3> QED BY <3>1, <2>1, <1>c, <1>1, UnsaidKeeps, CallsRest
            DEF RegisterStep, Reg!register, Reg!accounts, Reg!seating
    <2> QED BY <2>2, <2>3
  <1> QED BY <1>1, <1>2, <1>3, <1>4, <1>5

LEMMA VisitsAreRegister ==
    ASSUME IInv, VisitsTold, NEW p \in Person,
           VisitReads(p) \/ VisitAsks(p) \/ VisitMakes(p) \/ VisitFails(p)
    PROVE  VisitsTold' /\ RegisterStep
  <1> USE NoneAssumption
  <1>a. TypeOK
        BY DEF IInv
  <1>b. UNCHANGED <<log, holder, seatMail, accepted, call>>
        BY DEF VisitReads, VisitAsks, VisitMakes, VisitFails, provider, seats
  <1>c. Unsaid
        BY <1>b DEF Unsaid
  <1>d. \A q \in Person : Told(q)' = Told(q)
        BY <1>c, UnsaidKeeps
  <1>e. visit \in [Person -> Visit]
        BY <1>a DEF TypeOK
  <1>1. VisitsTold'
    <2>1. CASE VisitReads(p) \/ VisitMakes(p) \/ VisitFails(p)
      <3>1. /\ visit'[p].at # "make"
            /\ \A q \in Person \ {p} : visit'[q] = visit[q]
            BY <2>1, <1>e DEF VisitReads, VisitMakes, VisitFails, NoVisit
      <3> QED BY <3>1, <1>d DEF VisitsTold
    <2>2. CASE VisitAsks(p)
      <3>1. /\ visit'[p].mail = Newest(p)
            /\ \A q \in Person \ {p} : visit'[q] = visit[q]
            BY <2>2, <1>e DEF VisitAsks
      <3>2. Newest(p) \in Told(p)
        <4>1. log[p] # <<>> /\ Newest(p) # NoMail
              BY <2>2 DEF VisitAsks, SignedUp
        <4>2. Len(log[p]) \in Nat /\ Len(log[p]) > 0
              BY <4>1, <1>a, LastOf
        <4> QED BY <4>1, <4>2 DEF Told, Newest
      <3> QED BY <3>1, <3>2, <1>d DEF VisitsTold
    <2> QED BY <2>1, <2>2
  <1>2. RegisterStep
    <2>1. CASE UNCHANGED row
          BY <2>1, <1>b, <1>c, UnsaidKeeps, CallsRest
            DEF RegisterStep, Reg!register, Reg!accounts, Reg!seating
    <2>2. CASE VisitMakes(p) /\ row' # row
      <3>1. /\ row[p].is = "none" /\ Free(p, visit[p].mail)
            /\ row' = [row EXCEPT ![p] = [is |-> "live", mail |-> visit[p].mail]]
            BY <2>2 DEF VisitMakes
      <3>2. visit[p].mail \in Told(p)
            BY <2>2 DEF VisitMakes, VisitsTold
      <3> QED BY <3>1, <3>2, <1>a, <1>b, <1>c, HoldIsRegister
    <2> QED BY <2>1, <2>2 DEF VisitReads, VisitAsks, VisitFails
  <1> QED BY <1>1, <1>2

\* A request that is over, or goes on, was found as before.
LEMMA CallForgets ==
    ASSUME TypeOK, NEW c \in Caller, call' = [call EXCEPT ![c] = Idle]
    PROVE  Found' \subseteq Found /\ Fits' \subseteq Fits
  <1>1. \A d \in Caller : call'[d] = IF d = c THEN Idle ELSE call[d]
        BY DEF TypeOK
  <1> QED BY <1>1 DEF Found, Fits, Idle

\* What a request looks at before it writes.
LEMMA LooksAreRegister ==
    ASSUME IInv, NEW c \in Caller,
           \/ \E a \in Address : InviteRead(c, a)
           \/ \E p \in Person, s \in Seat : AcceptRead(c, p, s)
           \/ AcceptCheck(c) \/ CallFails(c)
    PROVE  RegisterStep
  <1> USE NoneAssumption
  <1>a. TypeOK /\ RowsOK /\ CallsOK
        BY DEF IInv
  <1>b. UNCHANGED <<log, row, holder, seatMail, accepted>>
        BY DEF InviteRead, AcceptRead, AcceptCheck, CallFails, provider
  <1>c. Unsaid
        BY <1>b DEF Unsaid
  <1>d. /\ [p \in Person |-> Told(p)]' = [p \in Person |-> Told(p)]
        /\ Gone' = Gone
        BY <1>c, UnsaidKeeps
  <1>1. ASSUME NEW a \in Address, InviteRead(c, a) PROVE RegisterStep
    <2>1. PICK p \in IF AccountsWith(a) = {} THEN {NoOne} ELSE AccountsWith(a) :
              Begin(c, [at |-> "create", who |-> p, mail |-> a, seat |-> NoSeat])
          BY <1>1 DEF InviteRead
    <2>2. /\ call[c].at = "idle"
          /\ call'[c].at = "create" /\ call'[c].who = p /\ call'[c].mail = a
          /\ \A d \in Caller \ {c} : call'[d] = call[d]
          BY <2>1, <1>a DEF Begin, TypeOK
    <2>3. Found' = Found \cup {<<p, a>>} /\ Fits' = Fits
          BY <2>2 DEF Found, Fits
    <2>4. /\ p \in Person \cup {NoOne}
          /\ IF p = NoOne THEN \A q \in Person : row[q].mail # a ELSE row[p].mail = a
          BY <2>1 DEF AccountsWith
    <2>5. Reg!Look(p, a)
          BY <2>3, <2>4, <1>b, <1>d DEF Reg!Look, Reg!accounts
    <2> QED BY <2>4, <2>5 DEF RegisterStep, Reg!Next
  <1>2. ASSUME NEW p \in Person, NEW s \in Seat, AcceptRead(c, p, s) PROVE RegisterStep
    <2> DEFINE a == row[p].mail
    <2>1. a \in Address
          BY <1>2, <1>a DEF AcceptRead, RowsOK, TypeOK, Row, Mails
    <2>2. /\ call[c].at = "idle"
          /\ call'[c].at = "check" /\ call'[c].who = p /\ call'[c].mail = a
          /\ \A d \in Caller \ {c} : call'[d] = call[d]
          BY <1>2, <1>a DEF AcceptRead, Begin, TypeOK
    <2>3. Found' = Found \cup {<<p, a>>} /\ Fits' = Fits
          BY <2>2 DEF Found, Fits
    <2>4. Reg!Look(p, a)
          BY <2>3, <1>b, <1>d DEF Reg!Look, Reg!accounts
    <2> QED BY <2>1, <2>4 DEF RegisterStep, Reg!Next
  <1>3. CASE AcceptCheck(c)
    <2> DEFINE p == call[c].who
               s == call[c].seat
    <2>1. p \in Person /\ s \in Seat
          BY <1>3, <1>a DEF AcceptCheck, CallsOK
    <2>2. call[c].at = "check" /\ seatMail[s] = call[c].mail /\ s \notin accepted
          BY <1>3 DEF AcceptCheck
    <2>3. <<p, seatMail[s]>> \in Found
          BY <2>2 DEF Found
    <2>4. /\ call'[c].at = "take" /\ call'[c].who = p /\ call'[c].seat = s
          /\ \A d \in Caller \ {c} : call'[d] = call[d]
          BY <1>3, <1>a DEF AcceptCheck, TypeOK, Held
    <2>5. Fits' = Fits \cup {<<p, s>>} /\ Found' \subseteq Found
          BY <2>2, <2>4 DEF Found, Fits
    <2>6. Reg!Fit(s, p)
          BY <2>2, <2>3, <2>5, <1>b, <1>d DEF Reg!Fit, Reg!accounts
    <2> QED BY <2>1, <2>6 DEF RegisterStep, Reg!Next
  <1>4. CASE CallFails(c)
    <2>1. Reg!Forget
          BY <1>4, <1>a, <1>b, <1>d, CallForgets DEF CallFails, Reg!Forget, Reg!Forgets, Reg!accounts
    <2> QED BY <2>1 DEF RegisterStep, Reg!Next
  <1> QED BY <1>1, <1>2, <1>3, <1>4

\* A seat is given out to an address, and to who had it when invite() looked.
LEMMA InvitesAreRegister ==
    ASSUME IInv, NEW c \in Caller, NEW s \in Seat, InviteCreate(c, s)
    PROVE  RegisterStep
  <1> USE NoneAssumption
  <1> DEFINE p == call[c].who
             a == call[c].mail
  <1>a. UNCHANGED <<log, row, accepted>> /\ Unsaid
        BY DEF InviteCreate, provider, Unsaid
  <1>1. p \in Person \cup {NoOne} /\ a \in Address
        BY DEF InviteCreate, IInv, TypeOK, CallsOK, Held, Mails
  <1>2. <<p, a>> \in Found
        BY DEF InviteCreate, Found
  <1>3. Found' \subseteq Found /\ Fits' \subseteq Fits
        BY CallForgets DEF InviteCreate, IInv
  <1>4. Reg!Offer(s, p, a)
        BY <1>2, <1>3, <1>a, UnsaidKeeps
           DEF InviteCreate, Given, Reg!Offer, Reg!Forgets, Reg!accounts
  <1> QED BY <1>1, <1>4 DEF RegisterStep, Reg!Next

\* A seat is taken by someone who had its address when accept() looked.
LEMMA AcceptsAreRegister ==
    ASSUME IInv, NEW c \in Caller, AcceptWrite(c)
    PROVE  RegisterStep
  <1> DEFINE p == call[c].who
             s == call[c].seat
  <1>a. UNCHANGED <<log, row, seatMail>> /\ Unsaid
        BY DEF AcceptWrite, provider, Unsaid
  <1>1. p \in Person /\ s \in Seat
        BY DEF AcceptWrite, IInv, CallsOK
  <1>2. <<p, s>> \in Fits
        BY DEF AcceptWrite, Fits
  <1>3. Found' \subseteq Found /\ Fits' \subseteq Fits
        BY CallForgets DEF AcceptWrite, IInv
  <1>4. Reg!Take(s, p)
        BY <1>2, <1>3, <1>a, UnsaidKeeps
           DEF AcceptWrite, Given, Reg!Take, Reg!Forgets, Reg!accounts
  <1> QED BY <1>1, <1>4 DEF RegisterStep, Reg!Next

LEMMA SeatsAreRegister ==
    ASSUME IInv, VisitsTold, NEW c \in Caller,
           \/ \E a \in Address : InviteRead(c, a)
           \/ \E s \in Seat : InviteCreate(c, s) \/ \E p \in Person : AcceptRead(c, p, s)
           \/ AcceptCheck(c) \/ AcceptWrite(c) \/ CallFails(c)
    PROVE  VisitsTold' /\ RegisterStep
  <1>1. UNCHANGED <<log, visit>>
        BY DEF InviteRead, InviteCreate, AcceptRead, AcceptCheck, AcceptWrite, CallFails, provider
  <1>2. Unsaid
        BY <1>1 DEF Unsaid
  <1>3. VisitsTold'
        BY <1>1, <1>2, UnsaidKeeps DEF VisitsTold
  <1> QED BY <1>3, LooksAreRegister, InvitesAreRegister, AcceptsAreRegister

LEMMA RegisterInit == Init => Reg!Init /\ VisitsTold
  <1> SUFFICES ASSUME Init PROVE Reg!Init /\ VisitsTold
      OBVIOUS
  <1>1. \A p \in Person : Told(p) = {}
    <2>1. Len(<<>>) = 0 /\ 1..0 = {}
          OBVIOUS
    <2>2. \A p \in Person : log[p] = <<>>
          BY DEF Init
    <2> QED BY <2>1, <2>2 DEF Told
  <1>2. [p \in Person |-> Told(p)] = [p \in Person |-> {}]
        BY <1>1
  <1>3. Gone = {} /\ Found = {} /\ Fits = {}
        BY DEF Init, Gone, Found, Fits, Idle
  <1>4. VisitsTold
        BY DEF Init, VisitsTold, NoVisit
  <1> QED BY <1>2, <1>3, <1>4 DEF Init, Reg!Init, NoRow

LEMMA RegisterNext ==
    ~Overlap /\ IInv /\ VisitsTold /\ [Next]_vars => VisitsTold' /\ [Reg!Next]_(Reg!register)
  <1> SUFFICES ASSUME ~Overlap, IInv, VisitsTold, [Next]_vars PROVE VisitsTold' /\ RegisterStep
      BY DEF RegisterStep
  <1>1. ASSUME NEW p \in Person, (\E a \in Address : SetAddress(p, a)) \/ Leave(p)
        PROVE  VisitsTold' /\ RegisterStep
        BY <1>1, TellsAreRegister
  <1>2. ASSUME NEW w \in inbox, NEW lost \in BOOLEAN,
               UpsertRead(w[1], w[2], lost) \/ SoftDelete(w[1], w[2], lost)
        PROVE  VisitsTold' /\ RegisterStep
    <2>1. w[1] \in Person
          BY DEF IInv, TypeOK, Webhook
    <2> QED BY <1>2, <2>1, WebhooksAreRegister
  <1>3. ASSUME NEW p \in Person, NEW lost \in BOOLEAN,
               UpsertWrite(p) \/ UpsertSeats(p, lost) \/ HookFails(p)
        PROVE  VisitsTold' /\ RegisterStep
        BY <1>3, WebhooksAreRegister
  <1>4. ASSUME NEW p \in Person,
               VisitReads(p) \/ VisitAsks(p) \/ VisitMakes(p) \/ VisitFails(p)
        PROVE  VisitsTold' /\ RegisterStep
        BY <1>4, VisitsAreRegister
  <1>5. ASSUME NEW c \in Caller,
               \/ \E a \in Address : InviteRead(c, a)
               \/ \E s \in Seat : InviteCreate(c, s) \/ \E p \in Person : AcceptRead(c, p, s)
               \/ AcceptCheck(c) \/ AcceptWrite(c) \/ CallFails(c)
        PROVE  VisitsTold' /\ RegisterStep
        BY <1>5, SeatsAreRegister
  <1>6. CASE UNCHANGED vars
    <2>1. UNCHANGED <<log, row, holder, seatMail, accepted, call, visit>>
          BY <1>6 DEF vars, provider, seats
    <2>2. Unsaid
          BY <2>1 DEF Unsaid
    <2>3. VisitsTold'
          BY <2>1, <2>2, UnsaidKeeps DEF VisitsTold
    <2> QED BY <2>1, <2>2, <2>3, UnsaidKeeps, CallsRest
            DEF RegisterStep, Reg!register, Reg!accounts, Reg!seating
  <1> QED BY <1>1, <1>2, <1>3, <1>4, <1>5, <1>6 DEF Next

\* Whatever is lost, repeated, reordered or failing half way, accounts are
\* opened, move and close as Register says, and a seat goes to who had its
\* address when the request looked; if no deletion comes in between the
\* statements of upsert().
THEOREM RegisterIsImplemented == ASSUME ~Overlap PROVE Spec => ImplementsRegister
  <1>1. Init => IInv /\ Reg!Init /\ VisitsTold
        BY InitIInv, RegisterInit
  <1>2. IInv /\ VisitsTold /\ [Next]_vars => IInv' /\ VisitsTold' /\ [Reg!Next]_(Reg!register)
        BY StepIInv, RegisterNext
  <1> QED BY <1>1, <1>2, PTL DEF Spec, ImplementsRegister, Reg!Spec
=============================================================================
