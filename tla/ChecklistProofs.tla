-------------------------- MODULE ChecklistProofs --------------------------
(***************************************************************************)
(* Proofs about Checklist for any number of rows, events, people and       *)
(* requests in hand, cut off anywhere.                                     *)
(*                                                                         *)
(* The first part holds however requests overlap.  A request on Home acts  *)
(* on the row it read before its transaction; the invariant Ties says what *)
(* that copy is still good for: the event row it names is the one it       *)
(* named, or gone, and nobody else's.                                      *)
(*                                                                         *)
(* The second part is about requests that do not overlap: what a request   *)
(* has checked is still so (Sure), and where the rows disagree in between, *)
(* the request that is about to make them agree is in hand (Tidy).         *)
(*                                                                         *)
(* The third part shows, on Ties alone, that Checklist implements HomeTies *)
(* whatever overlaps: every step is one of HomeTies', or none.             *)
(***************************************************************************)
EXTENDS Checklist, TLAPS

AtItem == {"patch", "bare", "cover", "sync", "dropHome", "dropItem"}
AtHome == {"homeWrite", "homeDelete"}

HeldOK(k) ==
    /\ k.at = "idle" => k = Idle
    /\ k.at = "import" => k.ev \in Event
    /\ k.at \in AtItem => k.item \in Item
    /\ k.at \in AtHome => k.by \in Person /\ k.row.there
    /\ k.at \notin AtHome => k.row = NoHome

LinkedIsThere == \A p \in Person : home[p].link # NoItem => home[p].there

\* The row a request has read: its event row is of the event it says, or gone,
\* and no Home row of others is tied to it.
Tie(k) ==
    k.row.link # NoItem =>
        /\ k.row.ev \in Event
        /\ There(k.row.link) => item[k.row.link].ev = k.row.ev
        /\ \A q \in Person \ {k.by} : home[q].link # k.row.link

TiesApart ==
    \A c, d \in Caller :
        call[c].row.link # NoItem /\ call[c].row.link = call[d].row.link
            => call[c].by = call[d].by

Ties ==
    /\ TypeOK
    /\ LinkedIsThere
    /\ LinkAgrees
    /\ \A c \in Caller : HeldOK(call[c]) /\ Tie(call[c])
    /\ TiesApart

\* What a request that nothing overlaps has checked still holds.
Sure(k) ==
    /\ k.at \in AtHome => k.row = home[k.by]
    /\ k.at = "patch" => MayHold(k.item, k.who, k.hides, k.hidden)
    /\ k.at \in {"bare", "cover", "sync"} =>
           There(k.item) /\ (k.text # NoText => item[k.item].text = k.text)
    /\ k.at \in {"bare", "cover"} => item[k.item].who \notin k.hidden
    /\ k.at = "cover" => item[k.item].hidden = {}
    /\ k.at = "sync" => k.text # NoText

Alone == \A c, d \in Caller : call[c].at # "idle" /\ call[d].at # "idle" => c = d

\* Some request is on its way at one of these stages to row i.
Coming(at, i) == \E c \in Caller : call[c].at \in at /\ call[c].item = i

TextsAgree ==
    \A p \in Person :
        home[p].link # NoItem /\ ~home[p].apart =>
            \/ home[p].text = item[home[p].link].text
            \/ \E c \in Caller : /\ call[c].at \in {"bare", "cover", "sync"}
                                 /\ call[c].item = home[p].link
                                 /\ call[c].text # NoText

HolderSees == \A i \in Item : item[i].who \notin item[i].hidden \/ Coming({"bare"}, i)

MadeForOne ==
    \A i \in Item :
        There(i) /\ made[i] # NoOne => home[made[i]].link = i \/ Coming({"dropItem"}, i)

Tidy ==
    orderly => /\ Alone
               /\ \A c \in Caller : Sure(call[c])
               /\ TextsAgree
               /\ HolderSees
               /\ MadeForOne

IInv == Ties /\ Tidy


---------------------------------------------------------------------------
(* What Begin and Goes do *)

LEMMA IdleHeld ==
    /\ Idle \in Held /\ HeldOK(Idle) /\ Idle.at = "idle" /\ Idle.row = NoHome
    /\ NoHome.link = NoItem /\ NoHome.there = FALSE /\ NoHome \in HomeRow
BY DEF Idle, NoHome, Held, HomeRow, Stages, HeldOK, AtItem, AtHome

LEMMA BeginFacts ==
    ASSUME TypeOK, NEW c \in Caller, NEW held \in Held, Begin(c, held)
    PROVE  /\ call' \in [Caller -> Held] /\ orderly' \in BOOLEAN /\ calls' \in 0..MaxCalls
           /\ call[c].at = "idle" /\ call'[c] = held
           /\ \A d \in Caller \ {c} : call'[d] = call[d]
           /\ orderly' => orderly /\ \A d \in Caller : call[d].at = "idle"
<1>1. calls' \in 0..MaxCalls
  BY BoundAssumption DEF TypeOK, Begin
<1>2. orderly' \in BOOLEAN /\ (orderly' => orderly /\ \A d \in Caller : call[d].at = "idle")
  BY DEF TypeOK, Begin
<1>3. call' = [call EXCEPT ![c] = held]
  BY DEF Begin
<1>4. call' \in [Caller -> Held] /\ call'[c] = held /\ \A d \in Caller \ {c} : call'[d] = call[d]
  BY <1>3 DEF TypeOK
<1> QED BY <1>1, <1>2, <1>4 DEF Begin

LEMMA GoesFacts ==
    ASSUME TypeOK, NEW c \in Caller, NEW at \in Stages, Goes(c, at)
    PROVE  /\ call' \in [Caller -> Held] /\ UNCHANGED <<orderly, calls>>
           /\ \A d \in Caller \ {c} : call'[d] = call[d]
           /\ at = "idle" => call'[c] = Idle
           /\ at # "idle" => /\ call'[c].at = at
                             /\ call'[c].by = call[c].by
                             /\ call'[c].item = call[c].item
                             /\ call'[c].text = call[c].text
                             /\ call'[c].ev = call[c].ev
                             /\ call'[c].who = call[c].who
                             /\ call'[c].hides = call[c].hides
                             /\ call'[c].hidden = call[c].hidden
                             /\ call'[c].row = call[c].row
<1> DEFINE k == IF at = "idle" THEN Idle ELSE [call[c] EXCEPT !.at = at]
<1>1. call[c] \in Held
  BY DEF TypeOK
<1>2. k \in Held /\ (at # "idle" => /\ k.at = at
                                    /\ k.by = call[c].by
                                    /\ k.item = call[c].item
                                    /\ k.text = call[c].text
                                    /\ k.ev = call[c].ev
                                    /\ k.who = call[c].who
                                    /\ k.hides = call[c].hides
                                    /\ k.hidden = call[c].hidden
                                    /\ k.row = call[c].row)
  BY <1>1, IdleHeld DEF Held
<1>3. call' = [call EXCEPT ![c] = k]
  BY DEF Goes
<1> HIDE DEF k
<1>4. call' \in [Caller -> Held] /\ call'[c] = k /\ \A d \in Caller \ {c} : call'[d] = call[d]
  BY <1>2, <1>3 DEF TypeOK
<1> QED BY <1>2, <1>4 DEF Goes, k

\* A new request: every field is idle but those it brings.
LEMMA NewHeld ==
    ASSUME NEW at \in Stages, NEW by \in Person, NEW i \in Item \cup {NoItem},
           NEW t \in Text \cup {NoText}, NEW e \in Event \cup {NoEvent, Keep},
           NEW w \in Person \cup {NoOne, Keep}, NEW hides \in BOOLEAN, NEW hidden \in SUBSET Member,
           NEW seen \in SUBSET (Text \cup {NoText}), NEW row \in HomeRow
    PROVE  [at |-> at, by |-> by, item |-> i, text |-> t, ev |-> e, who |-> w, hides |-> hides,
            hidden |-> hidden, seen |-> seen, row |-> row] \in Held
BY DEF Held

---------------------------------------------------------------------------
(* Ties, however requests overlap *)

\* Nobody is tied to an id that is free.
LEMMA FreshIsFree ==
    ASSUME Ties, NEW i \in Fresh
    PROVE  /\ i \in Item /\ ~There(i)
           /\ \A p \in Person : home[p].link # i
           /\ \A c \in Caller : call[c].row.link # i /\ call[c].item # i
<1>1. i \in Item /\ i # NoItem /\ ~There(i)
  BY NoneAssumption DEF Fresh
<1>2. \A p \in Person : home[p].link # i
  BY <1>1 DEF Ties, LinkedIsThere, LinkAgrees
<1> QED BY <1>1, <1>2 DEF Fresh

\* Requests hold what they held of their Home rows, or nothing any more.
RowsKept ==
    \A d \in Caller : /\ HeldOK(call'[d])
                      /\ \/ call'[d].row = NoHome
                         \/ call'[d].row = call[d].row /\ call'[d].by = call[d].by

\* A step that ties nothing: links stay or go, and so do the rows they lead to.
LEMMA TiesStay ==
    ASSUME Ties, TypeOK',
           RowsKept,
           \A i \in Item : item'[i].ev \in {item[i].ev, NoEvent} \/ i \in Fresh,
           \A p \in Person : \/ home'[p].link = NoItem
                             \/ /\ home'[p].link = home[p].link
                                /\ home'[p].ev = home[p].ev
                                /\ home'[p].there = home[p].there
                                /\ item'[home[p].link].ev = item[home[p].link].ev
    PROVE  Ties'
<1>1. LinkedIsThere'
  BY DEF Ties, LinkedIsThere
<1>2. LinkAgrees'
  BY DEF Ties, LinkedIsThere, LinkAgrees, There
<1>3. ASSUME NEW d \in Caller PROVE Tie(call[d])'
  <2>1. CASE call'[d].row = NoHome
    BY <2>1, IdleHeld DEF Tie
  <2>2. CASE call'[d].row = call[d].row /\ call'[d].by = call[d].by
    <3>1. Tie(call[d]) /\ (call[d].row.link # NoItem => call[d].row.link \in Item \ Fresh)
      <4>1. call[d].row.link \in Item \cup {NoItem}
        BY DEF Ties, TypeOK, Held, HomeRow
      <4> QED BY <4>1 DEF Ties, Fresh
    <3>2. SUFFICES ASSUME call[d].row.link # NoItem
                   PROVE  /\ call[d].row.ev \in Event
                          /\ item'[call[d].row.link].ev # NoEvent =>
                                 item'[call[d].row.link].ev = call[d].row.ev
                          /\ \A q \in Person \ {call[d].by} : home'[q].link # call[d].row.link
      BY <2>2 DEF Tie, There
    <3>3. item'[call[d].row.link].ev \in {item[call[d].row.link].ev, NoEvent}
      BY <3>1, <3>2
    <3>4. \A q \in Person \ {call[d].by} : home'[q].link # call[d].row.link
      BY <3>1, <3>2 DEF Tie
    <3> QED BY <3>1, <3>2, <3>3, <3>4 DEF Tie, There
  <2> QED BY <2>1, <2>2 DEF RowsKept
<1>4. TiesApart'
  <2> SUFFICES ASSUME NEW c \in Caller, NEW d \in Caller,
                      call'[c].row.link # NoItem, call'[c].row.link = call'[d].row.link
               PROVE  call'[c].by = call'[d].by
    BY DEF TiesApart
  <2>1. /\ call'[c].row = call[c].row /\ call'[c].by = call[c].by
        /\ call'[d].row = call[d].row /\ call'[d].by = call[d].by
    BY IdleHeld DEF RowsKept
  <2> QED BY <2>1 DEF Ties, TiesApart
<1> QED BY <1>1, <1>2, <1>3, <1>4 DEF RowsKept, Ties


\* A Home row is tied to a new event row.
LEMMA TiesNew ==
    ASSUME Ties, TypeOK', NEW p \in Person, NEW i \in Fresh, NEW e \in Event,
           RowsKept,
           home'[p].there, home'[p].link = i, home'[p].ev = e, item'[i].ev = e,
           \A q \in Person \ {p} : home'[q] = home[q],
           \A j \in Item \ {i} : \/ item'[j].ev = item[j].ev
                                 \/ /\ item'[j].ev = NoEvent
                                    /\ \A q \in Person \ {p} : home[q].link # j
    PROVE  Ties'
<1>1. /\ i \in Item /\ i # NoItem /\ e # NoEvent
      /\ \A q \in Person : home[q].link # i
      /\ \A c \in Caller : call[c].row.link # i
  BY FreshIsFree, NoneAssumption
<1>2. LinkedIsThere'
  BY DEF Ties, LinkedIsThere
<1>3. LinkAgrees'
  <2> SUFFICES ASSUME NEW q \in Person, home'[q].there, home'[q].link # NoItem
               PROVE  /\ item'[home'[q].link].ev # NoEvent
                      /\ item'[home'[q].link].ev = home'[q].ev
                      /\ \A z \in Person \ {q} : home'[z].link # home'[q].link
    BY DEF LinkAgrees, There
  <2>1. CASE q = p
    BY <2>1, <1>1
  <2>2. CASE q # p
    <3>1. /\ There(home[q].link) /\ item[home[q].link].ev = home[q].ev
          /\ \A z \in Person \ {q} : home[z].link # home[q].link
      BY <2>2 DEF Ties, LinkAgrees
    <3>2. home[q].link \in Item \ {i}
      BY <1>1, <2>2 DEF Ties, TypeOK, HomeRow
    <3>3. item'[home[q].link].ev = item[home[q].link].ev
      BY <3>2, <2>2
    <3> QED BY <3>1, <3>2, <3>3, <2>2 DEF There
  <2> QED BY <2>1, <2>2
<1>4. ASSUME NEW d \in Caller PROVE Tie(call[d])'
  <2>1. CASE call'[d].row = NoHome
    BY <2>1, IdleHeld DEF Tie
  <2>2. CASE call'[d].row = call[d].row /\ call'[d].by = call[d].by
    <3> DEFINE l == call[d].row.link
    <3>1. SUFFICES ASSUME l # NoItem
                   PROVE  /\ call[d].row.ev \in Event
                          /\ item'[l].ev # NoEvent => item'[l].ev = call[d].row.ev
                          /\ \A q \in Person \ {call[d].by} : home'[q].link # l
      BY <2>2 DEF Tie, There
    <3>2. l \in Item \ {i}
      BY <1>1, <3>1 DEF Ties, TypeOK, Held, HomeRow
    <3>3. /\ call[d].row.ev \in Event
          /\ item[l].ev # NoEvent => item[l].ev = call[d].row.ev
          /\ \A q \in Person \ {call[d].by} : home[q].link # l
      BY <3>1 DEF Ties, Tie, There
    <3>4. item'[l].ev \in {item[l].ev, NoEvent}
      BY <3>2
    <3> QED BY <3>2, <3>3, <3>4
  <2> QED BY <2>1, <2>2 DEF RowsKept
<1>5. TiesApart'
  <2> SUFFICES ASSUME NEW c \in Caller, NEW d \in Caller,
                      call'[c].row.link # NoItem, call'[c].row.link = call'[d].row.link
               PROVE  call'[c].by = call'[d].by
    BY DEF TiesApart
  <2>1. /\ call'[c].row = call[c].row /\ call'[c].by = call[c].by
        /\ call'[d].row = call[d].row /\ call'[d].by = call[d].by
    BY IdleHeld DEF RowsKept
  <2> QED BY <2>1 DEF Ties, TiesApart
<1> QED BY <1>2, <1>3, <1>4, <1>5 DEF RowsKept, Ties

\* A request reads its Home row.
LEMMA TiesRead ==
    ASSUME Ties, TypeOK', NEW c \in Caller, NEW p \in Person, home[p].there,
           UNCHANGED <<item, home>>, HeldOK(call'[c]),
           call'[c].row = home[p], call'[c].by = p,
           \A d \in Caller \ {c} : call'[d] = call[d]
    PROVE  Ties'
<1>1. LinkedIsThere' /\ LinkAgrees'
  BY DEF Ties, LinkedIsThere, LinkAgrees, There
<1>2. home[p].link # NoItem =>
          /\ home[p].ev \in Event /\ item[home[p].link].ev = home[p].ev
          /\ \A q \in Person \ {p} : home[q].link # home[p].link
  BY DEF Ties, LinkAgrees, TypeOK, HomeRow, There
<1>3. Tie(call[c])'
  BY <1>2 DEF Tie, There
<1>4. ASSUME NEW d \in Caller \ {c} PROVE HeldOK(call[d])' /\ Tie(call[d])'
  BY DEF Ties, Tie, There, HeldOK
<1>5. TiesApart'
  <2> SUFFICES ASSUME NEW a \in Caller, NEW b \in Caller,
                      call'[a].row.link # NoItem, call'[a].row.link = call'[b].row.link
               PROVE  call'[a].by = call'[b].by
    BY DEF TiesApart
  <2>1. ASSUME NEW d \in Caller \ {c}, call[d].row.link # NoItem, call[d].row.link = home[p].link
        PROVE  call[d].by = p
    BY <2>1 DEF Ties, Tie
  <2>2. CASE a = c \/ b = c
    BY <2>1, <2>2
  <2>3. CASE a # c /\ b # c
    BY <2>3 DEF Ties, TiesApart
  <2> QED BY <2>2, <2>3
<1> QED BY <1>1, <1>3, <1>4, <1>5 DEF Ties


\* Requests as Begin and Goes leave them.
LEMMA BeginHeld ==
    ASSUME Ties, NEW c \in Caller, NEW held \in Held, Begin(c, held), HeldOK(held),
           held.row = NoHome
    PROVE  RowsKept
BY BeginFacts DEF RowsKept, Ties

LEMMA GoesHeld ==
    ASSUME Ties, NEW c \in Caller, NEW at \in {"idle"} \cup AtItem, Goes(c, at),
           at = "idle" \/ call[c].at \in AtItem
    PROVE  RowsKept
<1>1. at \in Stages /\ (at # "idle" => at \in AtItem)
  BY DEF Stages, AtItem
<1>2. \A d \in Caller \ {c} : call'[d] = call[d]
  BY <1>1, GoesFacts DEF Ties
<1>3. CASE at = "idle"
  BY <1>1, <1>2, <1>3, GoesFacts, IdleHeld DEF RowsKept, Ties
<1>4. CASE at # "idle"
  <2>1. call'[c].at = at /\ call'[c].item = call[c].item /\ call'[c].row = call[c].row
        /\ call'[c].by = call[c].by
    BY <1>1, <1>4, GoesFacts DEF Ties
  <2>2. HeldOK(call[c]) /\ call[c].at \in AtItem
    BY <1>4 DEF Ties
  <2>3. HeldOK(call'[c])
    BY <1>1, <1>4, <2>1, <2>2 DEF HeldOK, AtItem, AtHome
  <2> QED BY <1>2, <2>1, <2>3 DEF RowsKept, Ties
<1> QED BY <1>3, <1>4

LEMMA GoesTypes ==
    ASSUME Ties, NEW c \in Caller, NEW at \in {"idle"} \cup AtItem, Goes(c, at)
    PROVE  call' \in [Caller -> Held] /\ orderly' \in BOOLEAN /\ calls' \in 0..MaxCalls
BY GoesFacts DEF Ties, TypeOK, Stages, AtItem

\* A row is added that no Home row is tied to.
LEMMA TiesAdd ==
    ASSUME Ties, NEW i \in Fresh, NEW e \in Event, NEW t \in Text \cup {NoText},
           NEW w \in Person \cup {NoOne},
           item' = [item EXCEPT ![i] = NewRow(e, t, w)],
           made' = [made EXCEPT ![i] = NoOne],
           UNCHANGED home,
           call' \in [Caller -> Held], orderly' \in BOOLEAN, calls' \in 0..MaxCalls,
           RowsKept
    PROVE  Ties'
<1>1. NewRow(e, t, w) \in ItemRow /\ i \in Item
  BY FreshIsFree DEF NewRow, ItemRow
<1>2. TypeOK'
  BY <1>1 DEF Ties, TypeOK
<1>3. \A j \in Item : item'[j].ev \in {item[j].ev, NoEvent} \/ j \in Fresh
  BY DEF Ties, TypeOK
<1>4. \A p \in Person : home[p].link = NoItem \/ item'[home[p].link] = item[home[p].link]
  BY FreshIsFree DEF Ties, TypeOK
<1> QED BY <1>2, <1>3, <1>4, TiesStay

\* Rows change, but not the events they are of; Home rows stay.
LEMMA TiesPatch ==
    ASSUME Ties, TypeOK', UNCHANGED home,
           \A i \in Item : item'[i].ev = item[i].ev,
           RowsKept
    PROVE  Ties'
<1>1. \A p \in Person : home[p].link = NoItem \/ home[p].link \in Item
  BY DEF Ties, TypeOK, HomeRow
<1> QED BY <1>1, TiesStay


---------------------------------------------------------------------------
(* The actions keep Ties *)

LEMMA CutTies ==
    ASSUME Ties, NEW c \in Caller, Cut(c)
    PROVE  Ties'
<1>1. /\ call' \in [Caller -> Held] /\ call'[c] = Idle
      /\ \A d \in Caller \ {c} : call'[d] = call[d]
  BY IdleHeld DEF Ties, TypeOK, Cut
<1>2. TypeOK'
  BY <1>1 DEF Ties, TypeOK, Cut
<1> QED BY <1>1, <1>2, IdleHeld, TiesPatch DEF RowsKept, Ties, Cut

LEMMA AddItemTies ==
    ASSUME Ties, NEW c \in Caller, NEW p \in Person, NEW e \in Event, NEW t \in Text,
           NEW w \in Person \cup {NoOne}, AddItem(c, p, e, t, w)
    PROVE  Ties'
<1>1. Begin(c, Idle)
  BY DEF AddItem
<1>2. call' \in [Caller -> Held] /\ orderly' \in BOOLEAN /\ calls' \in 0..MaxCalls
  BY <1>1, BeginFacts, IdleHeld DEF Ties
<1>3. RowsKept
  BY <1>1, BeginHeld, IdleHeld
<1> QED BY <1>2, <1>3, TiesAdd DEF AddItem

LEMMA ImportReadTies ==
    ASSUME Ties, NEW c \in Caller, NEW p \in Person, NEW e \in Event, ImportRead(c, p, e)
    PROVE  Ties'
<1> DEFINE h == [Idle EXCEPT !.at = "import", !.by = p, !.ev = e, !.seen = TitlesFor(p, e)]
<1>1. TitlesFor(p, e) \in SUBSET (Text \cup {NoText})
  BY DEF TitlesFor, Ties, TypeOK, ItemRow
<1>2. h \in Held /\ HeldOK(h) /\ h.row = NoHome
  BY <1>1, IdleHeld DEF Idle, Held, HeldOK, Stages, AtItem, AtHome
<1> HIDE DEF h
<1>3. Begin(c, h)
  BY DEF ImportRead, h
<1>4. call' \in [Caller -> Held] /\ orderly' \in BOOLEAN /\ calls' \in 0..MaxCalls
  BY <1>2, <1>3, BeginFacts DEF Ties
<1>5. RowsKept
  BY <1>2, <1>3, BeginHeld
<1> QED BY <1>4, <1>5, TiesPatch DEF ImportRead, Ties, TypeOK

LEMMA ImportCreateTies ==
    ASSUME Ties, NEW c \in Caller, ImportCreate(c)
    PROVE  Ties'
<1>1. Goes(c, "idle") /\ call[c].at = "import"
  BY DEF ImportCreate
<1>2. call' \in [Caller -> Held] /\ orderly' \in BOOLEAN /\ calls' \in 0..MaxCalls
  BY <1>1, GoesTypes
<1>3. RowsKept
  BY <1>1, GoesHeld
<1>4. call[c].ev \in Event
  BY <1>1 DEF Ties, HeldOK
<1>5. CASE UNCHANGED <<item, made>>
  BY <1>2, <1>3, <1>5, TiesPatch DEF ImportCreate, Ties, TypeOK
<1>6. ASSUME NEW i \in Fresh, NEW t \in Text,
             item' = [item EXCEPT ![i] = NewRow(call[c].ev, t, NoOne)],
             made' = [made EXCEPT ![i] = NoOne]
      PROVE  Ties'
  BY <1>2, <1>3, <1>4, <1>6, TiesAdd DEF ImportCreate
<1> QED BY <1>5, <1>6 DEF ImportCreate

LEMMA CheckTies ==
    ASSUME Ties, NEW c \in Caller, NEW p \in Person, NEW i \in Item,
           NEW t \in Text \cup {NoText}, NEW w \in Person \cup {NoOne, Keep},
           NEW hides \in BOOLEAN, NEW hidden \in SUBSET Member,
           PatchCheck(c, p, i, t, w, hides, hidden) \/ DeleteCheck(c, p, i)
    PROVE  Ties'
<1>1. ASSUME NEW h \in Held, HeldOK(h), h.row = NoHome, Begin(c, h), UNCHANGED <<item, home, made>>
      PROVE  Ties'
  <2>1. call' \in [Caller -> Held] /\ orderly' \in BOOLEAN /\ calls' \in 0..MaxCalls
    BY <1>1, BeginFacts DEF Ties
  <2>2. RowsKept
    BY <1>1, BeginHeld
  <2> QED BY <1>1, <2>1, <2>2, TiesPatch DEF Ties, TypeOK
<1>2. CASE PatchCheck(c, p, i, t, w, hides, hidden)
  <2> DEFINE h == [Idle EXCEPT !.at = "patch", !.by = p, !.item = i, !.text = t, !.who = w,
                               !.hides = hides, !.hidden = hidden]
  <2>1. h \in Held /\ HeldOK(h) /\ h.row = NoHome
    BY IdleHeld DEF Idle, Held, HeldOK, Stages, AtItem, AtHome
  <2>2. Begin(c, h) /\ UNCHANGED <<item, home, made>>
    BY <1>2 DEF PatchCheck
  <2> QED BY <1>1, <2>1, <2>2
<1>3. CASE DeleteCheck(c, p, i)
  <2> DEFINE h == [Idle EXCEPT !.at = "dropHome", !.by = p, !.item = i]
  <2>1. h \in Held /\ HeldOK(h) /\ h.row = NoHome
    BY IdleHeld DEF Idle, Held, HeldOK, Stages, AtItem, AtHome
  <2>2. Begin(c, h) /\ UNCHANGED <<item, home, made>>
    BY <1>3 DEF DeleteCheck
  <2> QED BY <1>1, <2>1, <2>2
<1> QED BY <1>2, <1>3

LEMMA HomeReadTies ==
    ASSUME Ties, NEW c \in Caller, NEW p \in Person, NEW e \in Event \cup {NoEvent, Keep},
           NEW t \in Text \cup {NoText}, HomeRead(c, p, e, t) \/ HomeDeleteRead(c, p)
    PROVE  Ties'
<1>0. home[p] \in HomeRow
  BY DEF Ties, TypeOK
<1>1. ASSUME NEW h \in Held, HeldOK(h), h.row = home[p], h.by = p, home[p].there, Begin(c, h),
             UNCHANGED <<item, home, made>>
      PROVE  Ties'
  <2>1. /\ call' \in [Caller -> Held] /\ orderly' \in BOOLEAN /\ calls' \in 0..MaxCalls
        /\ call'[c] = h /\ \A d \in Caller \ {c} : call'[d] = call[d]
    BY <1>1, BeginFacts DEF Ties
  <2>2. TypeOK'
    BY <1>1, <2>1 DEF Ties, TypeOK
  <2> QED BY <1>1, <2>1, <2>2, TiesRead
<1>2. CASE HomeRead(c, p, e, t)
  <2> DEFINE h == [Idle EXCEPT !.at = "homeWrite", !.by = p, !.ev = e, !.text = t, !.row = home[p]]
  <2>1. home[p].there /\ Begin(c, h) /\ UNCHANGED <<item, home, made>>
    BY <1>2 DEF HomeRead
  <2>2. h \in Held /\ HeldOK(h) /\ h.row = home[p] /\ h.by = p
    BY <1>0, <2>1, IdleHeld DEF Idle, Held, HeldOK, Stages, AtItem, AtHome
  <2> QED BY <1>1, <2>1, <2>2
<1>3. CASE HomeDeleteRead(c, p)
  <2> DEFINE h == [Idle EXCEPT !.at = "homeDelete", !.by = p, !.row = home[p]]
  <2>1. home[p].there /\ Begin(c, h) /\ UNCHANGED <<item, home, made>>
    BY <1>3 DEF HomeDeleteRead
  <2>2. h \in Held /\ HeldOK(h) /\ h.row = home[p] /\ h.by = p
    BY <1>0, <2>1, IdleHeld DEF Idle, Held, HeldOK, Stages, AtItem, AtHome
  <2> QED BY <1>1, <2>1, <2>2
<1> QED BY <1>2, <1>3

\* Changing a row, and hiding it, leaves it with its event.
LEMMA PatchKeepsEvents ==
    ASSUME Ties, NEW c \in Caller, PatchItem(c) \/ Uncover(c) \/ Cover(c)
    PROVE  item' \in [Item -> ItemRow] /\ \A i \in Item : item'[i].ev = item[i].ev
<1>1. call[c] \in Held /\ HeldOK(call[c])
  BY DEF Ties, TypeOK
<1>2. call[c].item \in Item
  BY <1>1 DEF PatchItem, Uncover, Cover, HeldOK, AtItem
<1>3. CASE UNCHANGED item
  BY <1>3 DEF Ties, TypeOK
<1> DEFINE i == call[c].item
           t == IF call[c].text = NoText THEN item[i].text ELSE call[c].text
           w == IF call[c].who = Keep THEN item[i].who ELSE call[c].who
<1>4. item[i] \in ItemRow /\ t \in Text \cup {NoText} /\ w \in Person \cup {NoOne}
  BY <1>1, <1>2 DEF Ties, TypeOK, ItemRow, Held
<1>5. CASE PatchItem(c) /\ There(i)
  <2>1. item' = [item EXCEPT ![i] = [@ EXCEPT !.text = t, !.who = w]]
    BY <1>2, <1>5 DEF PatchItem, Ties, TypeOK
  <2>2. [item[i] EXCEPT !.text = t, !.who = w] \in ItemRow
    BY <1>4 DEF ItemRow
  <2>3. [item[i] EXCEPT !.text = t, !.who = w].ev = item[i].ev
    BY <1>4 DEF ItemRow
  <2> QED BY <1>2, <2>1, <2>2, <2>3 DEF Ties, TypeOK
<1>6. CASE Uncover(c)
  BY <1>2, <1>4, <1>6 DEF Uncover, Ties, TypeOK, ItemRow
<1>7. CASE Cover(c) /\ ~UNCHANGED item
  BY <1>1, <1>2, <1>4, <1>7 DEF Cover, Ties, TypeOK, ItemRow, Held
<1> QED BY <1>3, <1>5, <1>6, <1>7 DEF PatchItem

LEMMA PatchTies ==
    ASSUME Ties, NEW c \in Caller, PatchItem(c) \/ Uncover(c) \/ Cover(c)
    PROVE  Ties'
<1>1. call[c] \in Held /\ HeldOK(call[c]) /\ AfterPatch(c) \in {"idle", "sync"}
  BY DEF Ties, TypeOK, AfterPatch
<1>2. call[c].at \in AtItem
  BY <1>1 DEF PatchItem, Uncover, Cover, HeldOK, AtItem
<1>3. PICK at \in {"idle"} \cup AtItem : Goes(c, at)
  BY <1>1 DEF PatchItem, Uncover, Cover, AtItem
<1>4. call' \in [Caller -> Held] /\ orderly' \in BOOLEAN /\ calls' \in 0..MaxCalls
  BY <1>3, GoesTypes
<1>5. RowsKept
  BY <1>2, <1>3, GoesHeld
<1>6. item' \in [Item -> ItemRow] /\ \A i \in Item : item'[i].ev = item[i].ev
  BY PatchKeepsEvents
<1> QED BY <1>4, <1>5, <1>6, TiesPatch DEF PatchItem, Uncover, Cover, Ties, TypeOK

\* Home rows that follow an event row stay tied to it.
LEMMA SyncKeepsEnds ==
    ASSUME Ties, NEW c \in Caller, Sync(c), NEW p \in Person
    PROVE  /\ home'[p] \in HomeRow /\ home'[p].link = home[p].link
           /\ home'[p].ev = home[p].ev /\ home'[p].there = home[p].there
<1>1. home[p] \in HomeRow /\ call[c] \in Held
  BY DEF Ties, TypeOK
<1>2. \/ home'[p] = home[p]
      \/ home'[p] = [home[p] EXCEPT !.text = call[c].text, !.apart = FALSE]
  BY DEF Sync
<1> QED BY <1>1, <1>2 DEF HomeRow, Held

LEMMA SyncTies ==
    ASSUME Ties, NEW c \in Caller, Sync(c)
    PROVE  Ties'
<1>1. Goes(c, "idle") /\ call[c].at \in AtItem
  BY DEF Sync, AtItem
<1>2. call' \in [Caller -> Held] /\ orderly' \in BOOLEAN /\ calls' \in 0..MaxCalls
  BY <1>1, GoesTypes
<1>3. RowsKept
  BY <1>1, GoesHeld
<1>4. home' \in [Person -> HomeRow]
  BY SyncKeepsEnds DEF Sync
<1>5. TypeOK'
  BY <1>2, <1>4 DEF Sync, Ties, TypeOK
<1> QED BY <1>3, <1>5, SyncKeepsEnds, TiesStay DEF Sync


LEMMA DropTies ==
    ASSUME Ties, NEW c \in Caller, DropHome(c) \/ DropItem(c)
    PROVE  Ties'
<1>1. call[c].at \in AtItem /\ call[c].item \in Item
  BY DEF DropHome, DropItem, Ties, HeldOK, AtItem
<1>2. PICK at \in {"idle"} \cup AtItem : Goes(c, at)
  BY DEF DropHome, DropItem, AtItem
<1>3. call' \in [Caller -> Held] /\ orderly' \in BOOLEAN /\ calls' \in 0..MaxCalls
  BY <1>2, GoesTypes
<1>4. RowsKept
  BY <1>1, <1>2, GoesHeld
<1>5. CASE DropHome(c)
  <2>1. home' \in [Person -> HomeRow]
    BY <1>5, IdleHeld DEF DropHome, Ties, TypeOK
  <2>2. \A p \in Person : home'[p].link = NoItem \/ home'[p] = home[p]
    BY <1>5, IdleHeld DEF DropHome, Ties, TypeOK
  <2>3. TypeOK'
    BY <1>3, <1>5, <2>1 DEF DropHome, Ties, TypeOK
  <2> QED BY <1>4, <1>5, <2>2, <2>3, TiesStay DEF DropHome
<1>6. CASE DropItem(c)
  <2>1. NoRow \in ItemRow /\ NoRow.ev = NoEvent
    BY DEF NoRow, ItemRow
  <2>2. /\ item' \in [Item -> ItemRow]
        /\ \A i \in Item : item'[i].ev \in {item[i].ev, NoEvent}
        /\ \A i \in Item \ {call[c].item} : item'[i] = item[i]
    BY <1>1, <1>6, <2>1 DEF DropItem, Ties, TypeOK
  <2>3. ASSUME NEW p \in Person
        PROVE  /\ home'[p] \in HomeRow
               /\ \/ home'[p].link = NoItem
                  \/ home'[p] = home[p] /\ home[p].link # call[c].item
    <3>1. home[p] \in HomeRow
      BY DEF Ties, TypeOK
    <3>2. home'[p] = IF home[p].link = call[c].item THEN [home[p] EXCEPT !.link = NoItem]
                                                    ELSE home[p]
      BY <1>6 DEF DropItem, Unlinked
    <3> QED BY <3>1, <3>2 DEF HomeRow
  <2>4. TypeOK'
    BY <1>3, <1>6, <2>2, <2>3 DEF DropItem, Unlinked, Ties, TypeOK
  <2>5. \A p \in Person : home[p].link \in Item \cup {NoItem}
    BY DEF Ties, TypeOK, HomeRow
  <2> QED BY <1>4, <2>2, <2>3, <2>4, <2>5, TiesStay
<1> QED BY <1>5, <1>6

LEMMA TiedIs ==
    ASSUME NEW e \in Event \cup {NoEvent}, NEW i \in Item \cup {NoItem}, NEW t \in Text \cup {NoText}
    PROVE  /\ Tied(e, i, t) \in HomeRow /\ Tied(e, i, t).there
           /\ Tied(e, i, t).link = i /\ Tied(e, i, t).ev = e
           /\ Tied(e, i, t).text = t /\ ~Tied(e, i, t).apart
BY DEF Tied, HomeRow

LEMMA CreateHomeTies ==
    ASSUME Ties, NEW c \in Caller, NEW p \in Person, NEW e \in Event \cup {NoEvent},
           NEW t \in Text, CreateHome(c, p, e, t)
    PROVE  Ties'
<1>1. Begin(c, Idle)
  BY DEF CreateHome
<1>2. call' \in [Caller -> Held] /\ orderly' \in BOOLEAN /\ calls' \in 0..MaxCalls
  BY <1>1, BeginFacts, IdleHeld DEF Ties
<1>3. RowsKept
  BY <1>1, BeginHeld, IdleHeld
<1>4. CASE e = NoEvent
  <2>1. home' = [home EXCEPT ![p] = Tied(NoEvent, NoItem, t)] /\ UNCHANGED <<item, made>>
    BY <1>4 DEF CreateHome
  <2>2. TypeOK'
    BY <1>2, <2>1, TiedIs DEF Ties, TypeOK
  <2>3. home'[p].link = NoItem /\ \A q \in Person \ {p} : home'[q] = home[q]
    <3>1. Tied(NoEvent, NoItem, t).link = NoItem
      BY TiedIs
    <3> QED BY <2>1, <3>1 DEF Ties, TypeOK
  <2> QED BY <1>3, <2>1, <2>2, <2>3, TiesStay
<1>5. CASE e # NoEvent
  <2>1. PICK i \in Fresh : /\ item' = [item EXCEPT ![i] = NewRow(e, t, NoOne)]
                           /\ made' = [made EXCEPT ![i] = p]
                           /\ home' = [home EXCEPT ![p] = Tied(e, i, t)]
    BY <1>5 DEF CreateHome
  <2>2. i \in Item /\ NewRow(e, t, NoOne) \in ItemRow /\ NewRow(e, t, NoOne).ev = e
    BY FreshIsFree DEF NewRow, ItemRow
  <2>3. TypeOK'
    BY <1>2, <2>1, <2>2, TiedIs DEF Ties, TypeOK
  <2>4. home'[p].there /\ home'[p].link = i /\ home'[p].ev = e /\ item'[i].ev = e
    <3>1. home'[p] = Tied(e, i, t) /\ item'[i] = NewRow(e, t, NoOne)
      BY <2>1, <2>2 DEF Ties, TypeOK
    <3> QED BY <2>2, <3>1, TiedIs
  <2>5. /\ \A q \in Person \ {p} : home'[q] = home[q]
        /\ \A j \in Item \ {i} : item'[j].ev = item[j].ev
    BY <2>1 DEF Ties, TypeOK
  <2> QED BY <1>3, <1>5, <2>3, <2>4, <2>5, TiesNew
<1> QED BY <1>4, <1>5

\* The event row a request on Home takes away was nobody else's.
LEMMA WithoutTies ==
    ASSUME Ties, NEW c \in Caller, call[c].at \in AtHome
    PROVE  /\ call[c].by \in Person /\ call[c].row \in HomeRow /\ call[c].row.there
           /\ Without(call[c].row.link) \in [Item -> ItemRow]
           /\ \A j \in Item : \/ Without(call[c].row.link)[j] = item[j]
                              \/ /\ Without(call[c].row.link)[j] = NoRow
                                 /\ j = call[c].row.link
                                 /\ \A q \in Person \ {call[c].by} : home[q].link # j
           /\ NoRow.ev = NoEvent
<1>1. NoRow \in ItemRow /\ NoRow.ev = NoEvent
  BY DEF NoRow, ItemRow
<1>2. call[c] \in Held /\ HeldOK(call[c]) /\ Tie(call[c])
  BY DEF Ties, TypeOK
<1>3. call[c].by \in Person /\ call[c].row \in HomeRow /\ call[c].row.there
  BY <1>2 DEF HeldOK, Held
<1>4. \A j \in Item : j # NoItem
  BY NoneAssumption
<1> QED BY <1>1, <1>2, <1>3, <1>4 DEF Without, Tie, Ties, TypeOK

LEMMA HomeDeleteTies ==
    ASSUME Ties, NEW c \in Caller, HomeDelete(c)
    PROVE  Ties'
<1>1. Goes(c, "idle") /\ call[c].at \in AtHome
  BY DEF HomeDelete, AtHome
<1>2. call' \in [Caller -> Held] /\ orderly' \in BOOLEAN /\ calls' \in 0..MaxCalls
  BY <1>1, GoesTypes
<1>3. RowsKept
  BY <1>1, GoesHeld
<1>4. /\ item' = Without(call[c].row.link)
      /\ home' = [home EXCEPT ![call[c].by] = NoHome] /\ UNCHANGED made
  BY DEF HomeDelete
<1>5. /\ home' \in [Person -> HomeRow] /\ home'[call[c].by].link = NoItem
      /\ \A p \in Person \ {call[c].by} : home'[p] = home[p]
  BY <1>1, <1>4, WithoutTies, IdleHeld DEF Ties, TypeOK
<1>6. TypeOK'
  BY <1>1, <1>2, <1>4, <1>5, WithoutTies DEF Ties, TypeOK
<1>7. \A p \in Person : home[p].link = NoItem \/ home[p].link \in Item
  BY DEF Ties, TypeOK, HomeRow
<1>8. \A p \in Person \ {call[c].by} : home[p].link # NoItem => item'[home[p].link] = item[home[p].link]
  BY <1>1, <1>4, <1>7, WithoutTies
<1>9. \A i \in Item : item'[i].ev \in {item[i].ev, NoEvent}
  BY <1>1, <1>4, WithoutTies
<1> QED BY <1>3, <1>5, <1>6, <1>8, <1>9, TiesStay


LEMMA MoveTies ==
    ASSUME Ties, NEW c \in Caller, Move(c)
    PROVE  Ties'
<1> DEFINE p == call[c].by
           e == NextEvent(c)
           t == NextText(c)
<1>1. Goes(c, "idle") /\ call[c].at \in AtHome
  BY DEF Move, AtHome
<1>2. call' \in [Caller -> Held] /\ orderly' \in BOOLEAN /\ calls' \in 0..MaxCalls
  BY <1>1, GoesTypes
<1>3. RowsKept
  BY <1>1, GoesHeld
<1>4. p \in Person /\ call[c].row \in HomeRow
  BY <1>1, WithoutTies
<1>5. e \in Event \cup {NoEvent} /\ t \in Text \cup {NoText}
  BY <1>4 DEF NextEvent, NextText, Ties, TypeOK, Held, HomeRow
<1> HIDE DEF p, e, t
<1>6. CASE e = NoEvent
  <2>1. /\ item' = Without(call[c].row.link) /\ UNCHANGED made
        /\ home' = [home EXCEPT ![p] = Tied(NoEvent, NoItem, t)]
    BY <1>6, NoneAssumption DEF Move, p, e, t
  <2>2. Tied(NoEvent, NoItem, t) \in HomeRow /\ Tied(NoEvent, NoItem, t).link = NoItem
    BY <1>5, TiedIs
  <2>3. /\ home' \in [Person -> HomeRow] /\ home'[p].link = NoItem
        /\ \A q \in Person \ {p} : home'[q] = home[q]
    BY <1>4, <2>1, <2>2 DEF Ties, TypeOK
  <2>4. TypeOK'
    BY <1>1, <1>2, <2>1, <2>3, WithoutTies DEF Ties, TypeOK
  <2>5. \A q \in Person : home[q].link = NoItem \/ home[q].link \in Item
    BY DEF Ties, TypeOK, HomeRow
  <2>6. \A q \in Person \ {p} : home[q].link # NoItem => item'[home[q].link] = item[home[q].link]
    BY <1>1, <2>1, <2>5, WithoutTies DEF p
  <2>7. \A i \in Item : item'[i].ev \in {item[i].ev, NoEvent}
    BY <1>1, <2>1, WithoutTies
  <2> QED BY <1>3, <2>3, <2>4, <2>6, <2>7, TiesStay
<1>7. CASE e # NoEvent
  <2>1. PICK i \in Fresh :
            /\ item' = [Without(call[c].row.link) EXCEPT ![i] = NewRow(e, t, NoOne)]
            /\ made' = [made EXCEPT ![i] = p]
            /\ home' = [home EXCEPT ![p] = Tied(e, i, t)]
    BY <1>7 DEF Move, p, e, t
  <2>2. i \in Item /\ NewRow(e, t, NoOne) \in ItemRow /\ NewRow(e, t, NoOne).ev = e
    BY <1>5, <1>7, FreshIsFree DEF NewRow, ItemRow
  <2>3. home'[p] = Tied(e, i, t) /\ item'[i] = NewRow(e, t, NoOne)
    BY <1>1, <1>4, <2>1, <2>2, WithoutTies DEF Ties, TypeOK
  <2>4. Tied(e, i, t) \in HomeRow /\ Tied(e, i, t).there
        /\ Tied(e, i, t).link = i /\ Tied(e, i, t).ev = e
    <3>1. i \in Item \cup {NoItem}
      BY <2>2
    <3> HIDE <2>1, <2>2, <2>3
    <3> QED BY <1>5, <3>1, TiedIs
  <2>5. TypeOK'
    BY <1>1, <1>2, <1>4, <2>1, <2>2, <2>4, WithoutTies DEF Ties, TypeOK
  <2>6. \A q \in Person \ {p} : home'[q] = home[q]
    BY <2>1 DEF Ties, TypeOK
  <2>7. \A j \in Item \ {i} : \/ item'[j].ev = item[j].ev
                              \/ /\ item'[j].ev = NoEvent
                                 /\ \A q \in Person \ {p} : home[q].link # j
    <3>1. \A j \in Item \ {i} : item'[j] = Without(call[c].row.link)[j]
      BY <1>1, <2>1, WithoutTies
    <3> QED BY <1>1, <3>1, WithoutTies DEF p
  <2>8. e \in Event
    BY <1>5, <1>7
  <2> QED BY <1>3, <1>4, <2>2, <2>3, <2>4, <2>5, <2>6, <2>7, <2>8, TiesNew
<1> QED BY <1>6, <1>7

LEMMA StayTies ==
    ASSUME Ties, NEW c \in Caller, Stay(c)
    PROVE  Ties'
<1> DEFINE p == call[c].by
           row == call[c].row
           l == row.link
           t == NextText(c)
<1>1. Goes(c, "idle") /\ call[c].at \in AtHome
  BY DEF Stay, AtHome
<1>2. call' \in [Caller -> Held] /\ orderly' \in BOOLEAN /\ calls' \in 0..MaxCalls
  BY <1>1, GoesTypes
<1>3. /\ call'[c] = Idle /\ \A d \in Caller \ {c} : call'[d] = call[d]
  BY <1>1, GoesFacts DEF Ties, Stages
<1>4. p \in Person /\ row \in HomeRow /\ row.there /\ Tie(call[c])
  BY <1>1, WithoutTies DEF Ties
<1>5. t \in Text \cup {NoText}
  BY <1>4 DEF NextText, Ties, TypeOK, Held, HomeRow
<1>6. \A a \in BOOLEAN : /\ Again(p, row, t, a) \in HomeRow /\ Again(p, row, t, a).there
                         /\ Again(p, row, t, a).link = l /\ Again(p, row, t, a).ev = row.ev
  BY <1>4, <1>5 DEF Again, HomeRow
<1>7. l # NoItem => l \in Item /\ row.ev \in Event /\ row.ev # NoEvent
  BY <1>4, NoneAssumption DEF Tie, HomeRow
<1> HIDE DEF p, row, l, t
<1>8. PICK a \in BOOLEAN : home' = [home EXCEPT ![p] = Again(p, row, t, a)]
  BY <1>4 DEF Stay, HomeRow, p, row, t
<1>9. l # NoItem => There(l)
  BY <1>7 DEF Stay, Sees, p, row, l, t
<1>10. UNCHANGED made /\ (UNCHANGED item \/ (l \in Item /\ item' = [item EXCEPT ![l].text = t]))
  <2>1. CASE item' = [item EXCEPT ![l].text = t] /\ l # NoItem
    BY <1>7, <2>1 DEF Stay
  <2>2. UNCHANGED item \/ (item' = [item EXCEPT ![l].text = t] /\ l # NoItem)
    BY DEF Stay, p, row, l, t
  <2> QED BY <2>1, <2>2 DEF Stay
<1>11. item' \in [Item -> ItemRow] /\ \A i \in Item : item'[i].ev = item[i].ev
  <2>1. CASE UNCHANGED item
    BY <2>1 DEF Ties, TypeOK
  <2>2. CASE l \in Item /\ item' = [item EXCEPT ![l].text = t]
    <3>1. item[l] \in ItemRow
      BY <2>2 DEF Ties, TypeOK
    <3>2. [item[l] EXCEPT !.text = t] \in ItemRow /\ [item[l] EXCEPT !.text = t].ev = item[l].ev
      BY <1>5, <3>1 DEF ItemRow
    <3>3. item' = [item EXCEPT ![l] = [item[l] EXCEPT !.text = t]]
      BY <2>2 DEF Ties, TypeOK
    <3> QED BY <2>2, <3>2, <3>3 DEF Ties, TypeOK
  <2> QED BY <1>10, <2>1, <2>2
<1>12. /\ home' \in [Person -> HomeRow]
       /\ home'[p].there /\ home'[p].link = l /\ home'[p].ev = row.ev
       /\ \A q \in Person \ {p} : home'[q] = home[q]
  BY <1>4, <1>6, <1>8 DEF Ties, TypeOK
<1>13. TypeOK'
  BY <1>2, <1>10, <1>11, <1>12 DEF Ties, TypeOK
<1>14. LinkedIsThere'
  BY <1>12 DEF LinkedIsThere, Ties
<1>15. \A q \in Person \ {p} : home[q].link # NoItem =>
           home[q].link # l /\ home[q].link \in Item /\ home[q].there
  BY <1>4 DEF Tie, Ties, TypeOK, HomeRow, LinkedIsThere, p, row, l
<1>16. l # NoItem => item[l].ev = row.ev
  BY <1>4, <1>9 DEF Tie, row, l
<1>17. LinkAgrees'
  <2> SUFFICES ASSUME NEW q \in Person, home'[q].link # NoItem
               PROVE  /\ item'[home'[q].link].ev # NoEvent
                      /\ item'[home'[q].link].ev = home'[q].ev
                      /\ \A z \in Person \ {q} : home'[z].link # home'[q].link
    BY DEF LinkAgrees, There
  <2>1. CASE q = p
    BY <2>1, <1>7, <1>9, <1>11, <1>12, <1>15, <1>16 DEF There
  <2>2. CASE q # p
    BY <2>2, <1>11, <1>12, <1>15 DEF Ties, LinkAgrees, There
  <2> QED BY <2>1, <2>2
<1>18. ASSUME NEW d \in Caller PROVE HeldOK(call[d])' /\ Tie(call[d])'
  <2>1. CASE d = c
    BY <2>1, <1>3, IdleHeld DEF Tie, HeldOK
  <2>2. CASE d # c
    <3>1. call'[d] = call[d] /\ HeldOK(call[d]) /\ Tie(call[d])
      BY <2>2, <1>3 DEF Ties
    <3>2. call[d].row.link # NoItem => call[d].row.link \in Item
      BY DEF Ties, TypeOK, Held, HomeRow
    <3>3. call[d].row.link # NoItem /\ call[d].row.link = l => call[d].by = p
      BY DEF Ties, TiesApart, p, row, l
    <3> QED BY <3>1, <3>2, <3>3, <1>11, <1>12 DEF Tie, There, HeldOK
  <2> QED BY <2>1, <2>2
<1>19. TiesApart'
  BY <1>3, IdleHeld DEF Ties, TiesApart
<1> QED BY <1>13, <1>14, <1>17, <1>18, <1>19 DEF Ties


LEMMA TiesInit == Init => Ties
BY IdleHeld, BoundAssumption DEF Init, Ties, TypeOK, ItemRow, NoRow, LinkedIsThere, LinkAgrees,
   Tie, TiesApart

LEMMA TiesNext ==
    ASSUME Ties, [Next]_vars
    PROVE  Ties'
<1>1. CASE UNCHANGED vars
  BY <1>1 DEF vars, Ties, TypeOK, LinkedIsThere, LinkAgrees, HeldOK, Tie, TiesApart, There
<1>2. ASSUME NEW c \in Caller, Asks(c) PROVE Ties'
  <2>1. ASSUME NEW p \in Person, NEW i \in Item, NEW t \in Text \cup {NoText},
               NEW w \in Person \cup {NoOne, Keep},
               \/ PatchCheck(c, p, i, t, w, FALSE, {})
               \/ \E hidden \in SUBSET Member : PatchCheck(c, p, i, t, w, TRUE, hidden)
        PROVE  Ties'
    <3>1. ASSUME NEW hides \in BOOLEAN, NEW hidden \in SUBSET Member,
                 PatchCheck(c, p, i, t, w, hides, hidden)
          PROVE  Ties'
      BY <3>1, CheckTies
    <3>2. CASE PatchCheck(c, p, i, t, w, FALSE, {})
      <4>1. FALSE \in BOOLEAN /\ {} \in SUBSET Member
        OBVIOUS
      <4> QED BY <3>1, <3>2, <4>1, Zenon
    <3>3. CASE \E hidden \in SUBSET Member : PatchCheck(c, p, i, t, w, TRUE, hidden)
      <4>1. TRUE \in BOOLEAN
        OBVIOUS
      <4> QED BY <3>1, <3>3, <4>1, Zenon
    <3> QED BY <2>1, <3>2, <3>3
  <2>2. ASSUME NEW p \in Person, NEW i \in Item, DeleteCheck(c, p, i) PROVE Ties'
    <3>1. NoText \in Text \cup {NoText} /\ Keep \in Person \cup {NoOne, Keep}
      OBVIOUS
    <3> QED BY <2>2, <3>1, CheckTies
  <2>3. ASSUME NEW p \in Person, HomeDeleteRead(c, p) PROVE Ties'
    <3>1. NoText \in Text \cup {NoText} /\ Keep \in Event \cup {NoEvent, Keep}
      OBVIOUS
    <3> QED BY <2>3, <3>1, HomeReadTies
  <2>4. ASSUME NEW p \in Person, NEW e \in Event \cup {NoEvent, Keep}, NEW t \in Text \cup {NoText},
               HomeRead(c, p, e, t)
        PROVE  Ties'
    BY <2>4, HomeReadTies
  <2> QED BY <1>2, <2>1, <2>2, <2>3, <2>4, AddItemTies, ImportReadTies, CreateHomeTies DEF Asks
<1>3. ASSUME NEW c \in Caller, GoesOn(c) PROVE Ties'
  <2>1. CASE ImportCreate(c)
    BY <2>1, ImportCreateTies
  <2> QED BY <1>3, <2>1, PatchTies, SyncTies, DropTies, MoveTies, StayTies, HomeDeleteTies,
             CutTies DEF GoesOn
<1> QED BY <1>1, <1>2, <1>3 DEF Next

\* Whatever overlaps, and wherever requests are cut off, the row a request has read at
\* Home still tells which event row may be touched (updateChecklist(), deleteChecklist()).
THEOREM TiesInvariant == Spec => []Ties
BY TiesInit, TiesNext, PTL DEF Spec

\* The rows of the checklists, the Home rows and the requests keep their types.
THEOREM ChecklistTypes == Spec => []TypeOK
<1>1. Ties => TypeOK
  BY DEF Ties
<1> QED BY <1>1, TiesInvariant, PTL

\* Whatever overlaps, a Home row tied to an event row names the event that row is of, and
\* no two Home rows are tied to one.
THEOREM LinksAgree == Spec => []LinkAgrees
<1>1. Ties => LinkAgrees
  BY DEF Ties
<1> QED BY <1>1, TiesInvariant, PTL


---------------------------------------------------------------------------
(* Requests that do not overlap *)

TextSame(p)  == home[p].link # NoItem /\ ~home[p].apart => home[p].text = item[home[p].link].text
HolderOK(i)  == item[i].who \notin item[i].hidden
MadeOK(i)    == There(i) /\ made[i] # NoOne => home[made[i]].link = i

\* The rows as they are between requests.
Settled == /\ \A p \in Person : TextSame(p)
           /\ \A i \in Item : HolderOK(i) /\ MadeOK(i)

\* A request that returns leaves the rows settled.
LEMMA TidyReturn ==
    ASSUME Settled', \A d \in Caller : call'[d].at = "idle"
    PROVE  Tidy'
BY DEF Tidy, Settled, TextSame, HolderOK, MadeOK, Alone, Sure, TextsAgree, HolderSees, MadeForOne,
   Coming, AtHome

\* A request that begins finds them settled.
LEMMA TidyBegin ==
    ASSUME IInv, NEW c \in Caller, NEW held \in Held, Begin(c, held), orderly'
    PROVE  /\ Settled /\ call'[c] = held
           /\ \A d \in Caller \ {c} : call'[d].at = "idle"
<1>1. /\ call'[c] = held /\ orderly
      /\ \A d \in Caller \ {c} : call'[d] = call[d]
      /\ \A d \in Caller : call[d].at = "idle"
  BY BeginFacts DEF IInv, Ties
<1> QED BY <1>1 DEF IInv, Tidy, Settled, TextSame, HolderOK, MadeOK, TextsAgree, HolderSees,
           MadeForOne, Coming

\* A request that has only read so far.
LEMMA TidyRead ==
    ASSUME Settled, NEW c \in Caller, UNCHANGED <<item, home, made>>,
           \A d \in Caller \ {c} : call'[d].at = "idle", Sure(call[c])'
    PROVE  Tidy'
<1>1. \A d \in Caller : Sure(call[d])'
  BY DEF Sure, AtHome
<1>2. Alone'
  BY DEF Alone
<1>3. TextsAgree' /\ HolderSees' /\ MadeForOne'
  BY DEF Settled, TextSame, HolderOK, MadeOK, TextsAgree, HolderSees, MadeForOne, There, Coming
<1> QED BY <1>1, <1>2, <1>3 DEF Tidy

\* While a request is in hand, every other is idle.
LEMMA TidyGoes ==
    ASSUME IInv, orderly, NEW c \in Caller, call[c].at # "idle", NEW at \in Stages, Goes(c, at)
    PROVE  /\ Sure(call[c])
           /\ \A d \in Caller \ {c} : call[d].at = "idle" /\ call'[d].at = "idle"
           /\ at = "idle" => \A d \in Caller : call'[d].at = "idle"
<1>1. TypeOK /\ Alone /\ Sure(call[c])
  BY DEF IInv, Ties, Tidy
<1>2. \A d \in Caller \ {c} : call[d].at = "idle"
  BY <1>1 DEF Alone
<1>3. /\ \A d \in Caller \ {c} : call'[d] = call[d]
      /\ at = "idle" => call'[c] = Idle
  BY <1>1, GoesFacts
<1> QED BY <1>1, <1>2, <1>3, IdleHeld

\* A request at another stage than those that leave rows apart finds them settled.
LEMMA TidySettled ==
    ASSUME IInv, orderly, NEW c \in Caller, call[c].at \notin {"bare", "cover", "sync", "dropItem"},
           \A d \in Caller \ {c} : call[d].at = "idle"
    PROVE  Settled
BY DEF IInv, Tidy, Settled, TextSame, HolderOK, MadeOK, TextsAgree, HolderSees, MadeForOne, Coming


\* A new row leaves settled rows settled.
LEMMA AddSettled ==
    ASSUME Ties, Settled, NEW i \in Fresh, NEW e \in Event, NEW t \in Text \cup {NoText},
           NEW w \in Person \cup {NoOne},
           item' = [item EXCEPT ![i] = NewRow(e, t, w)],
           made' = [made EXCEPT ![i] = NoOne],
           UNCHANGED home
    PROVE  Settled'
<1>1. i \in Item /\ \A p \in Person : home[p].link # i
  BY FreshIsFree
<1>2. /\ item'[i].who = w /\ item'[i].hidden = {} /\ made'[i] = NoOne
      /\ \A j \in Item \ {i} : item'[j] = item[j] /\ made'[j] = made[j]
  BY <1>1 DEF NewRow, Ties, TypeOK
<1>3. \A p \in Person : home[p].link \in Item \cup {NoItem}
  BY DEF Ties, TypeOK, HomeRow
<1>4. \A p \in Person : TextSame(p)'
  BY <1>1, <1>2, <1>3 DEF Settled, TextSame
<1>5. \A j \in Item : HolderOK(j)'
  BY <1>2 DEF Settled, HolderOK
<1>6. \A j \in Item : MadeOK(j)'
  BY <1>2 DEF Settled, MadeOK, There
<1> QED BY <1>4, <1>5, <1>6 DEF Settled

\* So does a new row with its Home row, when the event row the Home row had before is
\* no longer there.
LEMMA TieSettled ==
    ASSUME Ties, Settled, NEW p \in Person, NEW i \in Fresh, NEW e \in Event,
           NEW t \in Text \cup {NoText}, item'[i] = NewRow(e, t, NoOne),
           \A j \in Item \ {i} :
              \/ item'[j] = item[j] /\ j # home[p].link
              \/ item'[j] = NoRow /\ \A q \in Person \ {p} : home[q].link # j,
           made' = [made EXCEPT ![i] = p],
           home' = [home EXCEPT ![p] = Tied(e, i, t)]
    PROVE  Settled'
<1>1. i \in Item /\ \A q \in Person : home[q].link # i
  BY FreshIsFree
<1>2. /\ item'[i].who = NoOne /\ item'[i].hidden = {} /\ item'[i].text = t /\ made'[i] = p
      /\ \A j \in Item \ {i} : made'[j] = made[j]
  BY <1>1 DEF NewRow, Ties, TypeOK
<1>3. home'[p].link = i /\ home'[p].text = t /\ \A q \in Person \ {p} : home'[q] = home[q]
  <2>1. home'[p] = Tied(e, i, t) /\ \A q \in Person \ {p} : home'[q] = home[q]
    BY DEF Ties, TypeOK
  <2> QED BY <2>1 DEF Tied
<1>4. \A q \in Person : home[q].link \in Item \cup {NoItem}
  BY DEF Ties, TypeOK, HomeRow
<1>5. \A q \in Person : TextSame(q)'
  BY <1>1, <1>2, <1>3, <1>4 DEF Settled, TextSame
<1>6. \A j \in Item : HolderOK(j)'
  BY <1>2 DEF Settled, HolderOK, NoRow
<1>7. \A j \in Item : MadeOK(j)'
  <2>1. \A j \in Item : made[j] \in Person \cup {NoOne}
    BY DEF Ties, TypeOK
  <2>2. NoRow.ev = NoEvent
    BY DEF NoRow
  <2> QED BY <1>2, <1>3, <2>1, <2>2 DEF Settled, MadeOK, There
<1> QED BY <1>5, <1>6, <1>7 DEF Settled

---------------------------------------------------------------------------
(* The actions leave things tidy *)

LEMMA AddTidy ==
    ASSUME IInv, orderly', NEW c \in Caller, NEW p \in Person, NEW e \in Event,
           NEW t \in Text, NEW w \in Person \cup {NoOne}, AddItem(c, p, e, t, w)
    PROVE  Tidy'
<1>1. Settled /\ \A d \in Caller : call'[d].at = "idle"
  BY TidyBegin, IdleHeld DEF AddItem
<1>2. PICK i \in Fresh : /\ item' = [item EXCEPT ![i] = NewRow(e, t, w)]
                         /\ made' = [made EXCEPT ![i] = NoOne]
  BY DEF AddItem
<1>3. Settled'
  BY <1>1, <1>2, AddSettled DEF AddItem, IInv
<1> QED BY <1>1, <1>3, TidyReturn

LEMMA CreateHomeTidy ==
    ASSUME IInv, orderly', NEW c \in Caller, NEW p \in Person,
           NEW e \in Event \cup {NoEvent}, NEW t \in Text, CreateHome(c, p, e, t)
    PROVE  Tidy'
<1>1. Settled /\ \A d \in Caller : call'[d].at = "idle"
  BY TidyBegin, IdleHeld DEF CreateHome
<1>2. home[p].link = NoItem
  BY DEF CreateHome, IInv, Ties, LinkedIsThere
<1>3. CASE e = NoEvent
  <2>1. home' = [home EXCEPT ![p] = Tied(NoEvent, NoItem, t)] /\ UNCHANGED <<item, made>>
    BY <1>3 DEF CreateHome
  <2>2. /\ home'[p].link = NoItem /\ \A q \in Person \ {p} : home'[q] = home[q]
    <3>1. Tied(NoEvent, NoItem, t).link = NoItem
      BY TiedIs
    <3> QED BY <2>1, <3>1 DEF IInv, Ties, TypeOK
  <2>3. \A i \in Item : made[i] = p => ~There(i)
    BY <1>1, <1>2, NoneAssumption DEF Settled, MadeOK
  <2>4. Settled'
    BY <1>1, <2>1, <2>2, <2>3 DEF Settled, TextSame, HolderOK, MadeOK, There, IInv, Ties, TypeOK
  <2> QED BY <1>1, <2>4, TidyReturn
<1>4. CASE e # NoEvent
  <2>1. PICK i \in Fresh : /\ item' = [item EXCEPT ![i] = NewRow(e, t, NoOne)]
                           /\ made' = [made EXCEPT ![i] = p]
                           /\ home' = [home EXCEPT ![p] = Tied(e, i, t)]
    BY <1>4 DEF CreateHome
  <2>2. Settled'
    <3>1. /\ item'[i] = NewRow(e, t, NoOne)
          /\ \A j \in Item \ {i} : item'[j] = item[j] /\ j # home[p].link
      BY <1>2, <2>1, FreshIsFree, NoneAssumption DEF IInv, Ties, TypeOK
    <3>2. Ties /\ e \in Event /\ t \in Text \cup {NoText}
      BY <1>4 DEF IInv
    <3> QED BY <1>1, <2>1, <3>1, <3>2, TieSettled
  <2> QED BY <1>1, <2>2, TidyReturn
<1> QED BY <1>3, <1>4


LEMMA ReadTidy ==
    ASSUME IInv, orderly', NEW c \in Caller, NEW held \in Held, Begin(c, held),
           UNCHANGED <<item, home, made>>, Sure(held)
    PROVE  Tidy'
<1>1. Settled /\ call'[c] = held /\ \A d \in Caller \ {c} : call'[d].at = "idle"
  BY TidyBegin
<1>2. Sure(call[c])'
  BY <1>1 DEF Sure, MayHold, HiddenThen, There
<1> QED BY <1>1, <1>2, TidyRead

LEMMA BeginTidy ==
    ASSUME IInv, orderly', NEW c \in Caller, NEW p \in Person,
           \/ \E e \in Event : ImportRead(c, p, e)
           \/ \E i \in Item, t \in Text \cup {NoText}, w \in Person \cup {NoOne, Keep},
                 hides \in BOOLEAN, hidden \in SUBSET Member :
                 PatchCheck(c, p, i, t, w, hides, hidden)
           \/ \E i \in Item : DeleteCheck(c, p, i)
           \/ \E e \in Event \cup {NoEvent, Keep}, t \in Text \cup {NoText} : HomeRead(c, p, e, t)
           \/ HomeDeleteRead(c, p)
    PROVE  Tidy'
<1>1. home[p] \in HomeRow
  BY DEF IInv, Ties, TypeOK
<1>2. ASSUME NEW e \in Event, ImportRead(c, p, e) PROVE Tidy'
  <2> DEFINE h == [Idle EXCEPT !.at = "import", !.by = p, !.ev = e, !.seen = TitlesFor(p, e)]
  <2>1. TitlesFor(p, e) \in SUBSET (Text \cup {NoText})
    BY DEF TitlesFor, IInv, Ties, TypeOK, ItemRow
  <2>2. h \in Held /\ Sure(h)
    BY <2>1, IdleHeld DEF Idle, Held, Stages, Sure, AtHome
  <2> QED BY <1>2, <2>2, ReadTidy DEF ImportRead
<1>3. ASSUME NEW i \in Item, NEW t \in Text \cup {NoText}, NEW w \in Person \cup {NoOne, Keep},
             NEW hides \in BOOLEAN, NEW hidden \in SUBSET Member,
             PatchCheck(c, p, i, t, w, hides, hidden)
      PROVE  Tidy'
  <2> DEFINE h == [Idle EXCEPT !.at = "patch", !.by = p, !.item = i, !.text = t, !.who = w,
                               !.hides = hides, !.hidden = hidden]
  <2>1. h \in Held
    BY IdleHeld DEF Idle, Held, Stages
  <2>2. /\ h.at = "patch" /\ h.item = i /\ h.who = w /\ h.hides = hides /\ h.hidden = hidden
    BY DEF Idle
  <2>3. Sure(h)
    <3> HIDE DEF h
    <3> QED BY <1>3, <2>2 DEF PatchCheck, Sure, AtHome
  <2> QED BY <1>3, <2>1, <2>3, ReadTidy DEF PatchCheck
<1>4. ASSUME NEW i \in Item, DeleteCheck(c, p, i) PROVE Tidy'
  <2> DEFINE h == [Idle EXCEPT !.at = "dropHome", !.by = p, !.item = i]
  <2>1. h \in Held /\ Sure(h)
    BY IdleHeld DEF Idle, Held, Stages, Sure, AtHome
  <2> QED BY <1>4, <2>1, ReadTidy DEF DeleteCheck
<1>5. ASSUME NEW e \in Event \cup {NoEvent, Keep}, NEW t \in Text \cup {NoText}, HomeRead(c, p, e, t)
      PROVE  Tidy'
  <2> DEFINE h == [Idle EXCEPT !.at = "homeWrite", !.by = p, !.ev = e, !.text = t, !.row = home[p]]
  <2>1. h \in Held /\ Sure(h)
    BY <1>1, IdleHeld DEF Idle, Held, Stages, Sure, AtHome
  <2> QED BY <1>5, <2>1, ReadTidy DEF HomeRead
<1>6. CASE HomeDeleteRead(c, p)
  <2> DEFINE h == [Idle EXCEPT !.at = "homeDelete", !.by = p, !.row = home[p]]
  <2>1. h \in Held /\ Sure(h)
    BY <1>1, IdleHeld DEF Idle, Held, Stages, Sure, AtHome
  <2> QED BY <1>6, <2>1, ReadTidy DEF HomeDeleteRead
<1> QED BY <1>2, <1>3, <1>4, <1>5, <1>6

LEMMA ImportCreateTidy ==
    ASSUME IInv, orderly, NEW c \in Caller, ImportCreate(c)
    PROVE  Tidy'
<1>1. call[c].at = "import" /\ Goes(c, "idle") /\ "idle" \in Stages
  BY DEF ImportCreate, Stages
<1>2. /\ \A d \in Caller \ {c} : call[d].at = "idle"
      /\ \A d \in Caller : call'[d].at = "idle"
  BY <1>1, TidyGoes
<1>3. Settled
  BY <1>1, <1>2, TidySettled
<1>4. call[c].ev \in Event
  BY <1>1 DEF IInv, Ties, HeldOK
<1>5. CASE UNCHANGED <<item, made>>
  <2>1. Settled'
    BY <1>3, <1>5 DEF ImportCreate, Settled, TextSame, HolderOK, MadeOK, There
  <2> QED BY <1>2, <2>1, TidyReturn
<1>6. ASSUME NEW i \in Fresh, NEW t \in Text,
             item' = [item EXCEPT ![i] = NewRow(call[c].ev, t, NoOne)],
             made' = [made EXCEPT ![i] = NoOne]
      PROVE  Tidy'
  <2>1. Settled'
    BY <1>3, <1>4, <1>6, AddSettled DEF ImportCreate, IInv
  <2> QED BY <1>2, <2>1, TidyReturn
<1> QED BY <1>5, <1>6 DEF ImportCreate


\* A request goes on, and nothing else is in hand.
LEMMA TidyOnWay ==
    ASSUME NEW c \in Caller, \A d \in Caller \ {c} : call'[d].at = "idle", Sure(call[c])',
           TextsAgree', HolderSees', MadeForOne'
    PROVE  Tidy'
<1>1. \A d \in Caller : Sure(call[d])'
  BY DEF Sure, AtHome
<1>2. Alone'
  BY DEF Alone
<1> QED BY <1>1, <1>2 DEF Tidy

LEMMA PatchItemTidy ==
    ASSUME IInv, orderly, NEW c \in Caller, PatchItem(c)
    PROVE  Tidy'
<1> DEFINE i == call[c].item
           t == call[c].text
           w == call[c].who
<1>1. /\ call[c] \in Held /\ call[c].at = "patch" /\ i \in Item /\ item[i] \in ItemRow
      /\ TypeOK /\ AfterPatch(c) \in Stages /\ "bare" \in Stages /\ "idle" \in Stages
  BY DEF PatchItem, IInv, Ties, TypeOK, HeldOK, AtItem, AfterPatch, Stages
<1>2. /\ Sure(call[c]) /\ \A d \in Caller \ {c} : call[d].at = "idle" /\ call'[d].at = "idle"
  BY <1>1, TidyGoes DEF PatchItem
<1>3. Settled
  BY <1>1, <1>2, TidySettled
<1>4. CASE ~There(i)
  <2>1. UNCHANGED <<item, home, made>> /\ Goes(c, "idle")
    BY <1>4 DEF PatchItem
  <2>2. \A d \in Caller : call'[d].at = "idle"
    BY <1>1, <2>1, TidyGoes
  <2>3. Settled'
    BY <1>3, <2>1 DEF Settled, TextSame, HolderOK, MadeOK, There
  <2> QED BY <2>2, <2>3, TidyReturn
<1>5. CASE There(i)
  <2>1. /\ item'[i].ev = item[i].ev /\ item'[i].hidden = item[i].hidden
        /\ item'[i].text = (IF t = NoText THEN item[i].text ELSE t)
        /\ item'[i].who = (IF w = Keep THEN item[i].who ELSE w)
        /\ \A j \in Item \ {i} : item'[j] = item[j]
    BY <1>1, <1>5 DEF PatchItem, TypeOK, ItemRow
  <2>2. PICK at \in Stages : /\ Goes(c, at)
                             /\ at = IF call[c].hides THEN "bare" ELSE AfterPatch(c)
    BY <1>1, <1>5 DEF PatchItem
  <2>3. UNCHANGED <<home, made>>
    BY DEF PatchItem
  <2>4. call[c].hides => (IF w = Keep THEN item[i].who ELSE w) \notin call[c].hidden
    BY <1>1, <1>2 DEF Sure, MayHold, HiddenThen
  <2>5. ~call[c].hides /\ w # Keep => w \notin item[i].hidden
    BY <1>1, <1>2 DEF Sure, MayHold, HiddenThen
  <2>6. \A j \in Item : MadeOK(j)'
    BY <1>1, <1>3, <2>1, <2>3 DEF Settled, MadeOK, There
  <2>7. \A p \in Person : TextSame(p) /\ home[p].link \in Item \cup {NoItem}
    BY <1>1, <1>3 DEF Settled, TypeOK, HomeRow
  <2>8. \A j \in Item : j # i => HolderOK(j)'
    BY <1>1, <1>3, <2>1 DEF Settled, HolderOK
  <2>9. CASE at = "idle"
    <3>1. ~call[c].hides /\ t = NoText
      BY <2>2, <2>9 DEF AfterPatch
    <3>2. item'[i].who \notin item'[i].hidden
      BY <1>1, <1>3, <2>1, <2>5, <3>1 DEF Settled, HolderOK
    <3>3. \A p \in Person : TextSame(p)'
      BY <1>1, <2>1, <2>3, <2>7, <3>1 DEF TextSame
    <3>4. Settled'
      BY <2>6, <2>8, <3>2, <3>3 DEF Settled, HolderOK
    <3>5. \A d \in Caller : call'[d].at = "idle"
      BY <1>1, <2>2, <2>9, TidyGoes
    <3> QED BY <3>4, <3>5, TidyReturn
  <2>10. CASE at # "idle"
    <3>1. /\ call'[c].at = at /\ call'[c].item = i /\ call'[c].text = t
          /\ call'[c].hides = call[c].hides /\ call'[c].hidden = call[c].hidden
      BY <1>1, <2>2, <2>10, GoesFacts
    <3>2. \/ at = "bare" /\ call[c].hides
          \/ at = "sync" /\ ~call[c].hides /\ t # NoText
      BY <2>2, <2>10 DEF AfterPatch
    <3>3. Sure(call[c])'
      BY <1>1, <1>5, <2>1, <2>4, <3>1, <3>2 DEF Sure, There, AtHome
    <3>4. TextsAgree'
      BY <1>1, <2>1, <2>3, <2>7, <3>1, <3>2 DEF TextsAgree, TextSame
    <3>5. HolderSees'
      <4>1. CASE at = "bare"
        BY <2>8, <3>1, <4>1 DEF HolderSees, HolderOK, Coming
      <4>2. CASE at = "sync"
        <5>1. item'[i].who \notin item'[i].hidden
          BY <1>1, <1>3, <2>1, <2>5, <3>2, <4>2 DEF Settled, HolderOK
        <5> QED BY <2>8, <5>1 DEF HolderSees, HolderOK
      <4> QED BY <3>2, <4>1, <4>2
    <3>6. MadeForOne'
      BY <2>6 DEF MadeForOne, MadeOK, There
    <3> QED BY <1>2, <3>3, <3>4, <3>5, <3>6, TidyOnWay
  <2> QED BY <2>9, <2>10
<1> QED BY <1>4, <1>5


\* While a request is in hand, all but its own rows are as between requests.
LEMMA TidyRest ==
    ASSUME IInv, orderly, NEW c \in Caller, \A d \in Caller \ {c} : call[d].at = "idle"
    PROVE  /\ call[c].at # "bare" => \A i \in Item : HolderOK(i)
           /\ \A i \in Item : i # call[c].item => HolderOK(i)
           /\ call[c].at # "dropItem" => \A i \in Item : MadeOK(i)
           /\ \A i \in Item : i # call[c].item => MadeOK(i)
           /\ call[c].at \notin {"bare", "cover", "sync"} \/ call[c].text = NoText =>
                  \A p \in Person : TextSame(p)
           /\ \A p \in Person : home[p].link # call[c].item => TextSame(p)
BY DEF IInv, Tidy, TextSame, HolderOK, MadeOK, TextsAgree, HolderSees, MadeForOne, Coming

\* Only who the row is hidden from changes, and its holder is not among them.
LEMMA HidingTidy ==
    ASSUME IInv, orderly, NEW c \in Caller, call[c].at \in {"bare", "cover"},
           NEW hidden \in SUBSET Member, item[call[c].item].who \notin hidden,
           item' = [item EXCEPT ![call[c].item].hidden = hidden],
           UNCHANGED <<home, made>>,
           \/ Goes(c, AfterPatch(c))
           \/ Goes(c, "cover") /\ hidden = {}
    PROVE  Tidy'
<1> DEFINE i == call[c].item
           t == call[c].text
<1>1. /\ call[c] \in Held /\ i \in Item /\ item[i] \in ItemRow /\ TypeOK
      /\ AfterPatch(c) \in Stages \ {"cover"} /\ "cover" \in Stages
  BY DEF IInv, Ties, TypeOK, HeldOK, AtItem, AfterPatch, Stages
<1>2. PICK at \in Stages : Goes(c, at) /\ (at = AfterPatch(c) \/ (at = "cover" /\ hidden = {}))
  BY <1>1
<1>3. /\ Sure(call[c]) /\ \A d \in Caller \ {c} : call[d].at = "idle" /\ call'[d].at = "idle"
  BY <1>1, <1>2, TidyGoes
<1>4. /\ item'[i].ev = item[i].ev /\ item'[i].hidden = hidden
      /\ item'[i].text = item[i].text /\ item'[i].who = item[i].who
      /\ \A j \in Item \ {i} : item'[j] = item[j]
  BY <1>1 DEF TypeOK, ItemRow
<1>5. /\ \A j \in Item : j # i => HolderOK(j)
      /\ \A j \in Item : MadeOK(j)
      /\ t = NoText => \A p \in Person : TextSame(p)
      /\ \A p \in Person : home[p].link # i => TextSame(p)
  BY <1>1, <1>3, TidyRest
<1>6. \A j \in Item : HolderOK(j)' /\ MadeOK(j)'
  BY <1>4, <1>5 DEF HolderOK, MadeOK, There
<1>7. \A p \in Person : home[p].link \in Item \cup {NoItem} /\ (TextSame(p) => TextSame(p)')
  BY <1>1, <1>4 DEF TextSame, TypeOK, HomeRow
<1>8. CASE at = "idle"
  <2>1. t = NoText
    BY <1>2, <1>8 DEF AfterPatch
  <2>2. Settled'
    BY <1>5, <1>6, <1>7, <2>1 DEF Settled
  <2>3. \A d \in Caller : call'[d].at = "idle"
    BY <1>1, <1>2, <1>8, TidyGoes
  <2> QED BY <2>2, <2>3, TidyReturn
<1>9. CASE at # "idle"
  <2>1. /\ call'[c].at = at /\ call'[c].item = i /\ call'[c].text = t
        /\ call'[c].hidden = call[c].hidden
    BY <1>1, <1>2, <1>9, GoesFacts
  <2>2. (at = "sync" /\ t # NoText) \/ (at = "cover" /\ hidden = {})
    BY <1>2, <1>9 DEF AfterPatch
  <2>3. Sure(call[c])'
    BY <1>1, <1>3, <1>4, <2>1, <2>2 DEF Sure, There, AtHome
  <2>4. TextsAgree'
    BY <1>5, <1>7, <2>1, <2>2 DEF TextsAgree, TextSame
  <2>5. HolderSees' /\ MadeForOne'
    BY <1>6 DEF HolderSees, MadeForOne, HolderOK, MadeOK, There
  <2> QED BY <1>3, <2>3, <2>4, <2>5, TidyOnWay
<1> QED BY <1>8, <1>9

LEMMA CoverTidy ==
    ASSUME IInv, orderly, NEW c \in Caller, Uncover(c) \/ Cover(c)
    PROVE  Tidy'
<1>1. /\ call[c] \in Held /\ call[c].item \in Item /\ item[call[c].item] \in ItemRow
      /\ Sure(call[c]) /\ call[c].hidden \in SUBSET Member
  BY DEF Uncover, Cover, IInv, Ties, Tidy, TypeOK, HeldOK, AtItem, Held
<1>2. CASE Uncover(c)
  <2>1. {} \in SUBSET Member /\ item[call[c].item].who \notin {}
    OBVIOUS
  <2> QED BY <1>2, <2>1, HidingTidy DEF Uncover
<1>3. CASE Cover(c)
  <2>1. /\ There(call[c].item) /\ item[call[c].item].hidden = {}
        /\ item[call[c].item].who \notin call[c].hidden
    BY <1>1, <1>3 DEF Cover, Sure
  <2>2. /\ item' = [item EXCEPT ![call[c].item].hidden = call[c].hidden]
        /\ Goes(c, AfterPatch(c)) /\ UNCHANGED <<home, made>> /\ call[c].at = "cover"
    BY <1>3, <2>1 DEF Cover
  <2> QED BY <1>1, <2>1, <2>2, HidingTidy
<1> QED BY <1>2, <1>3

LEMMA SyncTidy ==
    ASSUME IInv, orderly, NEW c \in Caller, Sync(c)
    PROVE  Tidy'
<1> DEFINE i == call[c].item
           t == call[c].text
<1>1. call[c].at = "sync" /\ Goes(c, "idle") /\ "idle" \in Stages /\ UNCHANGED <<item, made>>
  BY DEF Sync, Stages
<1>2. /\ Sure(call[c]) /\ \A d \in Caller \ {c} : call[d].at = "idle"
      /\ \A d \in Caller : call'[d].at = "idle"
  BY <1>1, TidyGoes
<1>3. ASSUME NEW p \in Person
      PROVE  /\ home'[p].link = home[p].link
             /\ home'[p] = home[p] \/ (home[p].link = i /\ home'[p].text = t)
             /\ home[p].link = i => home'[p].text = t
  <2>1. home[p] \in HomeRow
    BY DEF IInv, Ties, TypeOK
  <2>2. home'[p] = IF home[p].link = i THEN [home[p] EXCEPT !.text = t, !.apart = FALSE]
                                       ELSE home[p]
    BY DEF Sync, Follow
  <2> QED BY <2>1, <2>2 DEF HomeRow
<1>4. item[i].text = t
  BY <1>1, <1>2 DEF Sure
<1>5. /\ \A j \in Item : HolderOK(j) /\ MadeOK(j)
      /\ \A p \in Person : home[p].link # i => TextSame(p)
  BY <1>1, <1>2, TidyRest
<1>6. \A p \in Person : TextSame(p)'
  BY <1>1, <1>3, <1>4, <1>5 DEF TextSame
<1>7. \A j \in Item : made[j] \in Person \cup {NoOne}
  BY DEF IInv, Ties, TypeOK
<1>8. \A j \in Item : HolderOK(j)' /\ MadeOK(j)'
  BY <1>1, <1>3, <1>5, <1>7 DEF HolderOK, MadeOK, There
<1>9. Settled'
  BY <1>6, <1>8 DEF Settled
<1> QED BY <1>2, <1>9, TidyReturn


LEMMA DropHomeTidy ==
    ASSUME IInv, orderly, NEW c \in Caller, DropHome(c)
    PROVE  Tidy'
<1> DEFINE i == call[c].item
<1>1. /\ call[c].at = "dropHome" /\ Goes(c, "dropItem") /\ "dropItem" \in Stages
      /\ UNCHANGED <<item, made>> /\ TypeOK
  BY DEF DropHome, Stages, IInv, Ties
<1>2. \A d \in Caller \ {c} : call[d].at = "idle" /\ call'[d].at = "idle"
  BY <1>1, TidyGoes
<1>3. Settled
  BY <1>1, <1>2, TidySettled
<1>4. call'[c].at = "dropItem" /\ call'[c].item = i
  BY <1>1, GoesFacts
<1>5. \A p \in Person : home'[p] = IF home[p].link = i THEN NoHome ELSE home[p]
  BY DEF DropHome
<1>6. \A p \in Person : TextSame(p)'
  BY <1>1, <1>3, <1>5, IdleHeld DEF Settled, TextSame
<1>7. \A j \in Item : made[j] \in Person \cup {NoOne}
  BY <1>1 DEF TypeOK
<1>8. MadeForOne'
  BY <1>1, <1>3, <1>4, <1>5, <1>7 DEF MadeForOne, Settled, MadeOK, There, Coming
<1>9. TextsAgree' /\ HolderSees'
  BY <1>1, <1>3, <1>6 DEF TextsAgree, TextSame, HolderSees, Settled, HolderOK
<1>10. Sure(call[c])'
  BY <1>4 DEF Sure, AtHome
<1> QED BY <1>2, <1>8, <1>9, <1>10, TidyOnWay

\* An event row goes, and no Home row is tied to it any more.
LEMMA GoneSettled ==
    ASSUME Ties, NEW i \in Item \cup {NoItem}, item' = Without(i), UNCHANGED made,
           \A j \in Item : j # i => HolderOK(j) /\ MadeOK(j),
           \A p \in Person : home'[p].link = NoItem \/ (home'[p] = home[p] /\ home[p].link # i),
           \A p \in Person : home'[p] # home[p] => home[p].link = i \/ home[p].link = NoItem,
           \A p \in Person : home[p].link # i => TextSame(p)
    PROVE  Settled'
<1>1. \A j \in Item : item'[j] = IF j = i THEN NoRow ELSE item[j]
  BY DEF Without
<1>2. NoRow.ev = NoEvent /\ NoRow.who = NoOne /\ NoRow.hidden = {}
  BY DEF NoRow
<1>3. \A p \in Person : home[p].link \in Item \cup {NoItem}
  BY DEF Ties, TypeOK, HomeRow
<1>4. \A p \in Person : TextSame(p)'
  BY <1>1, <1>3 DEF TextSame
<1>5. \A j \in Item : HolderOK(j)'
  BY <1>1, <1>2 DEF HolderOK
<1>6. \A j \in Item : made[j] \in Person \cup {NoOne} /\ j # NoItem
  BY NoneAssumption DEF Ties, TypeOK
<1>7. \A j \in Item : MadeOK(j)'
  BY <1>1, <1>2, <1>6 DEF MadeOK, There
<1> QED BY <1>4, <1>5, <1>7 DEF Settled

LEMMA DropItemTidy ==
    ASSUME IInv, orderly, NEW c \in Caller, DropItem(c)
    PROVE  Tidy'
<1> DEFINE i == call[c].item
<1>1. /\ call[c].at = "dropItem" /\ Goes(c, "idle") /\ "idle" \in Stages
      /\ Ties /\ i \in Item /\ UNCHANGED made
  BY DEF DropItem, Stages, IInv, Ties, HeldOK, AtItem
<1>2. /\ \A d \in Caller \ {c} : call[d].at = "idle"
      /\ \A d \in Caller : call'[d].at = "idle"
  BY <1>1, TidyGoes
<1>3. /\ \A j \in Item : HolderOK(j)
      /\ \A j \in Item : j # i => MadeOK(j)
      /\ \A p \in Person : TextSame(p)
  BY <1>1, <1>2, TidyRest
<1>4. item' = Without(i)
  BY <1>1 DEF DropItem, Without, Ties, TypeOK
<1>5. ASSUME NEW p \in Person
      PROVE  /\ home'[p].link = NoItem \/ (home'[p] = home[p] /\ home[p].link # i)
             /\ home'[p] # home[p] => home[p].link = i
  <2>1. home'[p] = IF home[p].link = i THEN [home[p] EXCEPT !.link = NoItem] ELSE home[p]
    BY DEF DropItem, Unlinked
  <2>2. home[p] \in HomeRow
    BY <1>1 DEF Ties, TypeOK
  <2> QED BY <2>1, <2>2 DEF HomeRow
<1>6. Settled'
  BY <1>1, <1>3, <1>4, <1>5, GoneSettled DEF Ties
<1> QED BY <1>2, <1>6, TidyReturn

\* A request on Home that nothing overlaps acts on the row as it is.
LEMMA AtHomeSure ==
    ASSUME IInv, orderly, NEW c \in Caller, call[c].at \in AtHome, Goes(c, "idle")
    PROVE  /\ call[c].by \in Person /\ call[c].row = home[call[c].by]
           /\ home[call[c].by] \in HomeRow
           /\ Settled /\ \A d \in Caller : call'[d].at = "idle"
           /\ \A q \in Person \ {call[c].by} :
                  home[call[c].by].link # NoItem => home[q].link # home[call[c].by].link
<1>1. "idle" \in Stages /\ call[c].at # "idle"
      /\ call[c].at \notin {"bare", "cover", "sync", "dropItem"}
  BY DEF Stages, AtHome
<1>2. /\ Sure(call[c]) /\ \A d \in Caller \ {c} : call[d].at = "idle"
      /\ \A d \in Caller : call'[d].at = "idle"
  BY <1>1, TidyGoes
<1>3. Settled
  BY <1>1, <1>2, TidySettled
<1>4. call[c].by \in Person /\ TypeOK /\ LinkAgrees /\ LinkedIsThere
  BY DEF IInv, Ties, HeldOK
<1>5. call[c].row = home[call[c].by]
  BY <1>2 DEF Sure
<1> QED BY <1>2, <1>3, <1>4, <1>5 DEF LinkAgrees, LinkedIsThere, TypeOK

LEMMA HomeDeleteTidy ==
    ASSUME IInv, orderly, NEW c \in Caller, HomeDelete(c)
    PROVE  Tidy'
<1> DEFINE p == call[c].by
           i == home[p].link
<1>1. call[c].at \in AtHome /\ Goes(c, "idle") /\ Ties
  BY DEF HomeDelete, AtHome, IInv
<1>2. /\ p \in Person /\ call[c].row = home[p] /\ i \in Item \cup {NoItem}
      /\ Settled /\ \A d \in Caller : call'[d].at = "idle"
      /\ \A q \in Person \ {p} : i # NoItem => home[q].link # i
  BY <1>1, AtHomeSure DEF HomeRow
<1>3. item' = Without(i) /\ UNCHANGED made /\ home' = [home EXCEPT ![p] = NoHome]
  BY <1>2 DEF HomeDelete
<1>4. /\ home'[p].link = NoItem
      /\ \A q \in Person \ {p} : home'[q] = home[q]
  BY <1>1, <1>2, <1>3, IdleHeld DEF Ties, TypeOK
<1>5. \A q \in Person : home'[q].link = NoItem \/ (home'[q] = home[q] /\ home[q].link # i)
  BY <1>2, <1>4
<1>6. \A q \in Person : home'[q] # home[q] => home[q].link = i
  BY <1>4
<1>7. Settled'
  BY <1>1, <1>2, <1>3, <1>5, <1>6, GoneSettled DEF Settled, Ties
<1> QED BY <1>2, <1>7, TidyReturn


LEMMA MoveTidy ==
    ASSUME IInv, orderly, NEW c \in Caller, Move(c)
    PROVE  Tidy'
<1> DEFINE p == call[c].by
           l == home[p].link
           e == NextEvent(c)
           t == NextText(c)
<1>1. call[c].at \in AtHome /\ Goes(c, "idle") /\ Ties
  BY DEF Move, AtHome, IInv
<1>2. /\ p \in Person /\ call[c].row = home[p] /\ l \in Item \cup {NoItem}
      /\ Settled /\ \A d \in Caller : call'[d].at = "idle"
      /\ \A q \in Person \ {p} : l # NoItem => home[q].link # l
  BY <1>1, AtHomeSure DEF HomeRow
<1>3. e \in Event \cup {NoEvent} /\ t \in Text \cup {NoText}
  BY <1>1, <1>2 DEF NextEvent, NextText, Ties, TypeOK, Held, HomeRow
<1> HIDE DEF e, t
<1>4. CASE e = NoEvent
  <2>1. /\ item' = Without(l) /\ UNCHANGED made
        /\ home' = [home EXCEPT ![p] = Tied(NoEvent, NoItem, t)]
    BY <1>2, <1>4, NoneAssumption DEF Move, e, t
  <2>2. Tied(NoEvent, NoItem, t).link = NoItem
    BY <1>3, TiedIs
  <2>3. /\ home'[p].link = NoItem /\ \A q \in Person \ {p} : home'[q] = home[q]
    BY <1>1, <1>2, <2>1, <2>2 DEF Ties, TypeOK
  <2>4. \A q \in Person : home'[q].link = NoItem \/ (home'[q] = home[q] /\ home[q].link # l)
    BY <1>2, <2>3
  <2>5. \A q \in Person : home'[q] # home[q] => home[q].link = l
    BY <2>3
  <2>6. Settled'
    BY <1>1, <1>2, <2>1, <2>4, <2>5, GoneSettled DEF Settled
  <2> QED BY <1>2, <2>6, TidyReturn
<1>5. CASE e # NoEvent
  <2>1. PICK i \in Fresh :
            /\ item' = [Without(l) EXCEPT ![i] = NewRow(e, t, NoOne)]
            /\ made' = [made EXCEPT ![i] = p]
            /\ home' = [home EXCEPT ![p] = Tied(e, i, t)]
    BY <1>2, <1>5 DEF Move, e, t
  <2>2. /\ Without(l) \in [Item -> ItemRow]
        /\ \A j \in Item :
              \/ Without(l)[j] = item[j] /\ j # l
              \/ Without(l)[j] = NoRow /\ \A q \in Person \ {p} : home[q].link # j
    <3>1. NoRow \in ItemRow
      BY DEF NoRow, ItemRow
    <3>2. \A j \in Item : j # NoItem
      BY NoneAssumption
    <3> QED BY <1>1, <1>2, <3>1, <3>2 DEF Without, Ties, TypeOK
  <2>3. e \in Event
    BY <1>3, <1>5
  <2>4. Settled'
    <3>1. i \in Item
      BY <1>1, FreshIsFree
    <3>2. /\ item'[i] = NewRow(e, t, NoOne)
          /\ \A j \in Item \ {i} : item'[j] = Without(l)[j]
      BY <2>1, <2>2, <3>1
    <3>3. \A j \in Item \ {i} :
              \/ item'[j] = item[j] /\ j # home[p].link
              \/ item'[j] = NoRow /\ \A q \in Person \ {p} : home[q].link # j
      BY <2>2, <3>2
    <3> HIDE DEF p
    <3> QED BY <1>1, <1>2, <1>3, <2>1, <2>3, <3>2, <3>3, TieSettled
  <2> QED BY <1>2, <2>4, TidyReturn
<1> QED BY <1>4, <1>5

LEMMA StayTidy ==
    ASSUME IInv, orderly, NEW c \in Caller, Stay(c)
    PROVE  Tidy'
<1> DEFINE p == call[c].by
           l == home[p].link
           t == NextText(c)
<1>1. call[c].at \in AtHome /\ Goes(c, "idle") /\ Ties /\ TypeOK
  BY DEF Stay, AtHome, IInv, Ties
<1>2. /\ p \in Person /\ call[c].row = home[p] /\ l \in Item \cup {NoItem} /\ home[p] \in HomeRow
      /\ Settled /\ \A d \in Caller : call'[d].at = "idle"
      /\ \A q \in Person \ {p} : l # NoItem => home[q].link # l
  BY <1>1, AtHomeSure DEF HomeRow
<1>3. l # NoItem => /\ home[p].ev # NoEvent /\ l \in Item
  BY <1>1, <1>2 DEF Ties, LinkAgrees, LinkedIsThere, There
<1> HIDE DEF t
<1>4. \A a \in BOOLEAN : /\ Again(p, home[p], t, a).link = l /\ Again(p, home[p], t, a).text = t
                         /\ Again(p, home[p], t, a).apart = a
  BY <1>2 DEF Again, HomeRow
<1>5. PICK a \in BOOLEAN :
          /\ home' = [home EXCEPT ![p] = Again(p, home[p], t, a)]
          /\ \/ UNCHANGED item /\ (l = NoItem \/ a)
             \/ l # NoItem /\ item' = [item EXCEPT ![l].text = t]
  <2>1. home[p].apart \in BOOLEAN
    BY <1>2 DEF HomeRow
  <2> QED BY <1>2, <1>3, <2>1 DEF Stay, t
<1>6. UNCHANGED made
  BY DEF Stay
<1>7. /\ home'[p].link = l /\ home'[p].text = t /\ home'[p].apart = a
      /\ \A q \in Person \ {p} : home'[q] = home[q]
  BY <1>1, <1>2, <1>4, <1>5 DEF TypeOK
<1>8. /\ \A j \in Item : item'[j].ev = item[j].ev /\ item'[j].who = item[j].who
                         /\ item'[j].hidden = item[j].hidden
      /\ \A j \in Item : j # l => item'[j].text = item[j].text
      /\ l # NoItem /\ ~a => item'[l].text = t
  <2>1. CASE UNCHANGED item /\ (l = NoItem \/ a)
    BY <2>1
  <2>2. CASE l # NoItem /\ item' = [item EXCEPT ![l].text = t]
    <3>1. item[l] \in ItemRow /\ l \in Item
      BY <1>1, <1>3, <2>2 DEF TypeOK
    <3>2. item'[l] = [item[l] EXCEPT !.text = t] /\ \A j \in Item : j # l => item'[j] = item[j]
      BY <1>1, <2>2, <3>1 DEF TypeOK
    <3> QED BY <3>1, <3>2 DEF ItemRow
  <2> QED BY <1>5, <2>1, <2>2
<1>9. \A q \in Person : home[q].link \in Item \cup {NoItem}
  BY <1>1 DEF TypeOK, HomeRow
<1>10. \A q \in Person : TextSame(q)'
  BY <1>2, <1>7, <1>8, <1>9 DEF Settled, TextSame
<1>11. \A j \in Item : HolderOK(j)'
  BY <1>2, <1>8 DEF Settled, HolderOK
<1>12. \A j \in Item : made[j] \in Person \cup {NoOne}
  BY <1>1 DEF TypeOK
<1>13. \A j \in Item : MadeOK(j)'
  BY <1>2, <1>6, <1>7, <1>8, <1>12 DEF Settled, MadeOK, There
<1>14. Settled'
  BY <1>10, <1>11, <1>13 DEF Settled
<1> QED BY <1>2, <1>14, TidyReturn

---------------------------------------------------------------------------
(* What follows *)

LEMMA TidyInit == Init => Tidy
BY DEF Init, Tidy, Alone, Sure, TextsAgree, HolderSees, MadeForOne, Idle, NoHome, NoRow, AtHome

LEMMA TidyNext ==
    ASSUME IInv, [Next]_vars
    PROVE  Tidy'
<1> SUFFICES ASSUME orderly' PROVE Tidy'
  BY DEF Tidy
<1>1. CASE UNCHANGED vars
  BY <1>1 DEF vars, IInv, Tidy, Alone, Sure, TextsAgree, HolderSees, MadeForOne, Coming, MayHold,
     HiddenThen, There
<1>2. ASSUME NEW c \in Caller, Asks(c) PROVE Tidy'
  <2>1. PICK p \in Person :
          \/ \E e \in Event, t \in Text, w \in Person \cup {NoOne} : AddItem(c, p, e, t, w)
          \/ \E e \in Event \cup {NoEvent}, t \in Text : CreateHome(c, p, e, t)
          \/ \E e \in Event : ImportRead(c, p, e)
          \/ \E i \in Item, t \in Text \cup {NoText}, w \in Person \cup {NoOne, Keep},
                hides \in BOOLEAN, hidden \in SUBSET Member :
                PatchCheck(c, p, i, t, w, hides, hidden)
          \/ \E i \in Item : DeleteCheck(c, p, i)
          \/ \E e \in Event \cup {NoEvent, Keep}, t \in Text \cup {NoText} : HomeRead(c, p, e, t)
          \/ HomeDeleteRead(c, p)
    <3>1. FALSE \in BOOLEAN /\ TRUE \in BOOLEAN /\ {} \in SUBSET Member
      OBVIOUS
    <3> QED BY <1>2, <3>1, ZenonT(60) DEF Asks
  <2> QED BY <2>1, AddTidy, CreateHomeTidy, BeginTidy
<1>3. ASSUME NEW c \in Caller, GoesOn(c) PROVE Tidy'
  <2>1. ~Cut(c)
    BY DEF Cut
  <2>2. orderly
    BY <1>3, <2>1 DEF GoesOn, ImportCreate, PatchItem, Uncover, Cover, Sync, DropHome, DropItem,
       Move, Stay, HomeDelete, Goes
  <2> QED BY <1>3, <2>1, <2>2, ImportCreateTidy, PatchItemTidy, CoverTidy, SyncTidy, DropHomeTidy,
             DropItemTidy, MoveTidy, StayTidy, HomeDeleteTidy DEF GoesOn
<1> QED BY <1>1, <1>2, <1>3 DEF Next

\* As long as no two requests overlapped and none was cut off, only the request in hand
\* keeps rows apart, and it is about to make them agree.
THEOREM ChecklistInvariant == Spec => []IInv
<1>1. Init => IInv
  BY TiesInit, TidyInit DEF IInv
<1>2. IInv /\ [Next]_vars => IInv'
  BY TiesNext, TidyNext DEF IInv
<1> QED BY <1>1, <1>2, PTL DEF Spec

LEMMA QuietSettled ==
    ASSUME IInv, Quiet
    PROVE  Settled
BY DEF IInv, Tidy, Quiet, Settled, TextSame, HolderOK, MadeOK, TextsAgree, HolderSees, MadeForOne,
   Coming

\* While no requests overlapped and none was cut off, a Home row says between requests
\* what its event row says, whichever of the two was edited (updateChecklistItem(), updateChecklist()).
THEOREM TextsStayInStep == Spec => []InStep
<1>1. IInv => InStep
  BY QuietSettled DEF InStep, Settled, TextSame
<1> QED BY <1>1, ChecklistInvariant, PTL

\* Nor, between such requests, is a row given to a member it is hidden from
\* (assertAssignee(), replaceConcealments()).
THEOREM HoldersSeeTheirRows == Spec => []NotHiddenFromAssignee
<1>1. IInv => NotHiddenFromAssignee
  BY QuietSettled DEF NotHiddenFromAssignee, Settled, HolderOK
<1> QED BY <1>1, ChecklistInvariant, PTL

\* And moving and deleting Home rows by such requests leave no event row behind.
THEOREM NothingLeftBehind == Spec => []NoRowLeftBehind
<1>1. IInv => NoRowLeftBehind
  BY QuietSettled DEF NoRowLeftBehind, Settled, MadeOK
<1> QED BY <1>1, ChecklistInvariant, PTL
---------------------------------------------------------------------------
(* Checklist implements HomeTies, however requests overlap                 *)

TiesStep == Home!Next \/ UNCHANGED Home!ties

RowEvents == [i \in Item |-> item[i].ev]
Entries   == [p \in Person |-> Ends(home[p])]
SeenBy    == [p \in Person |-> Seen(p)]

LEMMA EndsAre ==
    /\ \A row \in HomeRow : Ends(row) \in Home!Entry
    /\ \A row : /\ Ends(row).there = row.there /\ Ends(row).ev = row.ev
                /\ Ends(row).link = row.link
    /\ Ends(NoHome) = Home!None
    /\ \A e, i, t : Ends(Tied(e, i, t)) = Home!Tied(e, i)
BY DEF Ends, HomeRow, NoHome, Tied, Home!Entry, Home!None, Home!Tied

\* What a request holds is among what its person's requests hold.
LEMMA HeldIsSeen ==
    ASSUME Ties, NEW c \in Caller, call[c].at \in AtHome
    PROVE  /\ call[c].by \in Person /\ call[c].row \in HomeRow /\ call[c].row.there
           /\ Ends(call[c].row) \in Seen(call[c].by)
<1>1. call[c].by \in Person /\ call[c].row \in HomeRow /\ call[c].row.there
  BY WithoutTies
<1> QED BY <1>1 DEF Seen

\* No request takes up a Home row, and none lets go of one.
LEMMA SeenStays ==
    ASSUME \A d \in Caller : \/ call'[d].row = call[d].row /\ call'[d].by = call[d].by
                             \/ call'[d].row = NoHome /\ call[d].row = NoHome
    PROVE  SeenBy' = SeenBy
<1>1. ASSUME NEW p \in Person PROVE Seen(p)' = Seen(p)
  <2>1. \A d \in Caller : call'[d].row = call[d].row
    OBVIOUS
  <2>2. \A d \in Caller : call[d].row.there => call'[d].by = call[d].by
    BY IdleHeld
  <2> QED BY <2>1, <2>2 DEF Seen
<1> QED BY <1>1 DEF SeenBy

LEMMA SeenShrinks ==
    ASSUME call' \in [Caller -> Held], RowsKept
    PROVE  /\ SeenBy' \in [Person -> SUBSET Home!Entry]
           /\ \A p \in Person : SeenBy'[p] \subseteq SeenBy[p]
<1>1. ASSUME NEW p \in Person PROVE Seen(p)' \in SUBSET Home!Entry /\ Seen(p)' \subseteq Seen(p)
  <2> SUFFICES ASSUME NEW x \in Seen(p)' PROVE x \in Home!Entry /\ x \in Seen(p)
    OBVIOUS
  <2>1. PICK d \in Caller : call'[d].row.there /\ call'[d].by = p /\ x = Ends(call'[d].row)
    BY DEF Seen
  <2>2. call'[d].row \in HomeRow
    BY DEF Held
  <2>3. call'[d].row # NoHome
    BY <2>1, IdleHeld
  <2>4. call'[d].row = call[d].row /\ call'[d].by = call[d].by
    BY <2>3 DEF RowsKept
  <2> QED BY <2>1, <2>2, <2>4, EndsAre DEF Seen
<1> QED BY <1>1 DEF SeenBy

\* A request that begins or goes on elsewhere than at Home holds no Home row.
LEMMA BeginSeen ==
    ASSUME Ties, NEW c \in Caller, NEW held \in Held, Begin(c, held), held.row = NoHome
    PROVE  SeenBy' = SeenBy
<1>1. /\ call[c].at = "idle" /\ call'[c] = held
      /\ \A d \in Caller \ {c} : call'[d] = call[d]
  BY BeginFacts DEF Ties
<1>2. call[c].row = NoHome
  BY <1>1 DEF Ties, HeldOK, AtHome
<1> QED BY <1>1, <1>2, SeenStays

LEMMA GoesSeen ==
    ASSUME Ties, NEW c \in Caller, NEW at \in {"idle"} \cup AtItem, Goes(c, at),
           call[c].at \notin AtHome
    PROVE  SeenBy' = SeenBy
<1>1. at \in Stages
  BY DEF Stages, AtItem
<1>2. call[c].row = NoHome
  BY DEF Ties, HeldOK
<1>3. call'[c].row = NoHome /\ \A d \in Caller \ {c} : call'[d] = call[d]
  BY <1>1, <1>2, GoesFacts, IdleHeld DEF Ties
<1> QED BY <1>2, <1>3, SeenStays

LEMMA FreshIsUnused ==
    ASSUME Ties, NEW i \in Fresh
    PROVE  i \in Item /\ Home!Free(i)
<1>1. i \in Item /\ item[i].ev = NoEvent /\ \A c \in Caller : call[c].row.link # i
  BY FreshIsFree DEF There
<1>2. \A p \in Person : \A x \in Seen(p) : x.link # i
  BY <1>1, EndsAre DEF Seen
<1> QED BY <1>1, <1>2 DEF Home!Free

\* A step that leaves the events of rows and the ends of ties alone.
LEMMA NothingMoves ==
    ASSUME SeenBy' = SeenBy, RowEvents' = RowEvents, Entries' = Entries
    PROVE  TiesStep
BY DEF TiesStep, Home!ties, SeenBy, RowEvents, Entries

\* A request on the page of an event adds a row.
LEMMA AddIsTies ==
    ASSUME Ties, SeenBy' = SeenBy, UNCHANGED home, NEW i \in Fresh, NEW e \in Event, NEW t, NEW w,
           item' = [item EXCEPT ![i] = NewRow(e, t, w)]
    PROVE  TiesStep
<1>1. i \in Item /\ Home!Free(i)
  BY FreshIsUnused
<1>2. RowEvents' = [RowEvents EXCEPT ![i] = e]
  BY <1>1 DEF RowEvents, NewRow, Ties, TypeOK
<1>3. Home!Add(i, e)
  BY <1>1, <1>2 DEF Home!Add, RowEvents, SeenBy
<1> QED BY <1>1, <1>3 DEF TiesStep, Home!Next

\* The steps of HomeTies are steps of HomeTies.
LEMMA StepsAre ==
    /\ \A i \in Item : Home!Clear(i) \/ Home!Drop(i) => TiesStep
    /\ \A p \in Person : \A x \in Seen(p) :
          Home!Move(p, x) \/ Home!Rewrite(p, x) \/ Home!End(p, x) => TiesStep
<1>1. ASSUME NEW i \in Item, Home!Clear(i) \/ Home!Drop(i) PROVE TiesStep
  <2>1. Home!Next
    BY <1>1, Zenon DEF Home!Next
  <2> QED BY <2>1 DEF TiesStep
<1>2. ASSUME NEW p \in Person, NEW x \in Seen(p),
             Home!Move(p, x) \/ Home!Rewrite(p, x) \/ Home!End(p, x)
      PROVE  TiesStep
  <2>1. [q \in Person |-> Seen(q)][p] = Seen(p)
    OBVIOUS
  <2>2. \E y \in [q \in Person |-> Seen(q)][p] :
            Home!Move(p, y) \/ Home!Rewrite(p, y) \/ Home!End(p, y)
    BY <1>2, <2>1, Zenon
  <2>3. Home!Next
    BY <2>2, Zenon DEF Home!Next
  <2> QED BY <2>3 DEF TiesStep
<1> QED BY <1>1, <1>2

LEMMA PageIsTies ==
    ASSUME Ties, NEW c \in Caller,
           \/ \E p \in Person, e \in Event, t \in Text, w \in Person \cup {NoOne} :
                  AddItem(c, p, e, t, w)
           \/ \E p \in Person, e \in Event : ImportRead(c, p, e)
           \/ ImportCreate(c)
    PROVE  TiesStep
<1>1. ASSUME NEW p \in Person, NEW e \in Event, NEW t \in Text, NEW w \in Person \cup {NoOne},
             AddItem(c, p, e, t, w)
      PROVE  TiesStep
  <2>1. SeenBy' = SeenBy
    BY <1>1, BeginSeen, IdleHeld DEF AddItem
  <2> QED BY <1>1, <2>1, AddIsTies DEF AddItem
<1>2. ASSUME NEW p \in Person, NEW e \in Event, ImportRead(c, p, e) PROVE TiesStep
  <2> DEFINE h == [Idle EXCEPT !.at = "import", !.by = p, !.ev = e, !.seen = TitlesFor(p, e)]
  <2>1. TitlesFor(p, e) \in SUBSET (Text \cup {NoText})
    BY DEF TitlesFor, Ties, TypeOK, ItemRow
  <2>2. h \in Held /\ h.row = NoHome
    BY <2>1, IdleHeld DEF Idle, Held, Stages
  <2>3. Begin(c, h) /\ UNCHANGED <<item, home>>
    BY <1>2 DEF ImportRead
  <2> HIDE DEF h
  <2>4. SeenBy' = SeenBy
    BY <2>2, <2>3, BeginSeen
  <2> QED BY <2>3, <2>4, NothingMoves DEF RowEvents, Entries
<1>3. CASE ImportCreate(c)
  <2>1. call[c].at \notin AtHome /\ call[c].ev \in Event
    BY <1>3 DEF ImportCreate, AtHome, Ties, HeldOK
  <2>2. SeenBy' = SeenBy
    BY <1>3, <2>1, GoesSeen DEF ImportCreate
  <2>3. CASE UNCHANGED item
    BY <1>3, <2>2, <2>3, NothingMoves DEF ImportCreate, RowEvents, Entries
  <2>4. ASSUME NEW i \in Fresh, NEW t \in Text \ call[c].seen,
               item' = [item EXCEPT ![i] = NewRow(call[c].ev, t, NoOne)]
        PROVE  TiesStep
    BY <1>3, <2>1, <2>2, <2>4, AddIsTies DEF ImportCreate
  <2> QED BY <1>3, <2>3, <2>4 DEF ImportCreate
<1> QED BY <1>1, <1>2, <1>3

\* What is asked for on the page of an event, until the row is touched.
LEMMA CheckIsTies ==
    ASSUME Ties, NEW c \in Caller, NEW p \in Person, NEW i \in Item,
           NEW t \in Text \cup {NoText}, NEW w \in Person \cup {NoOne, Keep},
           NEW hides \in BOOLEAN, NEW hidden \in SUBSET Member,
           PatchCheck(c, p, i, t, w, hides, hidden) \/ DeleteCheck(c, p, i)
    PROVE  TiesStep
<1>1. ASSUME NEW h \in Held, Begin(c, h), h.row = NoHome, UNCHANGED <<item, home>>
      PROVE  TiesStep
  <2>1. SeenBy' = SeenBy
    BY <1>1, BeginSeen
  <2> QED BY <1>1, <2>1, NothingMoves DEF RowEvents, Entries
<1>2. CASE PatchCheck(c, p, i, t, w, hides, hidden)
  <2> DEFINE h == [Idle EXCEPT !.at = "patch", !.by = p, !.item = i, !.text = t, !.who = w,
                               !.hides = hides, !.hidden = hidden]
  <2>1. h \in Held /\ h.row = NoHome
    BY IdleHeld DEF Idle, Held, Stages
  <2>2. Begin(c, h) /\ UNCHANGED <<item, home>>
    BY <1>2 DEF PatchCheck
  <2> HIDE DEF h
  <2> QED BY <1>1, <2>1, <2>2
<1>3. CASE DeleteCheck(c, p, i)
  <2> DEFINE h == [Idle EXCEPT !.at = "dropHome", !.by = p, !.item = i]
  <2>1. h \in Held /\ h.row = NoHome
    BY IdleHeld DEF Idle, Held, Stages
  <2>2. Begin(c, h) /\ UNCHANGED <<item, home>>
    BY <1>3 DEF DeleteCheck
  <2> HIDE DEF h
  <2> QED BY <1>1, <2>1, <2>2
<1> QED BY <1>2, <1>3

\* Texts, holders and who a row is hidden from: nothing of this is in a tie.
LEMMA PatchIsTies ==
    ASSUME Ties, NEW c \in Caller, PatchItem(c) \/ Uncover(c) \/ Cover(c) \/ Sync(c)
    PROVE  TiesStep
<1>1. call[c].at \notin AtHome
  <2>1. call[c].at \in {"patch", "bare", "cover", "sync"}
    BY Zenon DEF PatchItem, Uncover, Cover, Sync
  <2> QED BY <2>1 DEF AtHome
<1>2. PICK at \in {"idle"} \cup AtItem : Goes(c, at)
  <2>1. AfterPatch(c) \in {"idle", "sync"}
    BY DEF AfterPatch
  <2> QED BY <2>1 DEF PatchItem, Uncover, Cover, Sync, AtItem
<1>3. SeenBy' = SeenBy
  BY <1>1, <1>2, GoesSeen
<1>4. CASE PatchItem(c) \/ Uncover(c) \/ Cover(c)
  <2>1. RowEvents' = RowEvents
    BY <1>4, PatchKeepsEvents DEF RowEvents
  <2>2. Entries' = Entries
    BY <1>4 DEF PatchItem, Uncover, Cover, Entries
  <2> QED BY <1>3, <2>1, <2>2, NothingMoves
<1>5. CASE Sync(c)
  <2>1. \A p \in Person : Ends(home[p])' = Ends(home[p])
    BY <1>5, SyncKeepsEnds DEF Ends
  <2>2. Entries' = Entries
    BY <2>1 DEF Entries
  <2>3. RowEvents' = RowEvents
    BY <1>5 DEF Sync, RowEvents
  <2> QED BY <1>3, <2>2, <2>3, NothingMoves
<1> QED BY <1>4, <1>5

LEMMA DropIsTies ==
    ASSUME Ties, NEW c \in Caller, DropHome(c) \/ DropItem(c)
    PROVE  TiesStep
<1>0. call[c].at \notin AtHome /\ call[c].item \in Item
  BY DEF DropHome, DropItem, Ties, HeldOK, AtHome, AtItem
<1>1. PICK i \in Item : i = call[c].item
  BY <1>0
<1>2. PICK at \in {"idle"} \cup AtItem : Goes(c, at)
  BY DEF DropHome, DropItem, AtItem
<1>3. SeenBy' = SeenBy
  BY <1>0, <1>2, GoesSeen
<1>4. CASE DropHome(c)
  <2>1. Entries' = [p \in Person |-> IF Entries[p].link = i THEN Home!None ELSE Entries[p]]
    BY <1>1, <1>4, EndsAre DEF DropHome, Entries
  <2>2. RowEvents' = RowEvents
    BY <1>4 DEF DropHome, RowEvents
  <2>3. Home!Clear(i)
    BY <1>3, <2>1, <2>2 DEF Home!Clear, Entries, RowEvents, SeenBy
  <2> QED BY <2>3, StepsAre
<1>5. CASE DropItem(c)
  <2>1. ASSUME NEW p \in Person
        PROVE  Ends(home[p])' = IF Ends(home[p]).link = i
                                THEN [Ends(home[p]) EXCEPT !.link = NoItem] ELSE Ends(home[p])
    <3>1. home[p] \in HomeRow
      BY DEF Ties, TypeOK
    <3>2. home'[p] = IF home[p].link = i THEN [home[p] EXCEPT !.link = NoItem] ELSE home[p]
      BY <1>1, <1>5 DEF DropItem, Unlinked
    <3> QED BY <3>1, <3>2 DEF Ends, HomeRow
  <2>2. Entries' = [p \in Person |-> IF Entries[p].link = i
                                     THEN [Entries[p] EXCEPT !.link = NoItem] ELSE Entries[p]]
    BY <2>1 DEF Entries
  <2>3. item' = [item EXCEPT ![i] = NoRow]
    BY <1>1, <1>5 DEF DropItem
  <2>4. RowEvents' = [j \in Item |-> IF j = i THEN NoEvent ELSE RowEvents[j]]
    BY <2>3 DEF RowEvents, NoRow, Ties, TypeOK
  <2>5. Home!Drop(i)
    BY <1>3, <2>2, <2>4 DEF Home!Drop, Home!Without, Entries, RowEvents, SeenBy
  <2> QED BY <2>5, StepsAre
<1> QED BY <1>4, <1>5

\* Anything done at Home lets go of the row that was read, or of nothing.
LEMMA HomeForgets ==
    ASSUME Ties, NEW c \in Caller, Goes(c, "idle"), call[c].at \in AtHome
    PROVE  /\ SeenBy' \in [Person -> SUBSET Home!Entry]
           /\ \A p \in Person : SeenBy'[p] \subseteq SeenBy[p]
<1>1. call' \in [Caller -> Held] /\ RowsKept
  BY GoesTypes, GoesHeld
<1> QED BY <1>1, SeenShrinks

LEMMA CutIsTies ==
    ASSUME Ties, NEW c \in Caller, Cut(c)
    PROVE  TiesStep
<1>1. /\ call' \in [Caller -> Held] /\ call'[c] = Idle
      /\ \A d \in Caller \ {c} : call'[d] = call[d]
  BY IdleHeld DEF Ties, TypeOK, Cut
<1>2. RowsKept
  BY <1>1, IdleHeld DEF RowsKept, Ties
<1>3. /\ SeenBy' \in [Person -> SUBSET Home!Entry]
      /\ \A p \in Person : SeenBy'[p] \subseteq SeenBy[p]
  BY <1>1, <1>2, SeenShrinks
<1>4. RowEvents' = RowEvents /\ Entries' = Entries
  BY DEF Cut, RowEvents, Entries
<1>5. Home!Forget
  BY <1>3, <1>4 DEF Home!Forget, Home!Forgets, SeenBy, RowEvents, Entries
<1> QED BY <1>5 DEF TiesStep, Home!Next

\* Writing over the row a person has.
LEMMA EntryBecomes ==
    ASSUME Ties, NEW p \in Person, NEW row, home' = [home EXCEPT ![p] = row]
    PROVE  Entries' = [Entries EXCEPT ![p] = Ends(row)]
BY DEF Entries, Ties, TypeOK

LEMMA EntryTied ==
    ASSUME Ties, NEW p \in Person, NEW e, NEW i, NEW t, home' = [home EXCEPT ![p] = Tied(e, i, t)]
    PROVE  Entries' = [Entries EXCEPT ![p] = Home!Tied(e, i)]
<1>1. Entries' = [Entries EXCEPT ![p] = Ends(Tied(e, i, t))]
  BY EntryBecomes
<1>2. Ends(Tied(e, i, t)) = Home!Tied(e, i)
  BY EndsAre
<1> QED BY <1>1, <1>2

\* A request on Home that is new has no copy, and one that looks takes one.
LEMMA LookIsTies ==
    ASSUME Ties, NEW c \in Caller, NEW p \in Person, NEW e \in Event \cup {NoEvent, Keep},
           NEW t \in Text \cup {NoText}, HomeRead(c, p, e, t) \/ HomeDeleteRead(c, p)
    PROVE  TiesStep
<1>0. home[p] \in HomeRow
  BY DEF Ties, TypeOK
<1>1. ASSUME NEW h \in Held, h.row = home[p], h.by = p, home[p].there, Begin(c, h),
             UNCHANGED <<item, home>>
      PROVE  TiesStep
  <2>1. /\ call[c].at = "idle" /\ call'[c] = h
        /\ \A d \in Caller \ {c} : call'[d] = call[d]
    BY <1>1, BeginFacts DEF Ties
  <2>2. ~call[c].row.there
    BY <2>1, IdleHeld DEF Ties, HeldOK, AtHome
  <2>3. ASSUME NEW q \in Person
        PROVE  Seen(q)' = IF q = p THEN Seen(p) \cup {Ends(home[p])} ELSE Seen(q)
    BY <1>1, <2>1, <2>2 DEF Seen
  <2>4. SeenBy' = [SeenBy EXCEPT ![p] = Seen(p) \cup {Entries[p]}]
    BY <2>3 DEF SeenBy, Entries
  <2>5. Entries[p].there
    BY <1>1, EndsAre DEF Entries
  <2>6. Home!Look(p)
    BY <1>1, <2>4, <2>5 DEF Home!Look, SeenBy, Entries, RowEvents
  <2> QED BY <2>6 DEF TiesStep, Home!Next
<1>2. CASE HomeRead(c, p, e, t)
  <2> DEFINE h == [Idle EXCEPT !.at = "homeWrite", !.by = p, !.ev = e, !.text = t, !.row = home[p]]
  <2>1. home[p].there /\ Begin(c, h) /\ UNCHANGED <<item, home>>
    BY <1>2 DEF HomeRead
  <2>2. h \in Held /\ h.row = home[p] /\ h.by = p
    BY <1>0, IdleHeld DEF Idle, Held, Stages
  <2> HIDE DEF h
  <2> QED BY <1>1, <2>1, <2>2
<1>3. CASE HomeDeleteRead(c, p)
  <2> DEFINE h == [Idle EXCEPT !.at = "homeDelete", !.by = p, !.row = home[p]]
  <2>1. home[p].there /\ Begin(c, h) /\ UNCHANGED <<item, home>>
    BY <1>3 DEF HomeDeleteRead
  <2>2. h \in Held /\ h.row = home[p] /\ h.by = p
    BY <1>0, IdleHeld DEF Idle, Held, Stages
  <2> HIDE DEF h
  <2> QED BY <1>1, <2>1, <2>2
<1> QED BY <1>2, <1>3

LEMMA CreateIsTies ==
    ASSUME Ties, NEW c \in Caller, NEW p \in Person, NEW e \in Event \cup {NoEvent},
           NEW t \in Text, CreateHome(c, p, e, t)
    PROVE  TiesStep
<1>1. SeenBy' = SeenBy
  BY BeginSeen, IdleHeld DEF CreateHome
<1>2. ~Entries[p].there /\ SeenBy[p] = {}
  BY EndsAre DEF CreateHome, Entries, SeenBy, Seen
<1>3. CASE e = NoEvent
  <2>1. home' = [home EXCEPT ![p] = Tied(NoEvent, NoItem, t)] /\ UNCHANGED item
    BY <1>3 DEF CreateHome
  <2>2. Entries' = [Entries EXCEPT ![p] = Home!Tied(NoEvent, NoItem)]
    BY <2>1, EntryTied
  <2>3. RowEvents' = [j \in Item |-> IF j = NoItem THEN NoEvent ELSE RowEvents[j]]
    BY <2>1, NoneAssumption DEF RowEvents
  <2>4. Home!Place(p, NoItem)
    BY <2>2, <2>3 DEF Home!Place, Home!Becomes, Home!Without, Entries, RowEvents
  <2>5. Home!Open(p)
    BY <1>1, <1>2, <2>4 DEF Home!Open, Entries, SeenBy
  <2> QED BY <2>5 DEF TiesStep, Home!Next
<1>4. CASE e # NoEvent
  <2>1. PICK i \in Fresh : /\ item' = [item EXCEPT ![i] = NewRow(e, t, NoOne)]
                           /\ home' = [home EXCEPT ![p] = Tied(e, i, t)]
    BY <1>4 DEF CreateHome
  <2>2. i \in Item /\ Home!Free(i) /\ e \in Event
    BY <1>4, FreshIsUnused
  <2>3. Entries' = [Entries EXCEPT ![p] = Home!Tied(e, i)]
    BY <2>1, EntryTied
  <2>4. RowEvents' = [[j \in Item |-> IF j = NoItem THEN NoEvent ELSE RowEvents[j]] EXCEPT ![i] = e]
    BY <2>1, <2>2, NoneAssumption DEF RowEvents, NewRow, Ties, TypeOK
  <2>5. Home!Place(p, NoItem)
    BY <2>2, <2>3, <2>4 DEF Home!Place, Home!Becomes, Home!Without, Entries, RowEvents
  <2>6. Home!Open(p)
    BY <1>1, <1>2, <2>5 DEF Home!Open, Entries, SeenBy
  <2> QED BY <2>6 DEF TiesStep, Home!Next
<1> QED BY <1>3, <1>4

\* The event row of the copy goes.
LEMMA WithoutIs ==
    ASSUME Ties, NEW l
    PROVE  [j \in Item |-> Without(l)[j].ev] = [j \in Item |-> IF j = l THEN NoEvent ELSE RowEvents[j]]
BY DEF Without, NoRow, RowEvents

LEMMA EndIsTies ==
    ASSUME Ties, NEW c \in Caller, HomeDelete(c)
    PROVE  TiesStep
<1>1. Goes(c, "idle") /\ call[c].at \in AtHome
  BY DEF HomeDelete, AtHome
<1>0. PICK p \in Person : p = call[c].by
  BY <1>1, HeldIsSeen
<1>2. PICK x \in Seen(p) : p = call[c].by /\ x = Ends(call[c].row)
  BY <1>0, <1>1, HeldIsSeen
<1>3. Entries[p].there
  BY <1>2, EndsAre DEF HomeDelete, Entries
<1>4. Entries' = [Entries EXCEPT ![p] = Home!None]
  <2>1. home' = [home EXCEPT ![p] = NoHome]
    BY <1>2 DEF HomeDelete
  <2> QED BY <2>1, EntryBecomes, EndsAre
<1>5. RowEvents' = [j \in Item |-> IF j = x.link THEN NoEvent ELSE RowEvents[j]]
  <2>1. item' = Without(x.link)
    BY <1>2, EndsAre DEF HomeDelete
  <2> QED BY <2>1, WithoutIs DEF RowEvents
<1>6. Home!End(p, x)
  BY <1>1, <1>3, <1>4, <1>5, HomeForgets
     DEF Home!End, Home!Without, Home!Becomes, Home!Forgets, Entries, RowEvents, SeenBy
<1> QED BY <1>6, StepsAre

LEMMA MoveIsTies ==
    ASSUME Ties, NEW c \in Caller, Move(c)
    PROVE  TiesStep
<1>1. Goes(c, "idle") /\ call[c].at \in AtHome
  BY DEF Move, AtHome
<1>0. PICK p \in Person : p = call[c].by
  BY <1>1, HeldIsSeen
<1>2. PICK x \in Seen(p) : p = call[c].by /\ x = Ends(call[c].row)
  BY <1>0, <1>1, HeldIsSeen
<1> DEFINE t == NextText(c)
<1>3. PICK e \in Event \cup {NoEvent} : e = NextEvent(c)
  <2>1. call[c].row \in HomeRow /\ call[c] \in Held
    BY <1>1, HeldIsSeen DEF Ties, TypeOK
  <2> QED BY <2>1 DEF NextEvent, Held, HomeRow
<1>4. e # x.ev /\ x.link = call[c].row.link /\ Entries[p].there
  BY <1>2, <1>3, EndsAre DEF Move, Entries
<1>5. CASE e = NoEvent
  <2>1. item' = Without(x.link) /\ home' = [home EXCEPT ![p] = Tied(NoEvent, NoItem, t)]
    BY <1>2, <1>3, <1>4, <1>5 DEF Move
  <2>2. Entries' = [Entries EXCEPT ![p] = Home!Tied(NoEvent, NoItem)]
    BY <2>1, EntryTied
  <2>3. RowEvents' = [j \in Item |-> IF j = x.link THEN NoEvent ELSE RowEvents[j]]
    BY <2>1, WithoutIs DEF RowEvents
  <2>4. Entries'[p].ev = e
    BY <1>5, <2>2 DEF Home!Tied, Entries
  <2>5. Home!Place(p, x.link)
    BY <2>2, <2>3 DEF Home!Place, Home!Becomes, Home!Without, Entries, RowEvents
  <2>6. Home!Move(p, x)
    BY <1>1, <1>4, <2>4, <2>5, HomeForgets DEF Home!Move, Home!Forgets, Entries, SeenBy
  <2> QED BY <2>6, StepsAre
<1>6. CASE e # NoEvent
  <2>1. PICK i \in Fresh :
            /\ item' = [Without(x.link) EXCEPT ![i] = NewRow(e, t, NoOne)]
            /\ home' = [home EXCEPT ![p] = Tied(e, i, t)]
    BY <1>2, <1>3, <1>4, <1>6 DEF Move
  <2>2. i \in Item /\ Home!Free(i) /\ e \in Event
    BY <1>6, FreshIsUnused
  <2>3. Entries' = [Entries EXCEPT ![p] = Home!Tied(e, i)]
    BY <2>1, EntryTied
  <2>4. RowEvents' = [[j \in Item |-> IF j = x.link THEN NoEvent ELSE RowEvents[j]] EXCEPT ![i] = e]
    <3> DEFINE W == Without(x.link)
    <3>1. DOMAIN W = Item /\ NewRow(e, t, NoOne).ev = e
      BY DEF Without, NewRow
    <3>2. [j \in Item |-> W[j].ev] = [j \in Item |-> IF j = x.link THEN NoEvent ELSE RowEvents[j]]
      BY WithoutIs
    <3>3. W = [j \in Item |-> W[j]] /\ item' = [W EXCEPT ![i] = NewRow(e, t, NoOne)]
      BY <2>1 DEF Without
    <3> HIDE DEF W
    <3>4. RowEvents' = [[j \in Item |-> W[j].ev] EXCEPT ![i] = e]
      BY <2>2, <3>1, <3>3 DEF RowEvents
    <3> QED BY <3>2, <3>4
  <2>5. Entries'[p].ev = e
    BY <2>3 DEF Home!Tied, Entries
  <2>6. Home!Place(p, x.link)
    BY <2>2, <2>3, <2>4 DEF Home!Place, Home!Becomes, Home!Without, Entries, RowEvents
  <2>7. Home!Move(p, x)
    BY <1>1, <1>4, <2>5, <2>6, HomeForgets DEF Home!Move, Home!Forgets, Entries, SeenBy
  <2> QED BY <2>7, StepsAre
<1> QED BY <1>5, <1>6

\* An unchanged event goes with the link that was read: what is written is the
\* copy, and its event row is there.
LEMMA StayIsTies ==
    ASSUME Ties, NEW c \in Caller, Stay(c)
    PROVE  TiesStep
<1>1. Goes(c, "idle") /\ call[c].at \in AtHome
  BY DEF Stay, AtHome
<1>0. PICK p \in Person : p = call[c].by
  BY <1>1, HeldIsSeen
<1>2. PICK x \in Seen(p) : p = call[c].by /\ x = Ends(call[c].row)
  BY <1>0, <1>1, HeldIsSeen
<1>3. PICK row \in HomeRow : row = call[c].row
  BY <1>1, HeldIsSeen
<1>4. row.link # NoItem => row.link \in Item /\ row.ev \in Event /\ row.ev # NoEvent
  <2>1. Tie(call[c])
    BY DEF Ties
  <2> QED BY <1>3, <2>1, NoneAssumption DEF Tie, HomeRow
<1>t. PICK t : t = NextText(c)
  OBVIOUS
<1>5. PICK a \in BOOLEAN : home' = [home EXCEPT ![p] = Again(p, row, t, a)]
  BY <1>2, <1>3, <1>t DEF Stay, HomeRow
<1>6. Ends(Again(p, row, t, a)) = x
  BY <1>2, <1>3 DEF Again, Ends, HomeRow
<1>7. Entries' = [Entries EXCEPT ![p] = x]
  BY <1>5, <1>6, EntryBecomes
<1>8. x.link # NoItem => RowEvents[x.link] # NoEvent
  BY <1>2, <1>3, <1>4, EndsAre DEF Stay, Sees, There, RowEvents
<1>9. RowEvents' = RowEvents
  <2>1. UNCHANGED item \/ \E u : row.link # NoItem /\ item' = [item EXCEPT ![row.link].text = u]
    BY <1>3 DEF Stay
  <2>2. ASSUME NEW u, row.link # NoItem, item' = [item EXCEPT ![row.link].text = u], NEW i \in Item
        PROVE  item'[i].ev = item[i].ev
    <3>1. item[i] \in ItemRow
      BY DEF Ties, TypeOK
    <3> QED BY <2>2, <3>1 DEF Ties, TypeOK, ItemRow
  <2> QED BY <2>1, <2>2 DEF RowEvents
<1>10. Entries[p].there
  BY <1>2, EndsAre DEF Stay, Entries
<1>11. Home!Rewrite(p, x)
  BY <1>1, <1>7, <1>8, <1>9, <1>10, HomeForgets
     DEF Home!Rewrite, Home!Becomes, Home!Forgets, Entries, RowEvents, SeenBy
<1> QED BY <1>11, StepsAre

LEMMA StepIsTies ==
    ASSUME Ties, [Next]_vars
    PROVE  TiesStep
<1>1. CASE UNCHANGED vars
  <2>1. SeenBy' = SeenBy /\ RowEvents' = RowEvents /\ Entries' = Entries
    BY <1>1 DEF vars, SeenBy, Seen, RowEvents, Entries
  <2> QED BY <2>1, NothingMoves
<1>2. ASSUME NEW c \in Caller, Asks(c) PROVE TiesStep
  <2>1. ASSUME NEW p \in Person, NEW i \in Item, NEW t \in Text \cup {NoText},
               NEW w \in Person \cup {NoOne, Keep},
               \/ PatchCheck(c, p, i, t, w, FALSE, {})
               \/ \E hidden \in SUBSET Member : PatchCheck(c, p, i, t, w, TRUE, hidden)
        PROVE  TiesStep
    <3>1. ASSUME NEW hides \in BOOLEAN, NEW hidden \in SUBSET Member,
                 PatchCheck(c, p, i, t, w, hides, hidden)
          PROVE  TiesStep
      BY <3>1, CheckIsTies
    <3>2. FALSE \in BOOLEAN /\ TRUE \in BOOLEAN /\ {} \in SUBSET Member
      OBVIOUS
    <3> QED BY <2>1, <3>1, <3>2, Zenon
  <2>2. ASSUME NEW p \in Person, NEW i \in Item, DeleteCheck(c, p, i) PROVE TiesStep
    <3>1. NoText \in Text \cup {NoText} /\ Keep \in Person \cup {NoOne, Keep}
          /\ FALSE \in BOOLEAN /\ {} \in SUBSET Member
      OBVIOUS
    <3> QED BY <2>2, <3>1, CheckIsTies
  <2>3. ASSUME NEW p \in Person, HomeDeleteRead(c, p) PROVE TiesStep
    <3>1. NoText \in Text \cup {NoText} /\ Keep \in Event \cup {NoEvent, Keep}
      OBVIOUS
    <3> QED BY <2>3, <3>1, LookIsTies
  <2>4. ASSUME NEW p \in Person, NEW e \in Event \cup {NoEvent, Keep}, NEW t \in Text \cup {NoText},
               HomeRead(c, p, e, t)
        PROVE  TiesStep
    BY <2>4, LookIsTies
  <2> QED BY <1>2, <2>1, <2>2, <2>3, <2>4, PageIsTies, CreateIsTies DEF Asks
<1>3. ASSUME NEW c \in Caller, GoesOn(c) PROVE TiesStep
  BY <1>3, PageIsTies, PatchIsTies, DropIsTies, MoveIsTies, StayIsTies, EndIsTies, CutIsTies
     DEF GoesOn
<1> QED BY <1>1, <1>2, <1>3 DEF Next

LEMMA TiesStart == Init => Home!Init
<1> SUFFICES ASSUME Init PROVE Home!Init
  OBVIOUS
<1>1. \A p \in Person : Seen(p) = {}
  BY IdleHeld DEF Init, Seen
<1>2. \A p \in Person : Ends(home[p]) = Home!None
  BY EndsAre DEF Init
<1> QED BY <1>1, <1>2 DEF Init, NoRow, Home!Init

\* However the requests of hosts and members overlap and wherever they are cut off,
\* Home rows and event rows are tied and come loose as HomeTies says
\* (updateChecklist(), deleteChecklist(), deleteChecklistItem()).
THEOREM TiesAreImplemented == Spec => ImplementsTies
<1>1. Ties /\ [Next]_vars => [Home!Next]_(Home!ties)
  BY StepIsTies DEF TiesStep
<1> QED BY <1>1, TiesStart, TiesInvariant, PTL DEF Spec, ImplementsTies, Home!Spec
=============================================================================
