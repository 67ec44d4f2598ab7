------------------------------ MODULE Notices ------------------------------
(***************************************************************************)
(* What the reminder jobs promise a host, with the worker pools, failures  *)
(* and restarts left out: a job lists the rows that are wanted and not     *)
(* settled, all of them or Cap, once a day; a host is told of a listed row *)
(* and then the row is settled. Nobody hears of an item twice in a day or  *)
(* of a booking twice at all. Reminders implements this.                   *)
(*                                                                         *)
(* Source: RemindersService in src/apps/api/src/reminders/.                *)
(***************************************************************************)
EXTENDS Naturals, FiniteSets

CONSTANTS Items, Bookings, Cap

VARIABLES
    wanted,   \* rows that are due: items open and due, bookings of yesterday
    reviewed, \* bookings whose vendor the host has reviewed
    ran,      \* the jobs that ran today
    listed,   \* rows a job of today still has to see to
    told,     \* [row -> Nat] an item's notices of today, a booking's ever
    settled   \* rows that are marked: items today, bookings for good

notices == <<wanted, reviewed, ran, listed, told, settled>>

Rows   == Items \cup Bookings
Of(j)  == IF j = "due" THEN Items ELSE Bookings
Open(j) == (wanted \cap Of(j)) \ settled

Init ==
    /\ wanted \in SUBSET Items
    /\ reviewed \in SUBSET Bookings
    /\ ran = {}
    /\ listed = {}
    /\ told = [r \in Rows |-> 0]
    /\ settled = {}

\* The hour of a job: it lists what is open, or as much as fits.
List(j) ==
    /\ j \notin ran
    /\ ran' = ran \cup {j}
    /\ \E B \in SUBSET Open(j) :
          /\ Cardinality(B) <= Cap
          /\ B = Open(j) \/ Cardinality(B) = Cap
          /\ listed' = listed \cup B
    /\ UNCHANGED <<wanted, reviewed, told, settled>>

\* Or nobody is there to run it.
Miss(j) ==
    /\ j \notin ran
    /\ ran' = ran \cup {j}
    /\ UNCHANGED <<wanted, reviewed, listed, told, settled>>

Tell(r) ==
    /\ r \in listed
    /\ told[r] = 0
    /\ told' = [told EXCEPT ![r] = 1]
    /\ UNCHANGED <<wanted, reviewed, ran, listed, settled>>

\* Whoever wrote the review already is not asked for it.
Settle(r) ==
    /\ r \in listed
    /\ told[r] = 1 \/ r \in reviewed
    /\ settled' = settled \cup {r}
    /\ listed' = listed \ {r}
    /\ UNCHANGED <<wanted, reviewed, ran, told>>

\* Rows that are left undone are left to another day.
GiveUp ==
    /\ listed' \subseteq listed
    /\ UNCHANGED <<wanted, reviewed, ran, told, settled>>

\* What hosts do to their rows. A new date lifts an item's mark; no booking
\* is asked about anew.
Change ==
    /\ wanted' \subseteq Rows
    /\ reviewed \subseteq reviewed' /\ reviewed' \subseteq Bookings
    /\ settled' \subseteq settled
    /\ settled \ settled' \subseteq Items
    /\ UNCHANGED <<ran, listed, told>>

NextDay ==
    /\ listed = {}
    /\ wanted' \subseteq Rows
    /\ ran' = {}
    /\ told' = [r \in Rows |-> IF r \in Items THEN 0 ELSE told[r]]
    /\ settled' = settled \ Items
    /\ UNCHANGED <<reviewed, listed>>

Next ==
    \/ \E j \in {"due", "review"} : List(j) \/ Miss(j)
    \/ \E r \in Rows : Tell(r) \/ Settle(r)
    \/ GiveUp \/ Change \/ NextDay

Spec == Init /\ [][Next]_notices
=============================================================================
