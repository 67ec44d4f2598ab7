------------------------------ MODULE Reminders ------------------------------
(***************************************************************************)
(* The two daily jobs of RemindersService, day after day.  At eight in the *)
(* morning the host of every checklist item that is due is reminded of it; *)
(* at nine the host of every event of yesterday is asked to review the     *)
(* vendors that were booked.  Each job reads one batch and hands it to a   *)
(* pool of workers (mapPool), which notify the host and then mark the row. *)
(* Hosts change their rows meanwhile, statements fail, and the process may *)
(* restart or be down at the hour of a job, which is then not made up for. *)
(***************************************************************************)
EXTENDS Naturals, FiniteSets

CONSTANTS Items,        \* rows of event_checklist
          Bookings,     \* inquiries that may be booked, with their event's date
          Cap,          \* REMINDER_BATCH_CAP, 200 in the code
          Concurrency,  \* workers of a pool, 4 in the code
          Dates,        \* due dates that hosts choose
          MaxFaults     \* bound on failed statements, restarts and missed hours

ASSUME RemindersAssumption ==
    /\ IsFiniteSet(Items)
    /\ IsFiniteSet(Bookings)
    /\ Items \cap Bookings = {}
    /\ Cap \in Nat \ {0}
    /\ Concurrency \in Nat \ {0}
    /\ MaxFaults \in Nat
    /\ Dates \subseteq {"none", "later", "tomorrow", "today", "late"}

Rows == Items \cup Bookings
Jobs == {"due", "review"}
JobOf(r) == IF r \in Items THEN "due" ELSE "review"

\* Dates are relative to today; all dates before today are alike.
Dues == {"none", "later", "tomorrow", "today", "late"}
Days == {"ahead", "yesterday", "past"}

\* notified_at, relative to the day and to the 23 hours after which it lapses.
Marks == {"never", "today", "before"}

Item == [state : {"open", "done", "gone"}, due : Dues, notified : Marks]
\* A booking whose event is given another date counts as another booking.
Booking == [live : BOOLEAN,       \* BOOKED, and the event is not deleted
            day : Days, requested : BOOLEAN, reviewed : BOOLEAN]

\* Where a row stands in its job's pool.
Stages == {"out", "queued", "check", "create", "mark"}

VARIABLES item, booking, stage,
          hour,     \* has the job's hour passed today
          dead,     \* workers of today's pool that ended with an error
          faults,
          told      \* history: notifications of an item today, of a booking ever

vars == <<item, booking, stage, hour, dead, faults, told>>

Init ==
    /\ item \in [Items -> [state : {"open"}, due : Dates, notified : {"never"}]]
    /\ booking \in [Bookings -> [live : BOOLEAN, day : {"ahead"},
                                 requested : {FALSE}, reviewed : BOOLEAN]]
    /\ stage = [r \in Rows |-> "out"]
    /\ hour = [j \in Jobs |-> "ahead"]
    /\ dead = [j \in Jobs |-> 0]
    /\ faults = 0
    /\ told = [r \in Rows |-> 0]

-----------------------------------------------------------------------------
(* The queries.  take: Cap, in the order of the due date. *)

Due(i) == item[i].state = "open" /\ item[i].due \in {"tomorrow", "today", "late"}

\* As if one reminder were enough.
ToRemind_OnlyNever == {i \in Items : Due(i) /\ item[i].notified = "never"}

ToRemind == {i \in Items : Due(i) /\ item[i].notified # "today"}

\* As if the query had no lower bound.
ToAsk_AnyPast == {b \in Bookings : /\ booking[b].live
                                   /\ ~booking[b].requested
                                   /\ booking[b].day # "ahead"}

ToAsk == {b \in Bookings : /\ booking[b].live
                           /\ ~booking[b].requested
                           /\ booking[b].day = "yesterday"}

Sooner(d, e) == \/ d = "late" /\ e # "late"
                \/ d = "today" /\ e = "tomorrow"

Batches(S) == {B \in SUBSET S : /\ Cardinality(B) <= Cap
                                /\ B = S \/ Cardinality(B) = Cap}

Read(j, B) ==
    /\ hour[j] = "ahead"
    /\ hour' = [hour EXCEPT ![j] = "passed"]
    /\ stage' = [r \in Rows |-> IF r \in B THEN "queued" ELSE stage[r]]
    /\ UNCHANGED <<item, booking, dead, faults, told>>

ReadDue ==
    \E B \in Batches(ToRemind) :
        /\ \A i \in B, k \in ToRemind \ B : ~Sooner(item[k].due, item[i].due)
        /\ Read("due", B)

ReadReview == \E B \in Batches(ToAsk) : Read("review", B)

-----------------------------------------------------------------------------
(* The pool.  Workers are alike: what counts is how many are left.  The    *)
(* order within a batch is left open.                                      *)

Busy(j) == {r \in Rows : JobOf(r) = j /\ stage[r] \in {"check", "create", "mark"}}

At(r, s) == [stage EXCEPT ![r] = s]

Take(r) ==
    /\ stage[r] = "queued"
    /\ Cardinality(Busy(JobOf(r))) + dead[JobOf(r)] < Concurrency
    /\ stage' = At(r, IF r \in Items THEN "create" ELSE "check")
    /\ UNCHANGED <<item, booking, hour, dead, faults, told>>

\* Who has written a review is marked without being asked.
Check(b) ==
    /\ stage[b] = "check"
    /\ stage' = At(b, IF booking[b].reviewed THEN "mark" ELSE "create")
    /\ UNCHANGED <<item, booking, hour, dead, faults, told>>

\* notifications.create; mail and text follow and their errors are swallowed.
Create(r) ==
    /\ stage[r] = "create"
    /\ told' = [told EXCEPT ![r] = @ + 1]
    /\ stage' = At(r, "mark")
    /\ UNCHANGED <<item, booking, hour, dead, faults>>

\* An error leaves the row and ends its worker; the queue of a pool without
\* workers is abandoned.
StageAfterThrow(r) ==
    [q \in Rows |->
        IF q = r \/ (/\ stage[q] = "queued"
                     /\ JobOf(q) = JobOf(r)
                     /\ dead[JobOf(r)] + 1 = Concurrency)
        THEN "out" ELSE stage[q]]

\* As if every row the pool gives up were the loss of a worker.
Throw_CountsRows(r) ==
    /\ stage' = StageAfterThrow(r)
    /\ dead' = [dead EXCEPT ![JobOf(r)] =
                   @ + Cardinality({q \in Rows : StageAfterThrow(r)[q] # stage[q]})]

Throw(r) ==
    /\ stage' = StageAfterThrow(r)
    /\ dead' = [dead EXCEPT ![JobOf(r)] = @ + 1]

\* The update throws when the item was deleted meanwhile.
Mark(r) ==
    /\ stage[r] = "mark"
    /\ \/ /\ r \in Items /\ item[r].state = "gone"
          /\ Throw(r)
          /\ UNCHANGED <<item, booking>>
       \/ /\ r \in Items /\ item[r].state # "gone"
          /\ item' = [item EXCEPT ![r].notified = "today"]
          /\ stage' = At(r, "out")
          /\ UNCHANGED <<booking, dead>>
       \/ /\ r \in Bookings
          /\ booking' = [booking EXCEPT ![r].requested = TRUE]
          /\ stage' = At(r, "out")
          /\ UNCHANGED <<item, dead>>
    /\ UNCHANGED <<hour, faults, told>>

Step(r) == Take(r) \/ Check(r) \/ Create(r) \/ Mark(r)

-----------------------------------------------------------------------------
(* What goes wrong. *)

Fault == faults < MaxFaults /\ faults' = faults + 1

\* As if the mark were written however the row's work ended.
Fail_Marks(r) ==
    /\ Fault
    /\ stage[r] \in {"check", "create", "mark"}
    /\ Throw(r)
    /\ item' = [i \in Items |-> IF i = r THEN [item[i] EXCEPT !.notified = "today"]
                                         ELSE item[i]]
    /\ UNCHANGED <<booking, hour, told>>

Fail(r) ==
    /\ Fault
    /\ stage[r] \in {"check", "create", "mark"}
    /\ Throw(r)
    /\ UNCHANGED <<item, booking, hour, told>>

Crash ==
    /\ Fault
    /\ \E r \in Rows : stage[r] # "out"
    /\ stage' = [r \in Rows |-> "out"]
    /\ dead' = [j \in Jobs |-> 0]
    /\ UNCHANGED <<item, booking, hour, told>>

Miss(j) ==
    /\ Fault
    /\ hour[j] = "ahead"
    /\ hour' = [hour EXCEPT ![j] = "passed"]
    /\ UNCHANGED <<item, booking, stage, dead, told>>

-----------------------------------------------------------------------------
(* The hosts and the calendar. *)

\* updateChecklistItem without a due date
SetState(i, s) ==
    /\ item[i].state # "gone"
    /\ item' = [item EXCEPT ![i].state = s]
    /\ UNCHANGED <<booking, stage, hour, dead, faults, told>>

\* updateChecklistItem with a due date, or an edit through the home list
SetDue(i, s, d) ==
    /\ item[i].state # "gone"
    /\ item' = [item EXCEPT ![i] = [state |-> s, due |-> d, notified |-> "never"]]
    /\ UNCHANGED <<booking, stage, hour, dead, faults, told>>

Delete(i) ==
    /\ item[i].state # "gone"
    /\ item' = [item EXCEPT ![i].state = "gone"]
    /\ UNCHANGED <<booking, stage, hour, dead, faults, told>>

\* The inquiry is booked or the booking withdrawn; the event is deleted.
SetLive(b, v) ==
    /\ booking' = [booking EXCEPT ![b].live = v]
    /\ UNCHANGED <<item, stage, hour, dead, faults, told>>

WriteReview(b) ==
    /\ booking' = [booking EXCEPT ![b].reviewed = TRUE]
    /\ UNCHANGED <<item, stage, hour, dead, faults, told>>

NextDues(d) == CASE d = "later" -> {"later", "tomorrow"}
                 [] d = "tomorrow" -> {"today"}
                 [] d = "today" -> {"late"}
                 [] OTHER -> {d}

NextDays(d) == IF d = "ahead" THEN {"ahead", "yesterday"} ELSE {"past"}

\* A batch is done, or its process gone, long before the day ends.
Midnight ==
    /\ \A j \in Jobs : hour[j] = "passed"
    /\ \A r \in Rows : stage[r] = "out"
    /\ hour' = [j \in Jobs |-> "ahead"]
    /\ dead' = [j \in Jobs |-> 0]
    /\ \E due \in [Items -> Dues] :
          /\ \A i \in Items : due[i] \in NextDues(item[i].due)
          /\ item' = [i \in Items |->
                 [item[i] EXCEPT !.due = due[i],
                                 !.notified = IF @ = "today" THEN "before" ELSE @]]
    /\ \E day \in [Bookings -> Days] :
          /\ \A b \in Bookings : day[b] \in NextDays(booking[b].day)
          /\ booking' = [b \in Bookings |-> [booking[b] EXCEPT !.day = day[b]]]
    /\ told' = [r \in Rows |-> IF r \in Items THEN 0 ELSE told[r]]
    /\ UNCHANGED <<stage, faults>>

Next ==
    \/ ReadDue \/ ReadReview \/ Crash \/ Midnight
    \/ \E r \in Rows : Step(r) \/ Fail(r)
    \/ \E j \in Jobs : Miss(j)
    \/ \E i \in Items : \/ Delete(i)
                        \/ \E s \in {"open", "done"} :
                              \/ SetState(i, s)
                              \/ \E d \in Dates : SetDue(i, s, d)
    \/ \E b \in Bookings : WriteReview(b) \/ \E v \in BOOLEAN : SetLive(b, v)

\* The scheduler fires, workers go on, days pass.  Hosts owe nothing.
Fairness ==
    /\ WF_vars(ReadDue) /\ WF_vars(ReadReview) /\ WF_vars(Midnight)
    /\ \A r \in Rows : WF_vars(Step(r))

Spec == Init /\ [][Next]_vars
FairSpec == Spec /\ Fairness

-----------------------------------------------------------------------------
\* Rows keep their columns, and no pool loses more workers than it has.
TypeOK ==
    /\ item \in [Items -> Item]
    /\ booking \in [Bookings -> Booking]
    /\ stage \in [Rows -> Stages]
    /\ hour \in [Jobs -> {"ahead", "passed"}]
    /\ dead \in [Jobs -> 0 .. Concurrency]
    /\ faults \in 0 .. MaxFaults
    /\ told \in [Rows -> Nat]

\* mapPool: a job never works on more rows at once than it has workers left,
\* though workers die and a crash empties the pool.
PoolIsBounded == \A j \in Jobs : Cardinality(Busy(j)) + dead[j] <= Concurrency

\* A row that is marked as notified was notified: an item today, a booking
\* once, unless its review was there.  The mark is written after the
\* notification, so no failure in between can lose a reminder for good.
MarkIsEarned ==
    /\ \A i \in Items : item[i].notified = "today" => told[i] > 0
    /\ \A b \in Bookings : booking[b].requested => told[b] > 0 \/ booking[b].reviewed

\* Nobody is reminded of an item twice in a day, or asked twice to review one
\* booking, though a crash may come between the notification and its mark.
ToldOnce == \A r \in Rows : told[r] <= 1

\* An item that stays open and due is reminded of.
PendingIsReminded == \A i \in Items : Due(i) ~> told[i] > 0 \/ ~Due(i)


-----------------------------------------------------------------------------
(* The abstract specification                                              *)

Wanted == {i \in Items : Due(i)}
          \cup {b \in Bookings : booking[b].live /\ booking[b].day = "yesterday"}

Settled == {i \in Items : item[i].notified = "today"}
           \cup {b \in Bookings : booking[b].requested}

Note == INSTANCE Notices WITH
    wanted   <- Wanted,
    reviewed <- {b \in Bookings : booking[b].reviewed},
    ran      <- {j \in Jobs : hour[j] = "passed"},
    listed   <- {r \in Rows : stage[r] # "out"},
    settled  <- Settled

\* Whatever statement fails and whenever the process restarts, the two jobs
\* tell hosts what Notices says: of rows that were due when the day's list was
\* read, an item once a day, a booking once, and each before it is marked.
ImplementsNotices == Note!Spec
=============================================================================
