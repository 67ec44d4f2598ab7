--------------------------- MODULE RemindersProofs ---------------------------
(* The safety properties of Reminders, for any number of rows and workers,  *)
(* any batch size and any number of faults, and that Reminders implements   *)
(* Notices.                                                                 *)
EXTENDS Reminders, FiniteSetTheorems, TLAPS

\* Where a row stands says how often its host was told.
StageTold ==
    /\ \A r \in Rows : stage[r] \in {"queued", "check", "create"} => told[r] = 0
    /\ \A i \in Items : stage[i] # "check" /\ (stage[i] = "mark" => told[i] > 0)
    /\ \A b \in Bookings : stage[b] = "mark" => told[b] > 0 \/ booking[b].reviewed

\* Before the hour of a job nothing of it has happened today; and a booking
\* is asked about on one day only, since the query has a lower bound.
HourTold ==
    /\ \A r \in Rows : hour[JobOf(r)] = "ahead" => stage[r] = "out"
    /\ \A i \in Items : hour["due"] = "ahead" => told[i] = 0
    /\ \A b \in Bookings :
          /\ hour["review"] = "ahead" /\ booking[b].day = "yesterday" => told[b] = 0
          /\ booking[b].day = "ahead" => told[b] = 0 /\ stage[b] = "out"

IInv == TypeOK /\ PoolIsBounded /\ MarkIsEarned /\ ToldOnce /\ StageTold /\ HourTold

-----------------------------------------------------------------------------
\* Rows are finitely many, and a row belongs to one job.
LEMMA RowsFacts ==
    /\ IsFiniteSet(Rows)
    /\ \A r \in Rows : JobOf(r) \in Jobs
    /\ \A i \in Items : i \in Rows /\ JobOf(i) = "due" /\ i \notin Bookings
    /\ \A b \in Bookings : b \in Rows /\ JobOf(b) = "review" /\ b \notin Items
BY RemindersAssumption, FS_Union DEF Rows, JobOf, Jobs

LEMMA BusyFinite ==
    ASSUME NEW j
    PROVE  /\ Busy(j) \subseteq Rows /\ IsFiniteSet(Busy(j))
           /\ Cardinality(Busy(j)) \in Nat
<1>1. Busy(j) \subseteq Rows
  BY DEF Busy
<1> QED
  BY <1>1, RowsFacts, FS_Subset, FS_CardinalityType

\* No step but Take makes a pool busier.
LEMMA BusyShrinks ==
    ASSUME NEW j, Busy(j)' \subseteq Busy(j)
    PROVE  Cardinality(Busy(j)') \in Nat /\ Cardinality(Busy(j)') <= Cardinality(Busy(j))
BY BusyFinite, FS_Subset, FS_CardinalityType

\* A row at work counts.
LEMMA BusyCounts ==
    ASSUME NEW r \in Rows, stage[r] \in {"check", "create", "mark"}
    PROVE  Cardinality(Busy(JobOf(r))) > 0
<1>1. r \in Busy(JobOf(r))
  BY DEF Busy
<1>2. Busy(JobOf(r)) # {}
  BY <1>1
<1> QED
  BY <1>2, BusyFinite, FS_EmptySet

\* One more row adds at most one.
LEMMA OneMore ==
    ASSUME NEW S, IsFiniteSet(S), NEW x
    PROVE  /\ Cardinality(S \cup {x}) \in Nat
           /\ Cardinality(S \cup {x}) <= Cardinality(S) + 1
<1>1. IsFiniteSet(S \cup {x}) /\ Cardinality(S) \in Nat
  BY FS_AddElement, FS_CardinalityType
<1> QED
  BY <1>1, FS_AddElement, FS_CardinalityType

LEMMA InitIInv == Init => IInv
<1> SUFFICES ASSUME Init PROVE IInv
  OBVIOUS
<1>1. TypeOK
  <2>1. [state : {"open"}, due : Dates, notified : {"never"}] \subseteq Item
    BY RemindersAssumption DEF Item, Dues, Marks
  <2>2. [live : BOOLEAN, day : {"ahead"}, requested : {FALSE}, reviewed : BOOLEAN]
          \subseteq Booking
    BY DEF Booking, Days
  <2>3. item \in [Items -> Item] /\ booking \in [Bookings -> Booking]
    BY <2>1, <2>2 DEF Init
  <2> QED
    BY <2>3, RemindersAssumption DEF Init, TypeOK, Stages, Jobs
<1>2. \A j \in Jobs : Busy(j) = {}
  BY DEF Init, Busy, Rows
<1>3. PoolIsBounded
  BY <1>2, FS_EmptySet, RemindersAssumption DEF Init, PoolIsBounded, Jobs
<1>4. /\ \A i \in Items : item[i].notified = "never"
      /\ \A b \in Bookings : ~booking[b].requested /\ booking[b].day = "ahead"
  BY DEF Init
<1>5. MarkIsEarned
  BY <1>4 DEF MarkIsEarned
<1>6. \A r \in Rows : stage[r] = "out" /\ told[r] = 0
  BY DEF Init
<1>7. ToldOnce /\ StageTold /\ HourTold
  BY <1>4, <1>6, RowsFacts DEF ToldOnce, StageTold, HourTold
<1> QED
  BY <1>1, <1>3, <1>5, <1>7 DEF IInv

-----------------------------------------------------------------------------
(* The pool. *)

LEMMA ReadKeeps ==
    ASSUME IInv, NEW j \in Jobs, NEW B \in SUBSET Rows, Read(j, B),
           \A r \in B : JobOf(r) = j,
           j = "review" => \A b \in B : booking[b].day = "yesterday"
    PROVE  IInv'
<1> USE DEF IInv, Read
<1>1. TypeOK'
  BY DEF TypeOK, Jobs, Stages, Rows
<1>2. PoolIsBounded'
  <2> SUFFICES ASSUME NEW k \in Jobs
               PROVE  Cardinality(Busy(k)') + dead'[k] <= Concurrency
    BY DEF PoolIsBounded
  <2>1. Busy(k)' \subseteq Busy(k)
    BY DEF Busy
  <2> QED
    BY <2>1, BusyShrinks, BusyFinite, RemindersAssumption DEF PoolIsBounded, TypeOK
<1>3. MarkIsEarned' /\ ToldOnce'
  BY DEF MarkIsEarned, ToldOnce
<1>4. \A r \in B : told[r] = 0
  BY RowsFacts DEF HourTold, Rows, Jobs
<1>5. StageTold'
  BY <1>4, RowsFacts DEF StageTold, Rows
<1>6. HourTold'
  BY RowsFacts DEF HourTold, TypeOK, Jobs, Rows
<1> QED
  BY <1>1, <1>2, <1>3, <1>5, <1>6

LEMMA ReadDueKeeps == ASSUME IInv, ReadDue PROVE IInv'
<1>1. PICK B \in Batches(ToRemind) : Read("due", B)
  BY DEF ReadDue
<1>2. B \in SUBSET Rows /\ \A r \in B : JobOf(r) = "due"
  BY RowsFacts DEF Batches, ToRemind
<1> QED
  BY <1>1, <1>2, ReadKeeps DEF Jobs

LEMMA ReadReviewKeeps == ASSUME IInv, ReadReview PROVE IInv'
<1>1. PICK B \in Batches(ToAsk) : Read("review", B)
  BY DEF ReadReview
<1>2. B \in SUBSET Rows /\ \A r \in B : JobOf(r) = "review" /\ booking[r].day = "yesterday"
  BY RowsFacts DEF Batches, ToAsk
<1> QED
  BY <1>1, <1>2, ReadKeeps DEF Jobs

LEMMA TakeKeeps == ASSUME IInv, NEW r \in Rows, Take(r) PROVE IInv'
<1> USE DEF IInv, Take, At
<1>1. TypeOK'
  BY DEF TypeOK, Stages
<1>2. PoolIsBounded'
  <2> SUFFICES ASSUME NEW k \in Jobs
               PROVE  Cardinality(Busy(k)') + dead'[k] <= Concurrency
    BY DEF PoolIsBounded
  <2>1. CASE k = JobOf(r)
    <3>1. Busy(k)' = Busy(k) \cup {r}
      BY <2>1 DEF Busy, TypeOK
    <3>2. /\ Cardinality(Busy(k)') \in Nat
          /\ Cardinality(Busy(k)') <= Cardinality(Busy(k)) + 1
      BY <3>1, BusyFinite, OneMore
    <3>3. Cardinality(Busy(k)) \in Nat
      BY BusyFinite
    <3>4. dead[k] \in Nat /\ dead'[k] = dead[k] /\ Concurrency \in Nat
      BY RemindersAssumption DEF TypeOK
    <3>5. Cardinality(Busy(k)) + dead[k] < Concurrency
      BY <2>1
    <3> QED
      BY <3>2, <3>3, <3>4, <3>5
  <2>2. CASE k # JobOf(r)
    <3>1. Busy(k)' = Busy(k)
      BY <2>2 DEF Busy, TypeOK
    <3> QED
      BY <3>1 DEF PoolIsBounded
  <2> QED
    BY <2>1, <2>2
<1>3. MarkIsEarned' /\ ToldOnce'
  BY DEF MarkIsEarned, ToldOnce
<1>4. StageTold'
  BY RowsFacts DEF StageTold, TypeOK
<1>5. HourTold'
  BY RowsFacts DEF HourTold, TypeOK
<1> QED
  BY <1>1, <1>2, <1>3, <1>4, <1>5

\* What a worker does before it is done leaves its pool as busy as it is.
LEMMA MovesOn ==
    ASSUME IInv, NEW r \in Rows, NEW s \in {"create", "mark", "out"},
           stage[r] \in {"check", "create", "mark"}, stage' = At(r, s), dead' = dead
    PROVE  PoolIsBounded'
<1> SUFFICES ASSUME NEW k \in Jobs
             PROVE  Cardinality(Busy(k)') + dead'[k] <= Concurrency
  BY DEF PoolIsBounded
<1>1. Busy(k)' \subseteq Busy(k)
  BY DEF Busy, At, IInv, TypeOK
<1> QED
  BY <1>1, BusyShrinks, BusyFinite, RemindersAssumption DEF PoolIsBounded, IInv, TypeOK

LEMMA CheckKeeps == ASSUME IInv, NEW r \in Rows, Check(r) PROVE IInv'
<1> USE DEF IInv, Check, At
<1>1. TypeOK'
  BY DEF TypeOK, Stages
<1>2. PoolIsBounded'
  BY MovesOn
<1>3. MarkIsEarned' /\ ToldOnce'
  BY DEF MarkIsEarned, ToldOnce
<1>4. StageTold'
  BY RowsFacts DEF StageTold, TypeOK
<1>5. HourTold'
  BY RowsFacts DEF HourTold, TypeOK
<1> QED
  BY <1>1, <1>2, <1>3, <1>4, <1>5

LEMMA CreateKeeps == ASSUME IInv, NEW r \in Rows, Create(r) PROVE IInv'
<1> USE DEF IInv, Create, At
<1>1. TypeOK'
  BY DEF TypeOK, Stages
<1>2. PoolIsBounded'
  BY MovesOn
<1>3. told[r] = 0 /\ told' = [told EXCEPT ![r] = 1]
  <2>1. told[r] = 0
    BY DEF StageTold
  <2>2. told' = [told EXCEPT ![r] = told[r] + 1]
    OBVIOUS
  <2> QED
    BY <2>1, <2>2
<1>4. MarkIsEarned' /\ ToldOnce'
  BY <1>3, RowsFacts DEF MarkIsEarned, ToldOnce, TypeOK
<1>5. StageTold'
  BY <1>3, RowsFacts DEF StageTold, TypeOK
<1>6. hour[JobOf(r)] # "ahead" /\ (r \in Bookings => booking[r].day # "ahead")
  BY DEF HourTold
<1>7. HourTold'
  BY <1>3, <1>6, RowsFacts DEF HourTold, TypeOK
<1> QED
  BY <1>1, <1>2, <1>4, <1>5, <1>7

\* A worker that ends with an error gives its row up: the pool loses a worker
\* and is less busy by one.
LEMMA ThrowKeepsPool ==
    ASSUME IInv, NEW r \in Rows, Throw(r), stage[r] \in {"check", "create", "mark"}
    PROVE  /\ PoolIsBounded'
           /\ dead' \in [Jobs -> 0 .. Concurrency]
           /\ stage' \in [Rows -> Stages]
           /\ \A q \in Rows : stage'[q] \in {stage[q], "out"}
           /\ stage'[r] = "out"
<1> USE DEF IInv, Throw
<1>1. /\ stage' \in [Rows -> Stages]
      /\ \A q \in Rows : stage'[q] \in {stage[q], "out"}
      /\ stage'[r] = "out"
  BY DEF StageAfterThrow, Stages, TypeOK
<1>2. \A k \in Jobs : Busy(k)' = Busy(k) \ {r}
  BY DEF StageAfterThrow, Busy, TypeOK
<1>3. JobOf(r) \in Jobs /\ r \in Busy(JobOf(r))
  BY RowsFacts DEF Busy
<1>4. /\ Cardinality(Busy(JobOf(r))') = Cardinality(Busy(JobOf(r))) - 1
      /\ Cardinality(Busy(JobOf(r))') \in Nat
  <2>1. IsFiniteSet(Busy(JobOf(r)) \ {r})
        /\ Cardinality(Busy(JobOf(r)) \ {r}) = Cardinality(Busy(JobOf(r))) - 1
    BY <1>3, BusyFinite, FS_RemoveElement
  <2> QED
    BY <1>2, <1>3, <2>1, FS_CardinalityType
<1>5. \A k \in Jobs : dead[k] \in Nat /\ Concurrency \in Nat
  BY RemindersAssumption DEF TypeOK
<1>6. dead'[JobOf(r)] = dead[JobOf(r)] + 1
      /\ \A k \in Jobs : k # JobOf(r) => dead'[k] = dead[k]
  BY <1>3 DEF TypeOK
<1>7. Cardinality(Busy(JobOf(r))) \in Nat
      /\ Cardinality(Busy(JobOf(r))) + dead[JobOf(r)] <= Concurrency
  BY <1>3, BusyFinite DEF PoolIsBounded
<1>8. dead[JobOf(r)] + 1 \in 0 .. Concurrency
  BY <1>3, <1>4, <1>5, <1>7
<1>9. dead' \in [Jobs -> 0 .. Concurrency]
  BY <1>8 DEF TypeOK
<1>10. PoolIsBounded'
  <2> SUFFICES ASSUME NEW k \in Jobs
               PROVE  Cardinality(Busy(k)') + dead'[k] <= Concurrency
    BY DEF PoolIsBounded
  <2>1. CASE k = JobOf(r)
    BY <2>1, <1>3, <1>4, <1>5, <1>6, <1>7
  <2>2. CASE k # JobOf(r)
    <3>1. Busy(k)' = Busy(k)
      BY <1>2, <2>2 DEF Busy
    <3> QED
      BY <2>2, <3>1, <1>6 DEF PoolIsBounded
  <2> QED
    BY <2>1, <2>2
<1> QED
  BY <1>1, <1>9, <1>10

LEMMA MarkKeeps == ASSUME IInv, NEW r \in Rows, Mark(r) PROVE IInv'
<1> USE DEF IInv
<1>1. stage[r] = "mark" /\ UNCHANGED <<hour, faults, told>>
  BY DEF Mark
<1>2. CASE r \in Items /\ item[r].state = "gone" /\ Throw(r) /\ UNCHANGED <<item, booking>>
  <2>1. TypeOK' /\ PoolIsBounded'
    BY <1>1, <1>2, ThrowKeepsPool DEF TypeOK
  <2>2. MarkIsEarned' /\ ToldOnce'
    BY <1>1, <1>2 DEF MarkIsEarned, ToldOnce
  <2>3. StageTold' /\ HourTold'
    BY <1>1, <1>2, ThrowKeepsPool, RowsFacts DEF StageTold, HourTold
  <2> QED
    BY <2>1, <2>2, <2>3
<1>3. CASE /\ r \in Items /\ item' = [item EXCEPT ![r].notified = "today"]
           /\ stage' = At(r, "out") /\ UNCHANGED <<booking, dead>>
  <2>1. TypeOK'
    BY <1>1, <1>3 DEF TypeOK, At, Stages, Item, Marks
  <2>2. PoolIsBounded'
    BY <1>1, <1>3, MovesOn
  <2>3. MarkIsEarned' /\ ToldOnce'
    BY <1>1, <1>3 DEF MarkIsEarned, ToldOnce, StageTold, TypeOK
  <2>4. StageTold' /\ HourTold'
    BY <1>1, <1>3, RowsFacts DEF StageTold, HourTold, At, TypeOK
  <2> QED
    BY <2>1, <2>2, <2>3, <2>4
<1>4. CASE /\ r \in Bookings /\ booking' = [booking EXCEPT ![r].requested = TRUE]
           /\ stage' = At(r, "out") /\ UNCHANGED <<item, dead>>
  <2>1. TypeOK'
    BY <1>1, <1>4 DEF TypeOK, At, Stages, Booking
  <2>2. PoolIsBounded'
    BY <1>1, <1>4, MovesOn
  <2>3. \A b \in Bookings : /\ booking'[b].day = booking[b].day
                            /\ booking'[b].reviewed = booking[b].reviewed
                            /\ b # r => booking'[b] = booking[b]
    BY <1>4 DEF TypeOK, Booking
  <2>4. MarkIsEarned' /\ ToldOnce'
    BY <1>1, <1>4, <2>3 DEF MarkIsEarned, ToldOnce, StageTold
  <2>5. StageTold' /\ HourTold'
    BY <1>1, <1>4, <2>3, RowsFacts DEF StageTold, HourTold, At, TypeOK
  <2> QED
    BY <2>1, <2>2, <2>4, <2>5
<1> QED
  BY <1>2, <1>3, <1>4 DEF Mark

-----------------------------------------------------------------------------
(* Faults. *)

LEMMA FailKeeps == ASSUME IInv, NEW r \in Rows, Fail(r) PROVE IInv'
<1> USE DEF IInv, Fail, Fault
<1>1. TypeOK' /\ PoolIsBounded'
  BY ThrowKeepsPool, RemindersAssumption DEF TypeOK
<1>2. MarkIsEarned' /\ ToldOnce'
  BY DEF MarkIsEarned, ToldOnce
<1>3. StageTold' /\ HourTold'
  BY ThrowKeepsPool, RowsFacts DEF StageTold, HourTold
<1> QED
  BY <1>1, <1>2, <1>3

LEMMA CrashKeeps == ASSUME IInv, Crash PROVE IInv'
<1> USE DEF IInv, Crash, Fault
<1>1. TypeOK'
  BY RemindersAssumption DEF TypeOK, Stages, Jobs
<1>2. \A k \in Jobs : Busy(k)' = {}
  BY DEF Busy
<1>3. PoolIsBounded'
  BY <1>2, FS_EmptySet, RemindersAssumption DEF PoolIsBounded
<1>4. MarkIsEarned' /\ ToldOnce' /\ StageTold' /\ HourTold'
  BY RowsFacts DEF MarkIsEarned, ToldOnce, StageTold, HourTold
<1> QED
  BY <1>1, <1>3, <1>4

LEMMA MissKeeps == ASSUME IInv, NEW j \in Jobs, Miss(j) PROVE IInv'
<1> USE DEF IInv, Miss, Fault
<1>1. TypeOK'
  BY RemindersAssumption DEF TypeOK
<1>2. PoolIsBounded'
  BY DEF PoolIsBounded, Busy
<1>3. MarkIsEarned' /\ ToldOnce' /\ StageTold' /\ HourTold'
  BY RowsFacts DEF MarkIsEarned, ToldOnce, StageTold, HourTold, TypeOK, Jobs
<1> QED
  BY <1>1, <1>2, <1>3

-----------------------------------------------------------------------------
(* Hosts and the calendar. *)

\* An edit of items keeps what is not about their marks.
LEMMA ItemEditKeeps ==
    ASSUME IInv, item' \in [Items -> Item],
           \A i \in Items : item'[i].notified \in {item[i].notified, "never"},
           UNCHANGED <<booking, stage, hour, dead, faults, told>>
    PROVE  IInv'
<1> USE DEF IInv
<1>1. TypeOK' /\ PoolIsBounded'
  BY DEF TypeOK, PoolIsBounded, Busy
<1>2. MarkIsEarned' /\ ToldOnce'
  BY DEF MarkIsEarned, ToldOnce
<1>3. StageTold' /\ HourTold'
  BY DEF StageTold, HourTold
<1> QED
  BY <1>1, <1>2, <1>3

LEMMA SetDueKeeps ==
    ASSUME IInv, NEW i \in Items, NEW s \in {"open", "done"}, NEW d \in Dates,
           SetDue(i, s, d)
    PROVE  IInv'
<1>1. d \in Dues
  BY RemindersAssumption DEF Dues
<1>2. /\ item' \in [Items -> Item]
      /\ \A k \in Items : item'[k].notified \in {item[k].notified, "never"}
  BY <1>1 DEF SetDue, IInv, TypeOK, Item, Marks
<1> QED
  BY <1>2, ItemEditKeeps DEF SetDue

\* What a host does to an item without naming a date.
LEMMA SetStateKeeps ==
    ASSUME IInv, NEW i \in Items,
           Delete(i) \/ \E s \in {"open", "done"} : SetState(i, s)
    PROVE  IInv'
<1>1. /\ item' \in [Items -> Item]
      /\ \A k \in Items : item'[k].notified \in {item[k].notified, "never"}
      /\ UNCHANGED <<booking, stage, hour, dead, faults, told>>
  BY DEF SetState, Delete, IInv, TypeOK, Item
<1> QED
  BY <1>1, ItemEditKeeps

LEMMA BookingsKeep ==
    ASSUME IInv, NEW b \in Bookings, NEW v \in BOOLEAN, SetLive(b, v) \/ WriteReview(b)
    PROVE  IInv'
<1> USE DEF IInv
<1>1. UNCHANGED <<item, stage, hour, dead, faults, told>>
  BY DEF SetLive, WriteReview
<1>2. /\ booking' \in [Bookings -> Booking]
      /\ \A c \in Bookings : /\ booking'[c].day = booking[c].day
                             /\ booking'[c].requested = booking[c].requested
                             /\ booking[c].reviewed => booking'[c].reviewed
  <2>1. PICK r \in Booking : /\ booking' = [booking EXCEPT ![b] = r]
                             /\ r.day = booking[b].day
                             /\ r.requested = booking[b].requested
                             /\ booking[b].reviewed => r.reviewed
    <3>1. booking[b] \in Booking
      BY DEF TypeOK
    <3>2. CASE SetLive(b, v)
      <4> DEFINE row == [booking[b] EXCEPT !.live = v]
      <4>1. /\ row \in Booking /\ row.day = booking[b].day
            /\ row.requested = booking[b].requested
            /\ row.reviewed = booking[b].reviewed
        BY <3>1 DEF Booking
      <4>2. booking' = [booking EXCEPT ![b] = row]
        BY <3>2 DEF SetLive
      <4> QED
        BY <4>1, <4>2
    <3>3. CASE WriteReview(b)
      <4> DEFINE row == [booking[b] EXCEPT !.reviewed = TRUE]
      <4>1. /\ row \in Booking /\ row.day = booking[b].day
            /\ row.requested = booking[b].requested /\ row.reviewed
        BY <3>1 DEF Booking
      <4>2. booking' = [booking EXCEPT ![b] = row]
        BY <3>3 DEF WriteReview
      <4> QED
        BY <4>1, <4>2
    <3> QED
      BY <3>2, <3>3
  <2>2. booking \in [Bookings -> Booking]
    BY DEF TypeOK
  <2>3. booking' \in [Bookings -> Booking]
    BY <2>1, <2>2
  <2>4. booking'[b] = r /\ \A c \in Bookings : c # b => booking'[c] = booking[c]
    BY <2>1, <2>2
  <2> QED
    BY <2>1, <2>3, <2>4
<1>3. TypeOK' /\ PoolIsBounded'
  BY <1>1, <1>2 DEF TypeOK, PoolIsBounded, Busy
<1>4. MarkIsEarned' /\ ToldOnce'
  BY <1>1, <1>2 DEF MarkIsEarned, ToldOnce
<1>5. StageTold' /\ HourTold'
  BY <1>1, <1>2 DEF StageTold, HourTold
<1> QED
  BY <1>3, <1>4, <1>5

LEMMA MidnightKeeps == ASSUME IInv, Midnight PROVE IInv'
<1> USE DEF IInv
<1>1. /\ hour' = [j \in Jobs |-> "ahead"] /\ dead' = [j \in Jobs |-> 0]
      /\ \A r \in Rows : stage[r] = "out"
      /\ told' = [r \in Rows |-> IF r \in Items THEN 0 ELSE told[r]]
      /\ UNCHANGED <<stage, faults>>
  BY DEF Midnight
<1>2. /\ item' \in [Items -> Item]
      /\ \A i \in Items : item'[i].notified # "today"
  <2>1. PICK due \in [Items -> Dues] :
           item' = [i \in Items |->
                      [item[i] EXCEPT !.due = due[i],
                                      !.notified = IF @ = "today" THEN "before" ELSE @]]
    BY DEF Midnight
  <2>2. ASSUME NEW i \in Items PROVE item'[i] \in Item /\ item'[i].notified # "today"
    <3>1. item[i] \in Item /\ due[i] \in Dues
      BY DEF TypeOK
    <3>2. item'[i] = [item[i] EXCEPT !.due = due[i],
                         !.notified = IF item[i].notified = "today" THEN "before"
                                                                    ELSE item[i].notified]
      BY <2>1
    <3> QED
      BY <3>1, <3>2 DEF Item, Marks
  <2> QED
    BY <2>1, <2>2
<1>3. /\ booking' \in [Bookings -> Booking]
      /\ \A b \in Bookings :
            /\ booking'[b].requested = booking[b].requested
            /\ booking'[b].reviewed = booking[b].reviewed
            /\ booking'[b].day # "past" => booking[b].day = "ahead"
  <2>1. PICK day \in [Bookings -> Days] :
           /\ \A b \in Bookings : day[b] \in NextDays(booking[b].day)
           /\ booking' = [b \in Bookings |-> [booking[b] EXCEPT !.day = day[b]]]
    BY DEF Midnight
  <2>2. ASSUME NEW b \in Bookings
        PROVE  /\ booking'[b] \in Booking
               /\ booking'[b].requested = booking[b].requested
               /\ booking'[b].reviewed = booking[b].reviewed
               /\ booking'[b].day = day[b]
    <3>1. booking[b] \in Booking /\ day[b] \in Days
      BY DEF TypeOK
    <3>2. booking'[b] = [booking[b] EXCEPT !.day = day[b]]
      BY <2>1
    <3> QED
      BY <3>1, <3>2 DEF Booking
  <2>3. \A b \in Bookings : day[b] # "past" => booking[b].day = "ahead"
    BY <2>1 DEF NextDays
  <2> QED
    BY <2>1, <2>2, <2>3
<1>4. TypeOK'
  BY <1>1, <1>2, <1>3, RemindersAssumption DEF TypeOK, Jobs
<1>5. \A k \in Jobs : Busy(k)' = {}
  BY <1>1 DEF Busy
<1>6. PoolIsBounded'
  <2> SUFFICES ASSUME NEW k \in Jobs
               PROVE  Cardinality(Busy(k)') + dead'[k] <= Concurrency
    BY DEF PoolIsBounded
  <2>1. Cardinality(Busy(k)') = 0 /\ dead'[k] = 0
    BY <1>1, <1>5, FS_EmptySet
  <2> QED
    BY <2>1, RemindersAssumption
<1>7. MarkIsEarned' /\ ToldOnce'
  BY <1>1, <1>2, <1>3, RowsFacts DEF MarkIsEarned, ToldOnce
<1>8. StageTold' /\ HourTold'
  BY <1>1, <1>3, RowsFacts DEF StageTold, HourTold, TypeOK
<1> QED
  BY <1>4, <1>6, <1>7, <1>8

LEMMA NextKeeps == ASSUME IInv, [Next]_vars PROVE IInv'
<1>1. CASE ReadDue
  BY <1>1, ReadDueKeeps
<1>2. CASE ReadReview
  BY <1>2, ReadReviewKeeps
<1>3. CASE Crash
  BY <1>3, CrashKeeps
<1>4. CASE Midnight
  BY <1>4, MidnightKeeps
<1>5. CASE \E r \in Rows : Step(r) \/ Fail(r)
  BY <1>5, TakeKeeps, CheckKeeps, CreateKeeps, MarkKeeps, FailKeeps DEF Step
<1>6. CASE \E j \in Jobs : Miss(j)
  BY <1>6, MissKeeps
<1>7. CASE \E i \in Items, s \in {"open", "done"}, d \in Dates : SetDue(i, s, d)
  BY <1>7, SetDueKeeps
<1>8. CASE \E i \in Items : Delete(i) \/ \E s \in {"open", "done"} : SetState(i, s)
  BY <1>8, SetStateKeeps
<1>9. CASE \E b \in Bookings : WriteReview(b) \/ \E v \in BOOLEAN : SetLive(b, v)
  BY <1>9, BookingsKeep
<1>10. CASE UNCHANGED vars
  BY <1>10 DEF vars, IInv, TypeOK, PoolIsBounded, Busy, MarkIsEarned, ToldOnce,
     StageTold, HourTold
<1> QED
  BY <1>1, <1>2, <1>3, <1>4, <1>5, <1>6, <1>7, <1>8, <1>9, <1>10 DEF Next

\* The inductive invariant: what was told follows from where a row stands in
\* its pool, from whether its job has run today, and from the event's date.
THEOREM RemindersInvariant == Spec => []IInv
<1>1. Init => IInv
  BY InitIInv
<1>2. IInv /\ [Next]_vars => IInv'
  BY NextKeeps
<1> QED
  BY <1>1, <1>2, PTL DEF Spec

\* Rows keep their columns and no pool loses more workers than it has.
THEOREM ReminderTypes == Spec => []TypeOK
<1>1. IInv => TypeOK
  BY DEF IInv
<1> QED
  BY <1>1, RemindersInvariant, PTL

\* mapPool keeps to its concurrency, whatever fails.
THEOREM PoolsStayBounded == Spec => []PoolIsBounded
<1>1. IInv => PoolIsBounded
  BY DEF IInv
<1> QED
  BY <1>1, RemindersInvariant, PTL

\* Nothing is marked as notified that was not, whatever fails and when.
THEOREM MarksAreEarned == Spec => []MarkIsEarned
<1>1. IInv => MarkIsEarned
  BY DEF IInv
<1> QED
  BY <1>1, RemindersInvariant, PTL

\* One reminder of an item a day and one request for a booking, though the
\* process may crash between a notification and its mark.
THEOREM NobodyIsToldTwice == Spec => []ToldOnce
<1>1. IInv => ToldOnce
  BY DEF IInv
<1> QED
  BY <1>1, RemindersInvariant, PTL


-----------------------------------------------------------------------------
(* Reminders implements Notices.                                           *)

NoteStep == Note!Next \/ UNCHANGED Note!notices

Reviewed == {b \in Bookings : booking[b].reviewed}
Ran      == {j \in Jobs : hour[j] = "passed"}
Listed   == {r \in Rows : stage[r] # "out"}

LEMMA SameCardinality == \A S : Note!Cardinality(S) = Cardinality(S)
BY Zenon DEF Note!Cardinality, Cardinality

\* What a query finds is what is wanted and not settled.
LEMMA QueriesAreOpen ==
    ASSUME TypeOK
    PROVE  ToRemind = Note!Open("due") /\ ToAsk = Note!Open("review")
<1>1. ToRemind = (Wanted \cap Items) \ Settled
  BY RowsFacts DEF ToRemind, Wanted, Settled
<1>2. ToAsk = (Wanted \cap Bookings) \ Settled
  BY RowsFacts DEF ToAsk, Wanted, Settled
<1> QED
  BY <1>1, <1>2 DEF Note!Open, Note!Of

LEMMA ReadIsNotice ==
    ASSUME IInv, NEW j \in Jobs, NEW B, Read(j, B),
           B \in Batches(IF j = "due" THEN ToRemind ELSE ToAsk)
    PROVE  NoteStep
<1>a. TypeOK
  BY DEF IInv
<1>1. /\ B \in SUBSET Note!Open(j) /\ Note!Cardinality(B) <= Cap
      /\ B = Note!Open(j) \/ Note!Cardinality(B) = Cap
  BY <1>a, QueriesAreOpen, SameCardinality DEF Batches, Jobs
<1>2. B \subseteq Rows
  BY <1>a, RowsFacts DEF Batches, ToRemind, ToAsk, Rows
<1>3. j \notin Ran /\ Ran' = Ran \cup {j}
  BY <1>a DEF Read, Ran, TypeOK
<1>4. Listed' = Listed \cup B
  BY <1>2 DEF Read, Listed
<1>5. UNCHANGED <<Wanted, Reviewed, told, Settled>>
  BY DEF Read, Wanted, Reviewed, Settled, Due
<1>6. Note!List(j)
  BY <1>1, <1>3, <1>4, <1>5 DEF Note!List, Ran, Listed, Reviewed
<1> QED
  BY <1>6 DEF NoteStep, Note!Next, Jobs

\* As far as rows and hours stay as they are, so does what hosts may see.
LEMMA RowsStay ==
    ASSUME UNCHANGED <<item, booking, hour>>
    PROVE  UNCHANGED <<Wanted, Reviewed, Ran, Settled>>
BY DEF Wanted, Reviewed, Ran, Settled, Due

LEMMA CreateIsNotice ==
    ASSUME IInv, NEW r \in Rows, Create(r)
    PROVE  NoteStep
<1>1. UNCHANGED <<Wanted, Reviewed, Ran, Settled>>
  BY RowsStay DEF Create
<1>2. r \in Listed /\ Listed' = Listed
  BY DEF Create, At, Listed, IInv, TypeOK
<1>3. told[r] = 0 /\ told' = [told EXCEPT ![r] = 1]
  <2>1. told[r] = 0
    BY DEF IInv, StageTold, Create
  <2>2. told' = [told EXCEPT ![r] = told[r] + 1]
    BY DEF Create
  <2> QED
    BY <2>1, <2>2
<1>4. Note!Tell(r)
  BY <1>1, <1>2, <1>3 DEF Note!Tell, Listed, Reviewed, Ran
<1> QED
  BY <1>4 DEF NoteStep, Note!Next, Note!Rows, Rows

\* A worker that ends, ends the work on some rows and starts none.
LEMMA LeftIsNotice ==
    ASSUME UNCHANGED <<item, booking, hour, told>>,
           \A r \in Rows : stage'[r] \in {stage[r], "out"}
    PROVE  NoteStep
<1>1. UNCHANGED <<Wanted, Reviewed, Ran, Settled>>
  BY RowsStay
<1>2. Listed' \subseteq Listed
  BY DEF Listed
<1>3. Note!GiveUp
  BY <1>1, <1>2 DEF Note!GiveUp, Listed, Reviewed, Ran
<1> QED
  BY <1>3 DEF NoteStep, Note!Next

LEMMA MarkIsNotice ==
    ASSUME IInv, NEW r \in Rows, Mark(r)
    PROVE  NoteStep
<1>a. TypeOK
  BY DEF IInv
<1>1. stage[r] = "mark" /\ UNCHANGED <<hour, told>>
  BY DEF Mark
<1>2. CASE Throw(r) /\ UNCHANGED <<item, booking>>
  BY <1>1, <1>2, ThrowKeepsPool, LeftIsNotice
<1>3. CASE stage' = At(r, "out") /\ ~(Throw(r) /\ UNCHANGED <<item, booking>>)
  <2>1. r \in Listed /\ Listed' = Listed \ {r}
    BY <1>a, <1>1, <1>3 DEF At, Listed, TypeOK
  <2>2. told[r] = 1 \/ r \in Reviewed
    <3>1. told[r] > 0 \/ r \in Reviewed
      BY <1>1 DEF IInv, StageTold, Rows, Reviewed
    <3>2. told[r] \in Nat /\ told[r] <= 1
      BY DEF IInv, TypeOK, ToldOnce
    <3> QED
      BY <3>1, <3>2
  <2>3. UNCHANGED <<Wanted, Reviewed>> /\ Settled' = Settled \cup {r}
    <3>1. CASE /\ r \in Items /\ item' = [item EXCEPT ![r].notified = "today"]
               /\ UNCHANGED booking
      <4>1. \A i \in Items : /\ item'[i].state = item[i].state /\ item'[i].due = item[i].due
                             /\ item'[i].notified = IF i = r THEN "today" ELSE item[i].notified
        BY <3>1, <1>a DEF TypeOK, Item
      <4> QED
        BY <3>1, <4>1 DEF Wanted, Reviewed, Settled, Due
    <3>2. CASE /\ r \in Bookings /\ booking' = [booking EXCEPT ![r].requested = TRUE]
               /\ UNCHANGED item
      <4>1. \A b \in Bookings : /\ booking'[b].live = booking[b].live
                                /\ booking'[b].day = booking[b].day
                                /\ booking'[b].reviewed = booking[b].reviewed
                                /\ booking'[b].requested = (b = r \/ booking[b].requested)
        <5>1. \A b \in Bookings :
                 booking'[b] = IF b = r THEN [booking[b] EXCEPT !.requested = TRUE] ELSE booking[b]
          BY <3>2, <1>a DEF TypeOK
        <5>2. \A b \in Bookings : booking[b] \in Booking
          BY <1>a DEF TypeOK
        <5> QED
          BY <5>1, <5>2 DEF Booking
      <4>2. UNCHANGED <<Wanted, Reviewed>>
        BY <3>2, <4>1 DEF Wanted, Reviewed, Due
      <4>3. Settled' = Settled \cup {r}
        BY <3>2, <4>1 DEF Settled
      <4> QED
        BY <4>2, <4>3
    <3> QED
      BY <1>3, <3>1, <3>2 DEF Mark
  <2>4. UNCHANGED Ran
    BY <1>1 DEF Ran
  <2>5. Note!Settle(r)
    BY <1>1, <2>1, <2>2, <2>3, <2>4 DEF Note!Settle, Listed, Reviewed, Ran
  <2> QED
    BY <2>5 DEF NoteStep, Note!Next, Note!Rows, Rows
<1> QED
  BY <1>2, <1>3 DEF Mark

LEMMA MissIsNotice ==
    ASSUME IInv, NEW j \in Jobs, Miss(j)
    PROVE  NoteStep
<1>1. j \notin Ran /\ Ran' = Ran \cup {j}
  BY DEF Miss, Ran, IInv, TypeOK
<1>2. UNCHANGED <<Wanted, Reviewed, Listed, told, Settled>>
  BY DEF Miss, Wanted, Reviewed, Listed, Settled, Due
<1>3. Note!Miss(j)
  BY <1>1, <1>2 DEF Note!Miss, Ran, Listed, Reviewed
<1> QED
  BY <1>3 DEF NoteStep, Note!Next, Jobs

\* A host lifts the mark of items only, and unwrites no review.
LEMMA ChangeIsNotice ==
    ASSUME \A i \in Items : item'[i].notified \in {item[i].notified, "never"},
           \A b \in Bookings : /\ booking[b].reviewed => booking'[b].reviewed
                               /\ booking'[b].requested <=> booking[b].requested,
           UNCHANGED <<stage, hour, told>>
    PROVE  NoteStep
<1>1. Wanted' \subseteq Rows
  BY DEF Wanted, Rows
<1>2. Reviewed \subseteq Reviewed' /\ Reviewed' \subseteq Bookings
  BY DEF Reviewed
<1>3. Settled' \subseteq Settled /\ Settled \ Settled' \subseteq Items
  BY DEF Settled
<1>4. UNCHANGED <<Ran, Listed>>
  BY DEF Ran, Listed
<1>5. Note!Change
  BY <1>1, <1>2, <1>3, <1>4 DEF Note!Change, Note!Rows, Rows, Ran, Listed, Reviewed
<1> QED
  BY <1>5 DEF NoteStep, Note!Next

LEMMA HostsAreNotices ==
    ASSUME IInv,
           \/ \E i \in Items : \/ Delete(i)
                               \/ \E s \in {"open", "done"} :
                                     SetState(i, s) \/ \E d \in Dates : SetDue(i, s, d)
           \/ \E b \in Bookings : WriteReview(b) \/ \E v \in BOOLEAN : SetLive(b, v)
    PROVE  NoteStep
<1>a. /\ \A i \in Items : item[i] \in Item
      /\ \A b \in Bookings : booking[b] \in Booking
      /\ item \in [Items -> Item] /\ booking \in [Bookings -> Booking]
  BY DEF IInv, TypeOK
<1>1. CASE \E i \in Items : \/ Delete(i)
                            \/ \E s \in {"open", "done"} :
                                  SetState(i, s) \/ \E d \in Dates : SetDue(i, s, d)
  <2>1. \A i \in Items : item'[i].notified \in {item[i].notified, "never"}
    BY <1>1, <1>a DEF Delete, SetState, SetDue, Item
  <2>2. UNCHANGED <<booking, stage, hour, told>>
    BY <1>1 DEF Delete, SetState, SetDue
  <2> QED
    BY <2>1, <2>2, ChangeIsNotice
<1>2. ASSUME NEW b \in Bookings, WriteReview(b) \/ \E v \in BOOLEAN : SetLive(b, v)
      PROVE  NoteStep
  <2>1. \A c \in Bookings \ {b} : booking'[c] = booking[c]
    BY <1>2, <1>a DEF WriteReview, SetLive
  <2>2. CASE WriteReview(b)
    <3>1. booking'[b] = [booking[b] EXCEPT !.reviewed = TRUE]
      BY <2>2, <1>a DEF WriteReview
    <3>2. booking'[b].reviewed /\ booking'[b].requested = booking[b].requested
      BY <3>1, <1>a DEF Booking
    <3> QED
      BY <2>1, <2>2, <3>2, ChangeIsNotice DEF WriteReview
  <2>3. ASSUME NEW v \in BOOLEAN, SetLive(b, v) PROVE NoteStep
    <3>1. booking'[b] = [booking[b] EXCEPT !.live = v]
      BY <2>3, <1>a DEF SetLive
    <3>2. /\ booking'[b].reviewed = booking[b].reviewed
          /\ booking'[b].requested = booking[b].requested
      BY <3>1, <1>a DEF Booking
    <3> QED
      BY <2>1, <2>3, <3>2, ChangeIsNotice DEF SetLive
  <2> QED
    BY <1>2, <2>2, <2>3
<1> QED
  BY <1>1, <1>2

LEMMA MidnightIsNotice ==
    ASSUME IInv, Midnight
    PROVE  NoteStep
<1>a. TypeOK
  BY DEF IInv
<1>1. Listed = {} /\ Listed' = {} /\ Ran' = {}
  BY DEF Midnight, Listed, Ran
<1>2. told' = [r \in Rows |-> IF r \in Items THEN 0 ELSE told[r]]
  BY DEF Midnight
<1>3. \A i \in Items : item'[i].notified # "today"
  <2>1. PICK due \in [Items -> Dues] :
           item' = [i \in Items |->
                      [item[i] EXCEPT !.due = due[i],
                                      !.notified = IF @ = "today" THEN "before" ELSE @]]
    BY DEF Midnight
  <2> SUFFICES ASSUME NEW i \in Items PROVE item'[i].notified # "today"
    OBVIOUS
  <2>2. item'[i] = [item[i] EXCEPT !.due = due[i],
                       !.notified = IF item[i].notified = "today" THEN "before"
                                                                  ELSE item[i].notified]
    BY <2>1
  <2>3. item[i] \in Item
    BY <1>a DEF TypeOK
  <2> QED
    BY <2>2, <2>3 DEF Item
<1>4. \A b \in Bookings : /\ booking'[b].requested = booking[b].requested
                          /\ booking'[b].reviewed = booking[b].reviewed
  <2>1. PICK day \in [Bookings -> Days] :
           booking' = [b \in Bookings |-> [booking[b] EXCEPT !.day = day[b]]]
    BY DEF Midnight
  <2> SUFFICES ASSUME NEW b \in Bookings
               PROVE  /\ booking'[b].requested = booking[b].requested
                      /\ booking'[b].reviewed = booking[b].reviewed
    OBVIOUS
  <2>2. booking'[b] = [booking[b] EXCEPT !.day = day[b]]
    BY <2>1
  <2>3. booking[b] \in Booking
    BY <1>a DEF TypeOK
  <2> QED
    BY <2>2, <2>3 DEF Booking
<1>5. Settled' = Settled \ Items /\ Reviewed' = Reviewed
  BY <1>3, <1>4, RowsFacts DEF Settled, Reviewed
<1>6. Wanted' \subseteq Rows
  BY DEF Wanted, Rows
<1>7. Note!NextDay
  BY <1>1, <1>2, <1>5, <1>6 DEF Note!NextDay, Note!Rows, Rows, Listed, Ran, Reviewed
<1> QED
  BY <1>7 DEF NoteStep, Note!Next

LEMMA NoticesInit == Init => Note!Init
<1> SUFFICES ASSUME Init PROVE Note!Init
  OBVIOUS
<1>1. /\ \A i \in Items : item[i].notified = "never"
      /\ \A b \in Bookings : ~booking[b].requested /\ booking[b].day = "ahead"
      /\ \A r \in Rows : stage[r] = "out"
      /\ \A j \in Jobs : hour[j] = "ahead"
      /\ told = [r \in Rows |-> 0]
  BY DEF Init
<1>2. Wanted \in SUBSET Items /\ Settled = {}
  BY <1>1 DEF Wanted, Settled
<1>3. Reviewed \in SUBSET Bookings /\ Ran = {} /\ Listed = {}
  BY <1>1 DEF Reviewed, Ran, Listed
<1> QED
  BY <1>1, <1>2, <1>3 DEF Note!Init, Note!Rows, Rows, Reviewed, Ran, Listed

LEMMA NoticesNext == IInv /\ [Next]_vars => [Note!Next]_(Note!notices)
<1> SUFFICES ASSUME IInv, [Next]_vars PROVE NoteStep
  BY DEF NoteStep
<1>1. CASE ReadDue \/ ReadReview
  BY <1>1, ReadIsNotice DEF ReadDue, ReadReview, Jobs
<1>2. ASSUME NEW r \in Rows, Take(r) \/ Check(r) PROVE NoteStep
  <2>1. UNCHANGED <<Wanted, Reviewed, Ran, told, Settled>>
    BY <1>2, RowsStay DEF Take, Check
  <2>2. Listed' = Listed
    BY <1>2 DEF Take, Check, At, Listed, IInv, TypeOK
  <2> QED
    BY <2>1, <2>2 DEF NoteStep, Note!notices, Reviewed, Ran, Listed
<1>3. ASSUME NEW r \in Rows, Fail(r) PROVE NoteStep
  BY <1>3, ThrowKeepsPool, LeftIsNotice DEF Fail
<1>4. CASE Crash
  BY <1>4, LeftIsNotice DEF Crash
<1>5. CASE UNCHANGED vars
  <2>1. UNCHANGED <<Wanted, Reviewed, Ran, told, Settled>> /\ Listed' = Listed
    BY <1>5, RowsStay DEF vars, Listed
  <2> QED
    BY <2>1 DEF NoteStep, Note!notices, Reviewed, Ran, Listed
<1> QED
  BY <1>1, <1>2, <1>3, <1>4, <1>5, CreateIsNotice, MarkIsNotice, MissIsNotice,
     HostsAreNotices, MidnightIsNotice DEF Next, Step

\* Whatever statement fails and whenever the process restarts, hosts are told
\* what Notices says: of rows that were due when the list of the day was read,
\* an item once a day, a booking once, and before the row is marked.
THEOREM NoticesAreImplemented == Spec => ImplementsNotices
<1>1. Init => IInv /\ Note!Init
  BY InitIInv, NoticesInit
<1>2. IInv /\ [Next]_vars => IInv' /\ [Note!Next]_(Note!notices)
  BY NextKeeps, NoticesNext
<1> QED
  BY <1>1, <1>2, PTL DEF Spec, ImplementsNotices, Note!Spec
=============================================================================
