------------------------------ MODULE Register ------------------------------
(***************************************************************************)
(* What accounts promise, whatever becomes of the webhooks on the way: an  *)
(* account is opened, moves from address to address and is closed for      *)
(* good; it only ever has an address the provider has told of its person,  *)
(* and one that nobody else has. A seat goes to someone who had its address *)
(* when a request looked, and comes to bear the address of its holder.     *)
(* Accounts implements this.                                               *)
(*                                                                         *)
(* Source: UsersService in src/apps/api/src/users/users.service.ts, and    *)
(* invite() and accept() in src/apps/api/src/events/.                      *)
(***************************************************************************)
CONSTANTS Person, Address, Seat, NoMail, NoOne

VARIABLES
    told,    \* [Person -> SUBSET Address] what the provider has told of people
    left,    \* who it has told left
    account, \* [Person -> ...] "none", "live" or "dead", and the address it has
    holder,  \* [Seat -> ...]  who holds the seat
    bears,   \* [Seat -> ...]  the address a seat bears, NoMail: not given out
    taken,   \* the seats that were accepted
    found,   \* <<p, a>>: a request found p to have a, <<NoOne, a>>: nobody
    fits     \* <<p, s>>: a request found p to have the address of seat s

accounts == <<told, left, account>>
seating == <<holder, bears, taken, found, fits>>
register == <<accounts, seating>>

Init ==
    /\ told = [p \in Person |-> {}]
    /\ left = {}
    /\ account = [p \in Person |-> [is |-> "none", mail |-> NoMail]]
    /\ holder = [s \in Seat |-> NoOne]
    /\ bears = [s \in Seat |-> NoMail]
    /\ taken = {}
    /\ found = {}
    /\ fits = {}

Forgets == found' \subseteq found /\ fits' \subseteq fits

Tell(p, a) ==
    /\ p \notin left
    /\ told' = [told EXCEPT ![p] = @ \cup {a}]
    /\ UNCHANGED <<left, account, seating>>

Leave(p) ==
    /\ p \notin left
    /\ told[p] # {}
    /\ left' = left \cup {p}
    /\ UNCHANGED <<told, account, seating>>

\* An account is opened with an address, or moves to it; a closed one never.
Hold(p, a) ==
    /\ account[p].is # "dead"
    /\ a \in told[p]
    /\ \A q \in Person \ {p} : account[q].mail # a
    /\ account' = [account EXCEPT ![p] = [is |-> "live", mail |-> a]]
    /\ UNCHANGED <<told, left, seating>>

\* The account of someone who left is closed, and its address is free.
Close(p) ==
    /\ p \in left
    /\ account[p].is = "live"
    /\ account' = [account EXCEPT ![p] = [is |-> "dead", mail |-> NoMail]]
    /\ UNCHANGED <<told, left, seating>>

-----------------------------------------------------------------------------

\* A request looks who has an address ...
Look(p, a) ==
    /\ IF p = NoOne THEN \A q \in Person : account[q].mail # a ELSE account[p].mail = a
    /\ found' = found \cup {<<p, a>>}
    /\ UNCHANGED <<accounts, holder, bears, taken, fits>>

\* ... and a seat is given out to it, and to who was found.
Offer(s, p, a) ==
    /\ <<p, a>> \in found
    /\ bears[s] = NoMail
    /\ bears' = [bears EXCEPT ![s] = a]
    /\ holder' = [holder EXCEPT ![s] = p]
    /\ Forgets
    /\ UNCHANGED <<accounts, taken>>

\* Who was found to have an address takes a seat that bore it, and that
\* nobody had taken.
Fit(s, p) ==
    /\ <<p, bears[s]>> \in found
    /\ s \notin taken
    /\ fits' = fits \cup {<<p, s>>}
    /\ found' \subseteq found
    /\ UNCHANGED <<accounts, holder, bears, taken>>

Take(s, p) ==
    /\ <<p, s>> \in fits
    /\ holder' = [holder EXCEPT ![s] = p]
    /\ taken' = taken \cup {s}
    /\ Forgets
    /\ UNCHANGED <<accounts, bears>>

Forget == Forgets /\ UNCHANGED <<accounts, holder, bears, taken>>

\* The seats someone holds come to bear the address the account has.
Follow(p) ==
    /\ account[p].is = "live"
    /\ bears' = [s \in Seat |-> IF holder[s] = p THEN account[p].mail ELSE bears[s]]
    /\ UNCHANGED <<accounts, holder, taken, found, fits>>

Next ==
    \/ \E p \in Person :
          \/ Leave(p) \/ Close(p) \/ Follow(p)
          \/ \E a \in Address : Tell(p, a) \/ Hold(p, a)
    \/ \E p \in Person \cup {NoOne}, a \in Address :
          Look(p, a) \/ \E s \in Seat : Offer(s, p, a)
    \/ \E p \in Person, s \in Seat : Fit(s, p) \/ Take(s, p)
    \/ Forget

Spec == Init /\ [][Next]_register
=============================================================================
