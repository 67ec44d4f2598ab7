---------------------------- MODULE MCGuestList ----------------------------
(* The guest list for TLC: rows, addresses and requests are interchangeable. *)
EXTENDS GuestList, TLC

Swaps == Permutations(Guest) \cup Permutations(Mail) \cup Permutations(Caller)
=============================================================================
