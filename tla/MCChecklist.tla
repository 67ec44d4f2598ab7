---------------------------- MODULE MCChecklist ----------------------------
(* The checklists for TLC: rows, events, texts and requests are             *)
(* interchangeable, and so are people other than the host.                  *)
EXTENDS Checklist, TLC

Swaps == Permutations(Item) \cup Permutations(Event) \cup Permutations(Text)
         \cup Permutations(Caller) \cup Permutations(Member)
=============================================================================
