-------------------------- MODULE MCInquiryThread --------------------------
(* InquiryThread on small instances. *)
EXTENDS InquiryThread, TLC

\* Slots and message ids are interchangeable, and no property orders them.
Symmetry == Permutations(Messages) \cup Permutations(Requests)
=============================================================================
