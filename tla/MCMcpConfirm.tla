--------------------------- MODULE MCMcpConfirm ---------------------------
(* McpConfirm on small instances. *)
EXTENDS McpConfirm, TLC

\* Nothing orders the members of these sets; Jobs has named members.
Symmetry == Permutations(Sessions) \cup Permutations(Events) \cup Permutations(Titles)
                \cup Permutations(Tokens) \cup Permutations(Calls)
=============================================================================
