--------------------------- MODULE MCEventCircle ---------------------------
(* EventCircle on small instances. *)
EXTENDS EventCircle, TLC

\* Everyone is offered the website, as an editor or, which is refused, as a viewer.
SiteTerms == {[role |-> "EDITOR", surfaces |-> {"SITE"}],
              [role |-> "VIEWER", surfaces |-> {"SITE"}]}

\* Where roles and surfaces do not matter.
PlainTerms == {[role |-> "VIEWER", surfaces |-> {"TABS"}]}

\* Updates that change the role alone, or the sub-events.
OneByOne == {{"role"}, {"childGrants"}}

GrantsOnly == {{"childGrants"}}

\* Events, people, seats and slots are interchangeable.
Symmetry == Permutations(Events) \cup Permutations(People)
            \cup Permutations(Seats) \cup Permutations(Requests)
=============================================================================
