----------------------------- MODULE StreamPool -----------------------------
(***************************************************************************)
(* What SseService promises a user with several streams, with the Sets,    *)
(* the Map and its finalizers left out: every open stream is reached by    *)
(* what is emitted, and a stream somebody still listens to is only ended   *)
(* to make room for a newer one, when the user has Cap of them and it is   *)
(* the oldest, or when all of them are. LiveStreams implements this.       *)
(*                                                                         *)
(* Source: src/apps/api/src/sse/sse.service.ts.                            *)
(***************************************************************************)
EXTENDS Naturals, FiniteSets

CONSTANTS Conn, Cap

VARIABLES
    open,    \* the streams the server holds open
    reached, \* the streams that what is emitted goes to
    wanted,  \* the streams a client has and has not given up
    earlier  \* pairs of open streams, of which the first was opened first

pool == <<open, reached, wanted, earlier>>

Init ==
    /\ open = {}
    /\ reached = {}
    /\ wanted = {}
    /\ earlier = {}

\* Clients give up streams and ask for new ones. Nobody takes up a stream that
\* is open already.
Heed ==
    /\ wanted' \subseteq wanted \cup (Conn \ open)
    /\ UNCHANGED <<open, reached, earlier>>

\* c is opened beside the streams that stay.
Admit(c, kept) ==
    /\ open' = kept \cup {c}
    /\ reached' = open'
    /\ earlier' = (earlier \cap (kept \X kept)) \cup (kept \X {c})
    /\ UNCHANGED wanted

Oldest(c) == c \in open /\ \A d \in open \ {c} : <<c, d>> \in earlier

Join(c) ==
    /\ c \notin open
    /\ \/ Cardinality(open) < Cap /\ Admit(c, open)
       \/ /\ Cardinality(open) = Cap
          /\ \E o \in open : Oldest(o) /\ Admit(c, open \ {o})

\* A stream nobody wants is dropped when the server notices.
Drop(c) ==
    /\ c \in open \ wanted
    /\ open' = open \ {c}
    /\ reached' = open'
    /\ earlier' = earlier \cap (open' \X open')
    /\ UNCHANGED wanted

\* The server stops, and all streams end with it.
Stop ==
    /\ open' = {}
    /\ reached' = {}
    /\ earlier' = {}
    /\ UNCHANGED wanted

Next == Heed \/ (\E c \in Conn : Join(c) \/ Drop(c)) \/ Stop

Spec == Init /\ [][Next]_pool
=============================================================================
