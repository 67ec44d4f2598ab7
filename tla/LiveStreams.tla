---------------------------- MODULE LiveStreams ----------------------------
(***************************************************************************)
(* The live event streams of one signed-in user.                           *)
(*                                                                         *)
(* Server side: SseService keeps, per user, a Set of connections in a Map. *)
(* subscribe() adds one, after ending the oldest ones when the Set is      *)
(* full; the finalizer of a connection takes it out of the Set it was put  *)
(* into, and takes the user's entry out of the Map when that Set is empty, *)
(* whichever Set the entry holds by then. emit() reaches the connections   *)
(* of the Set in the Map and no other.                                     *)
(*                                                                         *)
(* Browser side: sse-connection.ts keeps one EventSource per tab, with a   *)
(* count of holders, a delayed release and a timer that reopens it. The    *)
(* browser itself reconnects a stream that ends; an answer other than 200  *)
(* closes the EventSource for good and only the timer opens another.       *)
(*                                                                         *)
(* A connection the client has given up may stay registered: the server    *)
(* learns of it late or never. The insertion order of a Set is kept as     *)
(* age: how many connections were put into the Set after this one.         *)
(***************************************************************************)
EXTENDS Naturals, FiniteSets

CONSTANTS
    Tab,        \* browser tabs of the user
    Conn,       \* requests to GET /sse/stream, reused once both ends forgot
    SetObject,  \* the Sets the service creates, reused once empty
    NoConn, NoSet,
    Cap,        \* SSE_MAX_CONNECTIONS_PER_USER
    MaxHolders, \* components of a tab that retain the stream at once
    MaxVisits,  \* bound: calls of retainSse in all
    MaxFaults   \* bound: lost connections, refusals and restarts in all

ASSUME NoneAssumption == NoConn \notin Conn /\ NoSet \notin SetObject
ASSUME CapAssumption == Cap \in Nat /\ Cap >= 2
ASSUME BoundAssumption == MaxHolders \in Nat /\ MaxVisits \in Nat /\ MaxFaults \in Nat

VARIABLES
    holders,        \* [Tab -> Nat]      retainSse calls not yet released
    releaseTimer,   \* [Tab -> BOOLEAN]  the delayed release is due
    reconnectTimer, \* [Tab -> BOOLEAN]  a reopening is due
    es,             \* [Tab -> ...]      readyState of the EventSource, "none" for null
    link,           \* [Tab -> Conn]     the request the EventSource has made
    request,        \* [Conn -> ...]     the request at the server
    home,           \* [Conn -> SetObject] the Set subscribe() captured for it
    age,            \* [Conn -> Nat]     connections added to that Set after it
    current,        \* the Set that the Map holds for the user
    visits, faults

tabVars    == <<holders, releaseTimer, reconnectTimer, es, link>>
serverVars == <<request, home, age, current>>
vars       == <<tabVars, serverVars, visits, faults>>

Members(s) == {c \in Conn : home[c] = s}

TypeOK ==
    /\ holders \in [Tab -> Nat]
    /\ releaseTimer \in [Tab -> BOOLEAN]
    /\ reconnectTimer \in [Tab -> BOOLEAN]
    /\ es \in [Tab -> {"none", "connecting", "open"}]
    /\ link \in [Tab -> Conn \cup {NoConn}]
    /\ request \in [Conn -> {"free", "auth", "live"}]
    /\ home \in [Conn -> SetObject \cup {NoSet}]
    /\ age \in [Conn -> Nat]
    /\ current \in SetObject \cup {NoSet}
    /\ visits \in Nat
    /\ faults \in Nat

Init ==
    /\ holders = [t \in Tab |-> 0]
    /\ releaseTimer = [t \in Tab |-> FALSE]
    /\ reconnectTimer = [t \in Tab |-> FALSE]
    /\ es = [t \in Tab |-> "none"]
    /\ link = [t \in Tab |-> NoConn]
    /\ request = [c \in Conn |-> "free"]
    /\ home = [c \in Conn |-> NoSet]
    /\ age = [c \in Conn |-> 0]
    /\ current = NoSet
    /\ visits = 0
    /\ faults = 0

-----------------------------------------------------------------------------
(* The tab: sse-connection.ts                                              *)

\* open(): nothing without holders, nothing while a source is usable.
Opened(t, held) == IF held > 0 /\ es[t] = "none" THEN "connecting" ELSE es[t]

Retain(t) ==
    /\ visits < MaxVisits
    /\ holders[t] < MaxHolders
    /\ visits' = visits + 1
    /\ holders' = [holders EXCEPT ![t] = @ + 1]
    /\ releaseTimer' = [releaseTimer EXCEPT ![t] = FALSE]
    /\ es' = [es EXCEPT ![t] = Opened(t, holders[t] + 1)]
    /\ UNCHANGED <<reconnectTimer, link, serverVars, faults>>

\* Slip: every release is counted, also when nobody holds the stream.
Release_BelowZero(t) ==
    /\ holders' = [holders EXCEPT ![t] = @ - 1]
    /\ releaseTimer' = [releaseTimer EXCEPT ![t] = @ \/ holders[t] = 1]
    /\ UNCHANGED <<reconnectTimer, es, link, serverVars, visits, faults>>

Release(t) ==
    /\ holders[t] > 0
    /\ holders' = [holders EXCEPT ![t] = @ - 1]
    /\ releaseTimer' = [releaseTimer EXCEPT ![t] = @ \/ holders[t] = 1]
    /\ UNCHANGED <<reconnectTimer, es, link, serverVars, visits, faults>>

ReleaseFires(t) ==
    /\ releaseTimer[t]
    /\ releaseTimer' = [releaseTimer EXCEPT ![t] = FALSE]
    /\ IF holders[t] > 0
       THEN UNCHANGED <<reconnectTimer, es, link>>
       ELSE /\ reconnectTimer' = [reconnectTimer EXCEPT ![t] = FALSE]
            /\ es' = [es EXCEPT ![t] = "none"]
            /\ link' = [link EXCEPT ![t] = NoConn]
    /\ UNCHANGED <<holders, serverVars, visits, faults>>

\* onerror with readyState CLOSED schedules it after the backoff.
ReconnectFires(t) ==
    /\ reconnectTimer[t]
    /\ reconnectTimer' = [reconnectTimer EXCEPT ![t] = FALSE]
    /\ es' = [es EXCEPT ![t] = Opened(t, holders[t])]
    /\ UNCHANGED <<holders, releaseTimer, link, serverVars, visits, faults>>

\* The page is left or closed: its module state goes with it.
Unload(t) ==
    /\ holders[t] > 0
    /\ holders' = [holders EXCEPT ![t] = 0]
    /\ releaseTimer' = [releaseTimer EXCEPT ![t] = FALSE]
    /\ reconnectTimer' = [reconnectTimer EXCEPT ![t] = FALSE]
    /\ es' = [es EXCEPT ![t] = "none"]
    /\ link' = [link EXCEPT ![t] = NoConn]
    /\ UNCHANGED <<serverVars, visits, faults>>

-----------------------------------------------------------------------------
(* The browser's EventSource and the network between it and the API        *)

Forgotten(c) == request[c] = "free" /\ \A t \in Tab : link[t] # c

SendRequest(t) ==
    /\ es[t] = "connecting"
    /\ link[t] = NoConn
    /\ \E c \in Conn :
          /\ Forgotten(c)
          /\ link' = [link EXCEPT ![t] = c]
          /\ request' = [request EXCEPT ![c] = "auth"]
    /\ UNCHANGED <<holders, releaseTimer, reconnectTimer, es, home, age, current,
                   visits, faults>>

SeesOpen(t) ==
    /\ es[t] = "connecting"
    /\ link[t] # NoConn
    /\ request[link[t]] = "live"
    /\ es' = [es EXCEPT ![t] = "open"]
    /\ UNCHANGED <<holders, releaseTimer, reconnectTimer, link, serverVars, visits, faults>>

\* The response ended or the connection broke: the browser goes back to
\* CONNECTING by itself, and onerror returns early.
Reconnecting(t) ==
    /\ es' = [es EXCEPT ![t] = "connecting"]
    /\ link' = [link EXCEPT ![t] = NoConn]
    /\ UNCHANGED <<holders, releaseTimer, reconnectTimer, serverVars, visits>>

SeesEnd(t) ==
    /\ link[t] # NoConn
    /\ request[link[t]] = "free"
    /\ Reconnecting(t)
    /\ UNCHANGED faults

Break(t) ==
    /\ link[t] # NoConn
    /\ faults < MaxFaults
    /\ faults' = faults + 1
    /\ Reconnecting(t)

\* Slip: a refused source is closed and nothing reopens it.
Refuse_GivesUp(t) ==
    /\ link[t] # NoConn
    /\ request[link[t]] = "auth"
    /\ faults < MaxFaults
    /\ faults' = faults + 1
    /\ request' = [request EXCEPT ![link[t]] = "free"]
    /\ es' = [es EXCEPT ![t] = "none"]
    /\ link' = [link EXCEPT ![t] = NoConn]
    /\ UNCHANGED <<holders, releaseTimer, reconnectTimer, home, age, current, visits>>

\* 401 from the API, 503 from the proxy: readyState CLOSED, onerror closes
\* the source and schedules the reopening while somebody holds the stream.
Refuse(t) ==
    /\ link[t] # NoConn
    /\ request[link[t]] = "auth"
    /\ faults < MaxFaults
    /\ faults' = faults + 1
    /\ request' = [request EXCEPT ![link[t]] = "free"]
    /\ es' = [es EXCEPT ![t] = "none"]
    /\ link' = [link EXCEPT ![t] = NoConn]
    /\ reconnectTimer' = [reconnectTimer EXCEPT ![t] = @ \/ holders[t] > 0]
    /\ UNCHANGED <<holders, releaseTimer, home, age, current, visits>>

-----------------------------------------------------------------------------
(* The API: SseController.stream and SseService                            *)

\* Slip: a full Set is emptied, with its entry, before the next one joins it.
Evicted_All(s) == {c \in Members(s) : Cardinality(Members(s)) >= Cap}

\* The while loop of subscribe(): the oldest go until fewer than Cap are left.
Evicted(s) == {c \in Members(s) : age[c] + 1 >= Cap}

\* drop() runs the finalizer of each evicted one, which removes the Map entry
\* if it emptied the Set; the new connection joins the Set all the same.
SubscribeInto(c, s) ==
    LET gone == Evicted(s)
        kept == Members(s) \ gone
    IN  /\ request' = [d \in Conn |-> IF d = c THEN "live"
                                      ELSE IF d \in gone THEN "free" ELSE request[d]]
        /\ home' = [d \in Conn |-> IF d = c THEN s
                                   ELSE IF d \in gone THEN NoSet ELSE home[d]]
        /\ age' = [d \in Conn |-> IF d = c \/ d \in gone THEN 0
                                  ELSE IF d \in kept THEN age[d] + 1 ELSE age[d]]
        /\ current' = IF gone # {} /\ kept = {} THEN NoSet ELSE s

Subscribe(c) ==
    /\ request[c] = "auth"
    /\ \/ current # NoSet /\ SubscribeInto(c, current)
       \/ current = NoSet /\ \E s \in SetObject : Members(s) = {} /\ SubscribeInto(c, s)
    /\ UNCHANGED <<tabVars, visits, faults>>

\* Slip: the finalizer drops the user's entry without looking at the Set.
Finalize_DropsEntry(c) ==
    /\ request' = [request EXCEPT ![c] = "free"]
    /\ home' = [home EXCEPT ![c] = NoSet]
    /\ age' = [d \in Conn |-> IF d = c THEN 0
                              ELSE IF home[d] = home[c] /\ age[d] > age[c] THEN age[d] - 1
                              ELSE age[d]]
    /\ current' = NoSet

\* The finalizer of a connection, run when the server learns that the client
\* has gone.
Finalize(c) ==
    /\ request' = [request EXCEPT ![c] = "free"]
    /\ home' = [home EXCEPT ![c] = NoSet]
    /\ age' = [d \in Conn |-> IF d = c THEN 0
                              ELSE IF home[d] = home[c] /\ age[d] > age[c] THEN age[d] - 1
                              ELSE age[d]]
    /\ current' = IF Members(home[c]) = {c} THEN NoSet ELSE current

NoticeClose(c) ==
    /\ request[c] = "live"
    /\ \A t \in Tab : link[t] # c
    /\ Finalize(c)
    /\ UNCHANGED <<tabVars, visits, faults>>

\* A request whose client left before it was authenticated.
Abandon(c) ==
    /\ request[c] = "auth"
    /\ \A t \in Tab : link[t] # c
    /\ request' = [request EXCEPT ![c] = "free"]
    /\ UNCHANGED <<tabVars, home, age, current, visits, faults>>

\* onModuleDestroy, or a crash: every stream ends and the Map is empty.
Restart ==
    /\ faults < MaxFaults
    /\ faults' = faults + 1
    /\ request' = [c \in Conn |-> "free"]
    /\ home' = [c \in Conn |-> NoSet]
    /\ age' = [c \in Conn |-> 0]
    /\ current' = NoSet
    /\ UNCHANGED <<tabVars, visits>>

-----------------------------------------------------------------------------
TabStep(t) ==
    \/ Retain(t) \/ Release(t) \/ ReleaseFires(t) \/ ReconnectFires(t) \/ Unload(t)
    \/ SendRequest(t) \/ SeesOpen(t) \/ SeesEnd(t) \/ Break(t) \/ Refuse(t)

ServerStep(c) == Subscribe(c) \/ NoticeClose(c) \/ Abandon(c)

Next ==
    \/ \E t \in Tab : TabStep(t)
    \/ \E c \in Conn : ServerStep(c)
    \/ Restart

\* Timers fire, the browser retries, requests are answered. Nothing makes the
\* server notice a client that has gone, and nothing makes a user do anything.
Fairness ==
    /\ \A t \in Tab : /\ WF_vars(ReconnectFires(t))
                      /\ WF_vars(ReleaseFires(t))
                      /\ WF_vars(SendRequest(t))
                      /\ WF_vars(SeesOpen(t))
                      /\ WF_vars(SeesEnd(t))
    /\ \A c \in Conn : WF_vars(Subscribe(c))

Spec == Init /\ [][Next]_vars /\ Fairness

-----------------------------------------------------------------------------
(* Properties                                                              *)

\* emit() reaches every stream the server holds open: none is left in a Set
\* that the Map has lost, where it would only ever hear heartbeats.
StreamsReached ==
    \A c \in Conn : request[c] = "live" => /\ current # NoSet
                                           /\ home[c] = current

\* A user never has more than Cap streams, so a client that leaks them cannot
\* multiply every event.
StreamsCapped == Cardinality({c \in Conn : request[c] = "live"}) <= Cap

\* A tab that wants events has a source or a timer that opens one: no order of
\* errors, releases and remounts leaves it silent for good.
HeldTabTries ==
    \A t \in Tab : holders[t] > 0 => es[t] # "none" \/ reconnectTimer[t]

\* Once the delayed release has run, a tab nobody holds has no source and no
\* timer that would open one behind the user's back.
ReleasedTabRests ==
    \A t \in Tab : holders[t] = 0 /\ ~releaseTimer[t] =>
        es[t] = "none" /\ ~reconnectTimer[t] /\ link[t] = NoConn

\* The streams of the tabs stop ending one another: with as many tabs as the
\* cap, and whatever dead connections lost clients left registered, every held
\* tab ends up with an open stream that emit() reaches and keeps it.
Served(t) == /\ es[t] = "open"
             /\ link[t] # NoConn
             /\ request[link[t]] = "live"
             /\ home[link[t]] = current
TabsSettle == \A t \in Tab : <>[](holders[t] > 0 => Served(t))


-----------------------------------------------------------------------------
(* The abstract specification                                              *)

Live    == {c \in Conn : request[c] = "live"}
Heard   == IF current = NoSet THEN {} ELSE Members(current)
Wanted  == {c \in Conn : \E t \in Tab : link[t] = c}
Earlier == {x \in Live \X Live : age[x[1]] > age[x[2]]}

Pool == INSTANCE StreamPool WITH
    open <- Live, reached <- Heard, wanted <- Wanted, earlier <- Earlier

\* Whatever order evictions, finalizers, restarts and reconnections come in,
\* the streams of a user are the pool that StreamPool describes: emit()
\* reaches all of them, and subscribe() ends no stream but the oldest, and
\* that only when there are Cap.
ImplementsPool == Pool!Spec
=============================================================================
