-------------------------- MODULE McpConfirmProofs --------------------------
(***************************************************************************)
(* Proofs about McpConfirm for any number of sessions, events, tokens and  *)
(* calls in flight: its types, that a job only runs on the strength of a   *)
(* token that grants it, and that a late confirmation is refused.          *)
(*                                                                         *)
(* Spending reads the token and marks it later, so the inductive invariant *)
(* IInv follows the token through the call that presents it (CallOK): what *)
(* the read established stays true because tokens only ever advance from   *)
(* none to open to spent and are never issued twice (TokensAdvance).       *)
(*                                                                         *)
(* The second part is about calls that do not overlap (OneCall): what a    *)
(* call has found is then still so when it acts on it (Sure), and          *)
(* McpConfirm implements ConfirmGate.  Calls may still die half way, and   *)
(* tokens expire and sessions idle while one is in flight.                 *)
(***************************************************************************)
EXTENDS McpConfirm, FiniteSetTheorems, TLAPS

Past(k) == k.at \in {"spend", "job"}

\* The call holds a token issued to its session for its job and its arguments.
Holds(k) ==
    /\ k.token \in Tokens
    /\ token[k.token].state # "none"
    /\ token[k.token].session = k.session
    /\ token[k.token].job = k.tool
    /\ token[k.token].ref = k.ref

CallOK(k) ==
    /\ k.at # "idle" => k.tool \in Tools /\ k.session \in Sessions
    /\ k.at \in {"resolve", "current", "pin"} => k.tool # "clear_current_event"
    /\ k.at = "current" => k.ref = None
    /\ k.at \in {"pin", "confirm", "spend", "job"} =>
           k.event \in Events /\ (k.ref \in Events => k.event = k.ref)
    /\ k.at \in {"confirm", "spend", "job"} => k.tool \in Jobs
    /\ Past(k) => Holds(k) /\ ~k.used
    /\ k.at = "job" => token[k.token].state = "spent"
    /\ k.used => k.token \in Tokens /\ token[k.token].state = "spent"

\* A preview of a job on an event named by id was about that event.
GrantOK(t) == token[t].ref \in Events => token[t].shown = token[t].ref

IInv ==
    /\ TypeOK
    /\ \A c \in Calls : CallOK(call[c])
    /\ \A t \in Tokens : GrantOK(t)
    /\ RunsAreGranted

\* What no step ever takes back from a token.
TokensAdvance == \A t \in Tokens : token[t].state # "none" =>
    /\ token'[t].state # "none"
    /\ token[t].state = "spent" => token'[t].state = "spent"
    /\ token'[t].session = token[t].session
    /\ token'[t].job = token[t].job
    /\ token'[t].ref = token[t].ref
    /\ token'[t].shown = token[t].shown

---------------------------------------------------------------------------
LEMMA IdleType == Idle \in Call /\ CallOK(Idle)
<1>1. Idle \in Call
  BY DEF Idle, Call, Phases, Refs
<1>2. Idle.at = "idle" /\ Idle.used = FALSE
  BY DEF Idle
<1> QED BY <1>1, <1>2 DEF CallOK, Past

\* A call keeps what it knows of its token while tokens advance.
LEMMA AdvanceKeepsCall ==
    ASSUME TokensAdvance, NEW k \in Call, CallOK(k)
    PROVE  CallOK(k)'
<1>1. Past(k) => Holds(k)'
  BY DEF CallOK, Past, Holds, TokensAdvance
<1>2. k.used => token'[k.token].state = "spent"
  BY DEF CallOK, TokensAdvance
<1>3. k.at = "job" => token'[k.token].state = "spent"
  BY DEF CallOK, TokensAdvance, Past, Holds
<1> QED BY <1>1, <1>2, <1>3 DEF CallOK, Past

\* A step of call c, from one local state to the next, k, in which nothing runs.
LEMMA CallStepKeeps ==
    ASSUME IInv, NEW c \in Calls, NEW k \in Call,
           call' = [call EXCEPT ![c] = k], CallOK(k)',
           TokensAdvance, token' \in [Tokens -> Token],
           \A t \in Tokens : GrantOK(t)',
           session' \in [Sessions -> Session],
           UNCHANGED <<grants, history>>
    PROVE  IInv'
<1>1. /\ call' \in [Calls -> Call]
      /\ \A d \in Calls : call'[d] = IF d = c THEN k ELSE call[d]
  BY DEF IInv, TypeOK
<1>2. TypeOK'
  BY <1>1 DEF IInv, TypeOK, grants, history
<1>3. ASSUME NEW d \in Calls PROVE CallOK(call[d])'
  <2>1. CASE d = c
    BY <2>1, <1>1 DEF CallOK, Past, Holds
  <2>2. CASE d # c
    <3>1. call[d] \in Call /\ CallOK(call[d]) /\ call'[d] = call[d]
      BY <2>2, <1>1 DEF IInv, TypeOK
    <3>2. \A j \in Call : CallOK(j) => CallOK(j)'
      BY AdvanceKeepsCall
    <3> QED BY <3>1, <3>2 DEF CallOK, Past, Holds
  <2> QED BY <2>1, <2>2
<1>4. RunsAreGranted'
  BY DEF IInv, TypeOK, RunsAreGranted, TokensAdvance, Run, history
<1> QED BY <1>2, <1>3, <1>4 DEF IInv

\* The steps that leave the tokens alone.
LEMMA QuietStepKeeps ==
    ASSUME IInv, NEW c \in Calls, NEW k \in Call,
           call' = [call EXCEPT ![c] = k], CallOK(k),
           session' \in [Sessions -> Session],
           UNCHANGED <<token, grants, history>>
    PROVE  IInv'
<1>1. TokensAdvance /\ token' \in [Tokens -> Token]
  BY DEF TokensAdvance, IInv, TypeOK
<1>2. \A t \in Tokens : GrantOK(t)'
  BY DEF IInv, GrantOK
<1>3. CallOK(k)'
  BY DEF CallOK, Past, Holds
<1> QED BY <1>1, <1>2, <1>3, CallStepKeeps DEF grants, history

LEMMA ReturnKeeps ==
    ASSUME IInv, NEW c \in Calls, Return(c), session' \in [Sessions -> Session],
           UNCHANGED <<token, grants, history>>
    PROVE  IInv'
BY IdleType, QuietStepKeeps DEF Return

\* A step that leaves the calls, the tokens and the history alone.
LEMMA SurroundingsKeep ==
    ASSUME IInv, session' \in [Sessions -> Session],
           access' \in [Events -> {"granted", "withheld", "deleted"}],
           title' \in [Events -> Titles],
           UNCHANGED <<token, call, history>>
    PROVE  IInv'
<1>1. TypeOK'
  BY DEF IInv, TypeOK, history
<1>2. (\A c \in Calls : CallOK(call[c]))'
  BY DEF IInv, CallOK, Past, Holds
<1>3. (\A t \in Tokens : GrantOK(t))' /\ RunsAreGranted'
  BY DEF IInv, GrantOK, RunsAreGranted, history
<1> QED BY <1>1, <1>2, <1>3 DEF IInv

---------------------------------------------------------------------------
(* The steps of a call *)

LEMMA ArriveKeeps ==
    ASSUME IInv, NEW c \in Calls, NEW tool \in Tools, NEW s \in Sessions, NEW ref \in Refs,
           NEW t \in Tokens \cup {None}, TouchRead(c, tool, s, ref, t)
    PROVE  IInv'
<1> DEFINE k == Incoming(tool, s, ref, t)
<1>1. k \in Call
  BY DEF Incoming, Call, Phases, Found
<1>2. /\ k.at = "touch" /\ k.tool = tool /\ k.session = s /\ k.token = t
      /\ k.used = (t # None /\ token[t].state = "spent")
  BY DEF Incoming
<1>3. CallOK(k)
  BY <1>2 DEF CallOK, Past
<1>4. call' = [call EXCEPT ![c] = k]
  BY DEF TouchRead
<1>5. session' \in [Sessions -> Session]
  BY DEF TouchRead, IInv, TypeOK
<1> HIDE DEF k
<1> QED BY <1>1, <1>3, <1>4, <1>5, QuietStepKeeps DEF TouchRead

LEMMA TouchWriteKeeps ==
    ASSUME IInv, NEW c \in Calls, TouchWrite(c)
    PROVE  IInv'
<1> DEFINE s == call[c].session
           phase == IF call[c].tool = "clear_current_event" THEN "unpin" ELSE "resolve"
           k == [call[c] EXCEPT !.at = phase]
<1>1. call[c] \in Call /\ CallOK(call[c]) /\ call[c].at = "touch" /\ s \in Sessions
  BY DEF IInv, TypeOK, TouchWrite, CallOK
<1>2. session' \in [Sessions -> Session]
  <2> DEFINE e == IF call[c].found = "stale" THEN None ELSE session[s].current
             row == [session[s] EXCEPT !.exists = TRUE, !.stale = FALSE, !.current = e]
  <2>1. session[s] \in Session /\ row \in Session
    BY <1>1 DEF IInv, TypeOK, Session
  <2>2. session' = session \/ session' = [session EXCEPT ![s] = row]
    BY DEF TouchWrite
  <2> HIDE DEF row
  <2> QED BY <1>1, <2>1, <2>2 DEF IInv, TypeOK
<1>3. CASE Return(c)
  BY <1>2, <1>3, ReturnKeeps DEF TouchWrite
<1>4. CASE Goto(c, phase)
  <2>1. phase \in Phases /\ phase \in {"unpin", "resolve"}
    BY DEF Phases
  <2>2. k \in Call /\ k.at = phase /\ k.tool = call[c].tool /\ k.session = s
        /\ k.used = call[c].used /\ k.token = call[c].token
    BY <1>1, <2>1 DEF Call
  <2>3. CallOK(k)
    BY <1>1, <2>1, <2>2 DEF CallOK, Past
  <2>4. call' = [call EXCEPT ![c] = k]
    BY <1>4 DEF Goto
  <2> HIDE DEF k
  <2> QED BY <1>2, <2>2, <2>3, <2>4, QuietStepKeeps DEF TouchWrite
<1> QED BY <1>3, <1>4 DEF TouchWrite

\* A call that goes on with another phase, event and list of events.
LEMMA MoveKeeps ==
    ASSUME IInv, NEW c \in Calls, NEW phase \in Phases, NEW e \in Events \cup {None},
           NEW seen \in SUBSET Events,
           LET k == [call[c] EXCEPT !.at = phase, !.event = e, !.seen = seen]
           IN  call' = [call EXCEPT ![c] = k],
           call[c].at # "idle", phase # "idle",
           phase \in {"resolve", "current", "pin"} => call[c].tool # "clear_current_event",
           phase = "current" => call[c].ref = None,
           phase \in {"pin", "confirm", "spend", "job"} =>
               e \in Events /\ (call[c].ref \in Events => e = call[c].ref),
           phase \in {"confirm", "spend", "job"} => call[c].tool \in Jobs,
           phase = "spend" => Holds(call[c]) /\ ~call[c].used,
           phase # "job",
           session' \in [Sessions -> Session],
           UNCHANGED <<token, grants, history>>
    PROVE  IInv'
<1> DEFINE k == [call[c] EXCEPT !.at = phase, !.event = e, !.seen = seen]
<1>1. call[c] \in Call /\ CallOK(call[c])
  BY DEF IInv, TypeOK
<1>2. k \in Call
  BY <1>1 DEF Call
<1>3. /\ k.at = phase /\ k.event = e /\ k.tool = call[c].tool /\ k.session = call[c].session
      /\ k.ref = call[c].ref /\ k.token = call[c].token /\ k.used = call[c].used
  BY <1>1 DEF Call
<1>4. call' = [call EXCEPT ![c] = k]
  OBVIOUS
<1> HIDE DEF k
<1>5. CallOK(k)
  BY <1>1, <1>3 DEF CallOK, Past, Holds
<1> QED BY <1>2, <1>4, <1>5, QuietStepKeeps

LEMMA GotoIsMove ==
    ASSUME TypeOK, NEW c \in Calls, NEW phase \in Phases, Goto(c, phase)
    PROVE  call' = [call EXCEPT ![c] = [call[c] EXCEPT !.at = phase, !.event = call[c].event,
                                                       !.seen = call[c].seen]]
<1> DEFINE k == [call[c] EXCEPT !.at = phase]
           j == [call[c] EXCEPT !.at = phase, !.event = call[c].event, !.seen = call[c].seen]
<1>1. call[c] \in Call
  BY DEF TypeOK
<1>2. k = j
  BY <1>1 DEF Call
<1>3. call' = [call EXCEPT ![c] = k]
  BY DEF Goto
<1> HIDE DEF k, j
<1>4. call' = [call EXCEPT ![c] = j]
  BY <1>2, <1>3
<1> QED BY <1>4 DEF j

\* An event found by id or by title is one of the events, and the one with that id.
LEMMA NamedEvent ==
    ASSUME NEW ref \in Refs, Cardinality(Named(ref)) = 1
    PROVE  LET e == CHOOSE x \in Named(ref) : TRUE
           IN  e \in Events /\ (ref \in Events => e = ref)
<1>1. Named(ref) # {}
  BY FS_EmptySet
<1>2. (CHOOSE x \in Named(ref) : TRUE) \in Named(ref)
  BY <1>1
<1> QED BY <1>2 DEF Named, Titled, visible

LEMMA ResolveNamedKeeps ==
    ASSUME IInv, NEW c \in Calls, ResolveNamed(c)
    PROVE  IInv'
<1> DEFINE found == Named(call[c].ref)
           e == CHOOSE x \in found : TRUE
<1>1. /\ call[c] \in Call /\ CallOK(call[c]) /\ call[c].at = "resolve"
      /\ call[c].ref \in Refs /\ session' \in [Sessions -> Session]
  BY DEF IInv, TypeOK, ResolveNamed, Call
<1>2. CASE Return(c)
  BY <1>1, <1>2, ReturnKeeps DEF ResolveNamed
<1>3. CASE Cardinality(found) = 1 /\ GotoOn(c, "pin", e)
  <2>1. e \in Events /\ (call[c].ref \in Events => e = call[c].ref)
    BY <1>1, <1>3, NamedEvent
  <2>2. "pin" \in Phases /\ {} \in SUBSET Events
    BY DEF Phases
  <2>3. call[c].tool # "clear_current_event"
    BY <1>1 DEF CallOK
  <2>4. call' = [call EXCEPT ![c] = [call[c] EXCEPT !.at = "pin", !.event = e, !.seen = {}]]
    BY <1>3 DEF GotoOn
  <2> HIDE DEF e
  <2> QED BY <1>1, <2>1, <2>2, <2>3, <2>4, MoveKeeps DEF ResolveNamed
<1> QED BY <1>2, <1>3 DEF ResolveNamed

LEMMA PinKeeps ==
    ASSUME IInv, NEW c \in Calls, Pin(c)
    PROVE  IInv'
<1> DEFINE s == call[c].session
           row == [session[s] EXCEPT !.current = call[c].event]
<1>1. /\ call[c] \in Call /\ CallOK(call[c]) /\ call[c].at = "pin" /\ s \in Sessions
      /\ call[c].event \in Events
  BY DEF IInv, TypeOK, Pin, CallOK
<1>2. session' \in [Sessions -> Session]
  <2>1. row \in Session
    BY <1>1 DEF IInv, TypeOK, Session
  <2>2. session' = [session EXCEPT ![s] = row]
    BY DEF Pin
  <2> HIDE DEF row
  <2> QED BY <1>1, <2>1, <2>2 DEF IInv, TypeOK
<1>3. CASE Return(c)
  BY <1>2, <1>3, ReturnKeeps DEF Pin
<1>4. CASE call[c].tool # "set_current_event" /\ Goto(c, "confirm")
  <2>1. call[c].tool \in Jobs
    BY <1>1, <1>4, ConfirmAssumption DEF CallOK, Tools
  <2>2. "confirm" \in Phases /\ call[c].event \in Events \cup {None}
        /\ call[c].seen \in SUBSET Events /\ (call[c].ref \in Events => call[c].event = call[c].ref)
    BY <1>1 DEF Phases, Call, CallOK
  <2>3. call' = [call EXCEPT ![c] = [call[c] EXCEPT !.at = "confirm", !.event = call[c].event,
                                                    !.seen = call[c].seen]]
    BY <1>4, <2>2, GotoIsMove DEF IInv
  <2> QED BY <1>1, <1>2, <2>1, <2>2, <2>3, MoveKeeps DEF Pin
<1> QED BY <1>3, <1>4 DEF Pin

LEMMA ListRefsKeeps ==
    ASSUME IInv, NEW c \in Calls, ListRefs(c)
    PROVE  IInv'
<1> DEFINE k == [call[c] EXCEPT !.at = "current", !.seen = visible]
<1>1. call[c] \in Call /\ CallOK(call[c]) /\ call[c].at = "resolve" /\ call[c].ref = None
  BY DEF IInv, TypeOK, ListRefs
<1>2. k \in Call
  BY <1>1 DEF Call, Phases, visible
<1>3. /\ k.at = "current" /\ k.tool = call[c].tool /\ k.session = call[c].session
      /\ k.ref = call[c].ref /\ k.token = call[c].token /\ k.used = call[c].used
  BY <1>1 DEF Call
<1>4. call' = [call EXCEPT ![c] = k]
  BY DEF ListRefs
<1>5. session' \in [Sessions -> Session]
  BY DEF ListRefs, IInv, TypeOK
<1> HIDE DEF k
<1>6. CallOK(k)
  BY <1>1, <1>3 DEF CallOK, Past
<1> QED BY <1>2, <1>4, <1>5, <1>6, QuietStepKeeps DEF ListRefs

LEMMA ResolveCurrentKeeps ==
    ASSUME IInv, NEW c \in Calls, ResolveCurrent(c)
    PROVE  IInv'
<1> DEFINE e == session[call[c].session].current
<1>1. /\ call[c] \in Call /\ CallOK(call[c]) /\ call[c].at = "current" /\ call[c].ref = None
      /\ session' \in [Sessions -> Session]
  BY DEF IInv, TypeOK, ResolveCurrent, CallOK
<1>2. CASE Return(c)
  BY <1>1, <1>2, ReturnKeeps DEF ResolveCurrent
<1>3. CASE GotoOn(c, "unpin", None)
  <2>1. "unpin" \in Phases /\ {} \in SUBSET Events /\ None \in Events \cup {None}
    BY DEF Phases
  <2>2. call' = [call EXCEPT ![c] = [call[c] EXCEPT !.at = "unpin", !.event = None, !.seen = {}]]
    BY <1>3 DEF GotoOn
  <2> QED BY <1>1, <2>1, <2>2, MoveKeeps DEF ResolveCurrent
<1>4. CASE e \in call[c].seen /\ call[c].tool \in Jobs /\ GotoOn(c, "confirm", e)
  <2>1. "confirm" \in Phases /\ {} \in SUBSET Events
    BY DEF Phases
  <2>2. e \in Events /\ None \notin Events
    BY <1>1, <1>4, ConfirmAssumption DEF Call
  <2>3. call' = [call EXCEPT ![c] = [call[c] EXCEPT !.at = "confirm", !.event = e, !.seen = {}]]
    BY <1>4 DEF GotoOn
  <2> HIDE DEF e
  <2> QED BY <1>1, <1>4, <2>1, <2>2, <2>3, MoveKeeps DEF ResolveCurrent
<1> QED BY <1>2, <1>3, <1>4 DEF ResolveCurrent

LEMMA UnpinKeeps ==
    ASSUME IInv, NEW c \in Calls, Unpin(c)
    PROVE  IInv'
<1> DEFINE s == call[c].session
           row == [session[s] EXCEPT !.current = None]
<1>1. s \in Sessions
  BY DEF IInv, CallOK, Unpin
<1>2. row \in Session
  BY <1>1 DEF IInv, TypeOK, Session
<1>3. session' = [session EXCEPT ![s] = row]
  BY DEF Unpin
<1> HIDE DEF row
<1>4. session' \in [Sessions -> Session]
  BY <1>1, <1>2, <1>3 DEF IInv, TypeOK
<1> QED BY <1>4, ReturnKeeps DEF Unpin

LEMMA PreviewKeeps ==
    ASSUME IInv, NEW c \in Calls, NEW t \in Tokens, Preview(c, t)
    PROVE  IInv'
<1> DEFINE g == Issued(c)
<1>1. /\ call[c] \in Call /\ CallOK(call[c]) /\ call[c].at = "confirm"
      /\ call[c].session \in Sessions /\ call[c].tool \in Jobs /\ call[c].ref \in Refs
      /\ call[c].event \in Events /\ (call[c].ref \in Events => call[c].event = call[c].ref)
      /\ token[t].state = "none"
  BY DEF IInv, TypeOK, Preview, CallOK, Call
<1>2. g \in Token /\ g.ref = call[c].ref /\ g.shown = call[c].event
  BY <1>1 DEF Issued, Token
<1>3. token' = [token EXCEPT ![t] = g] /\ session' \in [Sessions -> Session]
  BY DEF Preview, IInv, TypeOK
<1> HIDE DEF g
<1>4. TokensAdvance /\ token' \in [Tokens -> Token]
  BY <1>1, <1>2, <1>3 DEF TokensAdvance, IInv, TypeOK
<1>5. ASSUME NEW u \in Tokens PROVE GrantOK(u)'
  BY <1>1, <1>2, <1>3 DEF GrantOK, IInv, TypeOK
<1>6. CallOK(Idle)'
  BY IdleType DEF CallOK, Past, Idle
<1>7. call' = [call EXCEPT ![c] = Idle]
  BY DEF Preview, Return
<1> QED BY <1>3, <1>4, <1>5, <1>6, <1>7, IdleType, CallStepKeeps DEF Preview

LEMMA SpendReadKeeps ==
    ASSUME IInv, NEW c \in Calls, SpendRead(c)
    PROVE  IInv'
<1>1. /\ call[c] \in Call /\ CallOK(call[c]) /\ call[c].at = "confirm"
      /\ call[c].token \in Tokens /\ session' \in [Sessions -> Session]
  BY DEF IInv, TypeOK, SpendRead, Call
<1>2. CASE Return(c)
  BY <1>1, <1>2, ReturnKeeps DEF SpendRead
<1>3. CASE /\ Spendable(call[c].token, call[c].session, call[c].tool, call[c].ref)
           /\ Goto(c, "spend")
  <2>1. Holds(call[c]) /\ ~call[c].used
    BY <1>1, <1>3 DEF Spendable, SamePayload, Holds, CallOK, Call
  <2>2. /\ "spend" \in Phases /\ call[c].event \in Events /\ call[c].tool \in Jobs
        /\ call[c].seen \in SUBSET Events /\ (call[c].ref \in Events => call[c].event = call[c].ref)
    BY <1>1 DEF Phases, Call, CallOK
  <2>3. call' = [call EXCEPT ![c] = [call[c] EXCEPT !.at = "spend", !.event = call[c].event,
                                                    !.seen = call[c].seen]]
    BY <1>3, <2>2, GotoIsMove DEF IInv
  <2> QED BY <1>1, <2>1, <2>2, <2>3, MoveKeeps DEF SpendRead
<1> QED BY <1>2, <1>3 DEF SpendRead

LEMMA SpendCommitKeeps ==
    ASSUME IInv, NEW c \in Calls, SpendCommit(c)
    PROVE  IInv'
<1> DEFINE k == [call[c] EXCEPT !.at = "job"]
           t == call[c].token
           dead == {t} \cup Siblings(t, call[c].session, call[c].tool, call[c].ref)
<1>1. /\ call[c] \in Call /\ CallOK(call[c]) /\ call[c].at = "spend"
      /\ t \in Tokens /\ token[t].state # "none" /\ session' \in [Sessions -> Session]
  BY DEF IInv, TypeOK, SpendCommit, CallOK, Past, Holds
<1>2. \A u \in dead : u \in Tokens /\ token[u].state # "none"
  BY <1>1 DEF Siblings
<1>3. \A u \in Tokens : token[u] \in Token /\ [token[u] EXCEPT !.state = "spent"] \in Token
  BY DEF IInv, TypeOK, Token
<1>4. \A u \in Tokens : token'[u] = IF u \in dead THEN [token[u] EXCEPT !.state = "spent"]
                                    ELSE token[u]
  BY DEF SpendCommit
<1>5. token' \in [Tokens -> Token]
  BY <1>3 DEF SpendCommit
<1>6. \A u \in Tokens : /\ token'[u].session = token[u].session /\ token'[u].job = token[u].job
                        /\ token'[u].ref = token[u].ref /\ token'[u].shown = token[u].shown
                        /\ token'[u].state = IF u \in dead THEN "spent" ELSE token[u].state
  BY <1>3, <1>4 DEF Token
<1> HIDE DEF dead
<1>7. TokensAdvance
  BY <1>2, <1>6 DEF TokensAdvance
<1>8. \A u \in Tokens : GrantOK(u)'
  BY <1>6 DEF IInv, GrantOK
<1>9. /\ k \in Call /\ k.at = "job" /\ k.event = call[c].event /\ k.tool = call[c].tool
      /\ k.session = call[c].session /\ k.ref = call[c].ref /\ k.token = t
      /\ k.used = call[c].used
  BY <1>1 DEF Call, Phases
<1>10. call' = [call EXCEPT ![c] = k]
  BY DEF SpendCommit, Goto
<1> HIDE DEF k
\* The call's next local state, as a value that priming does not change.
<1>11. PICK j \in Call : j = k
  BY <1>9
<1>12. CallOK(j)'
  <2>1. token'[t].state = "spent"
    BY <1>1, <1>6 DEF dead
  <2>2. /\ token'[t].session = token[t].session /\ token'[t].job = token[t].job
        /\ token'[t].ref = token[t].ref
    BY <1>1, <1>6
  <2>3. /\ j.at = "job" /\ j.tool \in Jobs /\ j.session \in Sessions /\ j.tool \in Tools
        /\ j.event \in Events /\ (j.ref \in Events => j.event = j.ref)
        /\ j.token = t /\ ~j.used
    BY <1>1, <1>9, <1>11 DEF CallOK, Past
  <2>4. Holds(j)'
    BY <1>1, <1>9, <1>11, <2>1, <2>2, <2>3 DEF CallOK, Past, Holds
  <2> QED BY <2>1, <2>3, <2>4 DEF CallOK, Past
<1> QED BY <1>1, <1>5, <1>7, <1>8, <1>10, <1>11, <1>12, CallStepKeeps DEF SpendCommit

LEMMA RunJobKeeps ==
    ASSUME IInv, NEW c \in Calls, RunJob(c)
    PROVE  IInv'
<1> DEFINE t == call[c].token
           e == call[c].event
           run == [token |-> t, job |-> call[c].tool, event |-> e,
                   session |-> call[c].session, ref |-> call[c].ref]
<1>1. /\ call[c] \in Call /\ CallOK(call[c]) /\ call[c].at = "job"
      /\ t \in Tokens /\ Holds(call[c]) /\ token[t].state = "spent"
      /\ e \in Events /\ (call[c].ref \in Events => e = call[c].ref)
      /\ call[c].tool \in Jobs /\ call[c].session \in Sessions /\ call[c].ref \in Refs
  BY DEF IInv, TypeOK, RunJob, CallOK, Past, Holds, Call
<1>2. /\ call' \in [Calls -> Call]
      /\ \A d \in Calls : call'[d] = call[d] \/ call'[d] = Idle
  BY IdleType DEF IInv, TypeOK, RunJob, Return
<1>3. ASSUME NEW d \in Calls PROVE CallOK(call[d])'
  <2>1. CASE call'[d] = call[d]
    BY <2>1 DEF IInv, RunJob, CallOK, Past, Holds
  <2>2. CASE call'[d] = Idle
    BY <2>2, IdleType DEF CallOK, Past, Idle
  <2> QED BY <1>2, <2>1, <2>2
<1>4. /\ run \in Run /\ run.token = t /\ run.session = call[c].session /\ run.job = call[c].tool
      /\ run.ref = call[c].ref /\ run.event = e
  BY <1>1 DEF Run
<1>5. runs' = runs \/ runs' = runs \cup {run}
  BY DEF RunJob
<1> HIDE DEF run
<1>6. TypeOK'
  <2>1. count' \in [Tokens -> Nat]
    <3>1. count[t] + 1 \in Nat
      BY <1>1 DEF IInv, TypeOK
    <3>2. count' = count \/ count' = [count EXCEPT ![t] = count[t] + 1]
      BY DEF RunJob
    <3> QED BY <3>1, <3>2 DEF IInv, TypeOK
  <2>2. access' \in [Events -> {"granted", "withheld", "deleted"}]
    BY DEF IInv, TypeOK, RunJob
  <2> QED BY <1>2, <1>4, <1>5, <2>1, <2>2 DEF IInv, TypeOK, RunJob
<1>7. \A u \in Tokens : GrantOK(u)'
  BY DEF IInv, GrantOK, RunJob
<1>8. RunsAreGranted'
  <2>1. token' = token
    BY DEF RunJob
  <2>2. token[run.token].ref \in Events => token[run.token].shown = token[run.token].ref
    BY <1>1, <1>4 DEF IInv, GrantOK
  <2> QED BY <1>1, <1>4, <1>5, <2>1, <2>2 DEF IInv, RunsAreGranted, Holds
<1> QED BY <1>3, <1>6, <1>7, <1>8 DEF IInv

LEMMA DieKeeps ==
    ASSUME IInv, NEW c \in Calls, Die(c)
    PROVE  IInv'
<1>1. session' \in [Sessions -> Session]
  BY DEF Die, IInv, TypeOK
<1> QED BY <1>1, ReturnKeeps DEF Die

LEMMA StepKeeps ==
    ASSUME IInv, NEW c \in Calls, Step(c)
    PROVE  IInv'
<1>1. CASE \E t \in Tokens : Preview(c, t)
  BY <1>1, PreviewKeeps
<1>2. CASE TouchWrite(c) \/ ResolveNamed(c) \/ Pin(c) \/ ListRefs(c) \/ ResolveCurrent(c) \/ Unpin(c)
  BY <1>2, TouchWriteKeeps, ResolveNamedKeeps, PinKeeps, ListRefsKeeps, ResolveCurrentKeeps,
     UnpinKeeps
<1>3. CASE SpendRead(c) \/ SpendCommit(c) \/ RunJob(c)
  BY <1>3, SpendReadKeeps, SpendCommitKeeps, RunJobKeeps
<1> QED BY <1>1, <1>2, <1>3 DEF Step

---------------------------------------------------------------------------
(* The surroundings *)

LEMMA ExpireKeeps ==
    ASSUME IInv, NEW t \in Tokens, Expire(t)
    PROVE  IInv'
<1> DEFINE g == [token[t] EXCEPT !.expired = TRUE]
<1>1. token[t] \in Token
  BY DEF IInv, TypeOK
<1>2. /\ g \in Token /\ g.state = token[t].state /\ g.session = token[t].session
      /\ g.job = token[t].job /\ g.ref = token[t].ref /\ g.shown = token[t].shown
  BY <1>1 DEF Token
<1>3. token' = [token EXCEPT ![t] = g]
  BY DEF Expire
<1> HIDE DEF g
<1>4. token' \in [Tokens -> Token] /\ TokensAdvance
  BY <1>2, <1>3 DEF IInv, TypeOK, TokensAdvance
<1>5. TypeOK'
  BY <1>4 DEF IInv, TypeOK, Expire, grants, history
<1>6. \A u \in Tokens : GrantOK(u)'
  BY <1>2, <1>3 DEF IInv, TypeOK, GrantOK
<1>7. RunsAreGranted'
  BY <1>4 DEF IInv, TypeOK, RunsAreGranted, TokensAdvance, Run, Expire, history
<1>8. ASSUME NEW c \in Calls PROVE CallOK(call[c])'
  <2>1. call[c] \in Call /\ CallOK(call[c]) /\ call'[c] = call[c]
    BY DEF IInv, TypeOK, Expire
  <2>2. \A k \in Call : CallOK(k) => CallOK(k)'
    BY <1>4, AdvanceKeepsCall
  <2> QED BY <2>1, <2>2 DEF CallOK, Past, Holds
<1> QED BY <1>5, <1>6, <1>7, <1>8 DEF IInv

LEMMA SurroundingsStepKeeps ==
    ASSUME IInv,
           \/ \E s \in Sessions : GoStale(s)
           \/ \E e \in Events : Regrant(e) \/ \E name \in Titles : Rename(e, name)
    PROVE  IInv'
<1>1. CASE \E s \in Sessions : GoStale(s)
  <2>1. PICK s \in Sessions : GoStale(s)
    BY <1>1
  <2>2. session' \in [Sessions -> Session]
    BY <2>1 DEF GoStale, IInv, TypeOK, Session
  <2>3. access' \in [Events -> {"granted", "withheld", "deleted"}] /\ title' \in [Events -> Titles]
    BY <2>1 DEF GoStale, IInv, TypeOK, grants
  <2> QED BY <2>1, <2>2, <2>3, SurroundingsKeep DEF GoStale
<1>2. CASE \E e \in Events : Regrant(e)
  <2>1. PICK e \in Events : Regrant(e)
    BY <1>2
  <2>2. /\ access' \in [Events -> {"granted", "withheld", "deleted"}]
        /\ title' \in [Events -> Titles] /\ session' \in [Sessions -> Session]
    BY <2>1 DEF Regrant, IInv, TypeOK
  <2> QED BY <2>1, <2>2, SurroundingsKeep DEF Regrant
<1>3. CASE \E e \in Events : \E name \in Titles : Rename(e, name)
  <2>1. PICK e \in Events, name \in Titles : Rename(e, name)
    BY <1>3
  <2>2. /\ access' \in [Events -> {"granted", "withheld", "deleted"}]
        /\ title' \in [Events -> Titles] /\ session' \in [Sessions -> Session]
    BY <2>1 DEF Rename, IInv, TypeOK
  <2> QED BY <2>1, <2>2, SurroundingsKeep DEF Rename
<1> QED BY <1>1, <1>2, <1>3

---------------------------------------------------------------------------
(* The theorems *)

LEMMA InitIInv == Init => IInv
<1> SUFFICES ASSUME Init PROVE IInv
  OBVIOUS
<1>1. Fresh \in Session /\ Unissued \in Token
  BY DEF Fresh, Session, Unissued, Token, Refs
<1>2. TypeOK
  BY <1>1, IdleType DEF Init, TypeOK
<1>3. \A c \in Calls : CallOK(call[c])
  BY IdleType DEF Init
<1>4. \A t \in Tokens : GrantOK(t)
  BY ConfirmAssumption DEF Init, GrantOK, Unissued
<1>5. RunsAreGranted
  BY DEF Init, RunsAreGranted
<1> QED BY <1>2, <1>3, <1>4, <1>5 DEF IInv

LEMMA NextIInv == IInv /\ [Next]_vars => IInv'
<1> SUFFICES ASSUME IInv, [Next]_vars PROVE IInv'
  OBVIOUS
<1>1. ASSUME NEW c \in Calls, Arrive(c) PROVE IInv'
  BY <1>1, ArriveKeeps, ConfirmAssumption DEF Arrive, Refs
<1>2. ASSUME NEW c \in Calls, Step(c) \/ Die(c) PROVE IInv'
  BY <1>2, StepKeeps, DieKeeps
<1>3. ASSUME NEW t \in Tokens, Expire(t) PROVE IInv'
  BY <1>3, ExpireKeeps
<1>4. CASE UNCHANGED vars
  <2>1. UNCHANGED <<token, call, history, session, access, title>>
    BY <1>4 DEF vars, grants
  <2> QED BY <2>1, SurroundingsKeep DEF IInv, TypeOK
<1> QED BY <1>1, <1>2, <1>3, <1>4, SurroundingsStepKeeps DEF Next

\* The inductive invariant of the confirm gate: what a call knows of the token it
\* presents stays true until the job has run.
THEOREM GateInvariant == Spec => []IInv
<1> QED BY InitIInv, NextIInv, PTL DEF Spec

\* Sessions, tokens and calls keep their types, whatever the clients send.
THEOREM GateTypes == Spec => []TypeOK
<1>1. IInv => TypeOK
  BY DEF IInv
<1> QED BY <1>1, GateInvariant, PTL

\* For any number of overlapping calls, crashes included: a job only runs on a
\* token issued to the same session for the same job and arguments.
THEOREM JobsNeedAGrant == Spec => []RunsAreGranted
<1>1. IInv => RunsAreGranted
  BY DEF IInv
<1> QED BY <1>1, GateInvariant, PTL

\* A confirmation that comes in after its token was spent never reaches the job,
\* so only confirmations that overlap can make a job run twice.
THEOREM LateConfirmIsRefused == Spec => []RetryIsRefused
<1>1. IInv => RetryIsRefused
  BY DEF IInv, RetryIsRefused, CallOK, Past
<1> QED BY <1>1, GateInvariant, PTL

---------------------------------------------------------------------------
(* One call at a time *)

OneCall == \A c, d \in Calls : c = d

SessionsBare == \A s \in Sessions : ~session[s].exists => session[s].current = None

CountsSpent == \A t \in Tokens : count[t] > 0 => token[t].state = "spent"

\* What a call has found still holds when it acts on it.
Sure(k) ==
    /\ k.at = "touch" => k.found = Found(k.session)
    /\ k.at \notin {"idle", "touch"} => session[k.session].exists
    /\ k.at \in {"resolve", "current"} /\ k.found # "live" => session[k.session].current = None
    /\ k.at = "pin" => k.ref # None
    /\ k.at \in {"confirm", "spend", "job"} /\ k.ref = None => k.found = "live"
    /\ k.at = "spend" => token[k.token].state = "open"
    /\ k.at = "job" => count[k.token] = 0

SInv ==
    /\ IInv
    /\ SessionsBare
    /\ CountsSpent
    /\ \A c \in Calls : Sure(call[c])

GateStep == Gate!Next \/ UNCHANGED Gate!gate

LEMMA IdleSure == Sure(Idle) /\ Sure(Idle)' /\ ~Past(Idle) /\ Idle.at = "idle"
BY DEF Sure, Idle, Past

\* Where the only call stands after it returned or went on.
LEMMA AfterReturn ==
    ASSUME OneCall, IInv, NEW c \in Calls, Return(c)
    PROVE  \A d \in Calls : call'[d] = Idle
BY DEF OneCall, IInv, TypeOK, Return

LEMMA AfterGoto ==
    ASSUME OneCall, IInv, NEW c \in Calls, NEW phase, Goto(c, phase)
    PROVE  \A d \in Calls :
             /\ call'[d].at = phase /\ call'[d].session = call[c].session
             /\ call'[d].ref = call[c].ref /\ call'[d].found = call[c].found
             /\ call'[d].token = call[c].token
BY DEF OneCall, IInv, TypeOK, Goto, Call

LEMMA AfterGotoOn ==
    ASSUME OneCall, IInv, NEW c \in Calls, NEW phase, NEW e, GotoOn(c, phase, e)
    PROVE  \A d \in Calls :
             /\ call'[d].at = phase /\ call'[d].session = call[c].session
             /\ call'[d].ref = call[c].ref /\ call'[d].found = call[c].found
             /\ call'[d].token = call[c].token
BY DEF OneCall, IInv, TypeOK, GotoOn, Call

---------------------------------------------------------------------------
(* Where the tokens stand in the abstract gate *)

\* Where token t stands when the only call is k.
StageFor(k, t) ==
    IF token[t].state = "none" THEN "none"
    ELSE IF count[t] > 0 THEN "done"
    ELSE IF k.at = "job" /\ k.token = t THEN "claimed"
    ELSE IF /\ token[t].state = "open"
            /\ token[t].expired => k.at = "spend" /\ k.token = t
         THEN "offered"
    ELSE "void"

LEMMA StageOne ==
    ASSUME OneCall, NEW c \in Calls, NEW t
    PROVE  Stage(t) = StageFor(call[c], t) /\ Stage(t)' = StageFor(call[c], t)'
<1>1. Stage(t) = StageFor(call[c], t)
  BY DEF OneCall, Stage, StageFor
<1>2. Stage(t)' = StageFor(call[c], t)'
  BY DEF OneCall, Stage, StageFor
<1> QED BY <1>1, <1>2

LEMMA GateStutters ==
    ASSUME UNCHANGED token, \A t \in Tokens : Stage(t)' = Stage(t)
    PROVE  GateStep
<1>1. [t \in Tokens |-> Stage(t)]' = [t \in Tokens |-> Stage(t)]
  OBVIOUS
<1>2. [t \in Tokens |-> Binding(t)]' = [t \in Tokens |-> Binding(t)]
  BY DEF Binding
<1> QED BY <1>1, <1>2 DEF GateStep, Gate!gate

\* Steps before and outside spend.
LEMMA GateBlind ==
    ASSUME OneCall, NEW c \in Calls, UNCHANGED <<token, count>>,
           ~Past(call[c]), ~Past(call'[c])
    PROVE  GateStep
<1>1. \A t \in Tokens : StageFor(call[c], t)' = StageFor(call[c], t)
  BY DEF StageFor, Past
<1> QED BY <1>1, StageOne, GateStutters

\* An offer or a claim comes to nothing.
LEMMA GateLapses ==
    ASSUME NEW t \in Tokens, UNCHANGED token,
           Stage(t) \in {"offered", "claimed"}, Stage(t)' = "void",
           \A u \in Tokens : u # t => Stage(u)' = Stage(u)
    PROVE  GateStep
<1> DEFINE stages == [u \in Tokens |-> Stage(u)]
<1>1. stages' = [stages EXCEPT ![t] = "void"]
  OBVIOUS
<1>2. [u \in Tokens |-> Binding(u)]' = [u \in Tokens |-> Binding(u)]
  BY DEF Binding
<1> QED BY <1>1, <1>2 DEF GateStep, Gate!Next, Gate!Lapse

---------------------------------------------------------------------------
(* The steps of one call at a time *)

\* A step before spend that leaves the tokens alone.
LEMMA EarlyStep ==
    ASSUME OneCall, SInv, IInv', NEW c \in Calls, ~Past(call[c]), ~Past(call'[c]),
           \A d \in Calls : Sure(call[d])', SessionsBare', UNCHANGED <<token, count>>
    PROVE  SInv' /\ GateStep
BY GateBlind DEF SInv, CountsSpent

LEMMA EarlyReturn ==
    ASSUME OneCall, SInv, IInv', NEW c \in Calls, ~Past(call[c]), Return(c),
           SessionsBare', UNCHANGED <<token, count>>
    PROVE  SInv' /\ GateStep
<1>1. \A d \in Calls : call'[d] = Idle
  BY AfterReturn DEF SInv
<1>2. \A d \in Calls : Sure(call[d])'
  BY <1>1, IdleSure DEF Sure
<1> QED BY <1>1, <1>2, IdleSure, EarlyStep

LEMMA SoloArrive ==
    ASSUME OneCall, SInv, IInv', NEW c \in Calls, NEW tool, NEW s \in Sessions, NEW ref, NEW t,
           TouchRead(c, tool, s, ref, t)
    PROVE  SInv' /\ GateStep
<1>1. \A d \in Calls : call'[d] = Incoming(tool, s, ref, t)
  BY DEF OneCall, SInv, IInv, TypeOK, TouchRead
<1>2. \A d \in Calls : /\ call'[d].at = "touch" /\ call'[d].session = s
                       /\ call'[d].found = Found(s)
  BY <1>1 DEF Incoming
<1>3. UNCHANGED <<session, token, count>> /\ call[c].at = "idle"
  BY DEF TouchRead, history
<1>4. \A d \in Calls : Sure(call[d])'
  BY <1>2, <1>3 DEF Sure, Found
<1>5. SessionsBare' /\ ~Past(call[c]) /\ ~Past(call'[c])
  BY <1>2, <1>3 DEF SInv, SessionsBare, Past
<1> QED BY <1>3, <1>4, <1>5, EarlyStep

LEMMA SoloTouch ==
    ASSUME OneCall, SInv, IInv', NEW c \in Calls, TouchWrite(c)
    PROVE  SInv' /\ GateStep
<1>0. PICK s : s = call[c].session
  OBVIOUS
<1>1. /\ s \in Sessions /\ call[c].found = Found(s) /\ call[c].at = "touch"
      /\ session \in [Sessions -> Session]
  BY <1>0 DEF SInv, IInv, TypeOK, CallOK, Sure, TouchWrite
<1>2. ~(call[c].found = "nothing" /\ session[s].exists)
  BY <1>1 DEF Found
<1>3. PICK phase \in {"unpin", "resolve"} : Goto(c, phase)
  BY <1>0, <1>2 DEF TouchWrite
<1>4. \A q \in Sessions :
         /\ session'[q].exists <=> q = s \/ session[q].exists
         /\ session'[q].current = IF q = s /\ call[c].found = "stale" THEN None
                                  ELSE session[q].current
  BY <1>0, <1>1, <1>2 DEF TouchWrite, Session
<1>5. SessionsBare'
  BY <1>4 DEF SInv, SessionsBare
<1>6. call[c].found # "live" => session'[s].current = None
  BY <1>1, <1>4 DEF Found, SInv, SessionsBare
<1>7. \A d \in Calls : /\ call'[d].at = phase /\ call'[d].session = s
                       /\ call'[d].found = call[c].found
  BY <1>0, <1>3, AfterGoto DEF SInv
<1>8. \A d \in Calls : Sure(call[d])'
  BY <1>1, <1>4, <1>6, <1>7 DEF Sure
<1>9. ~Past(call[c]) /\ ~Past(call'[c])
  BY <1>1, <1>7 DEF Past
<1> QED BY <1>5, <1>8, <1>9, EarlyStep DEF TouchWrite, history

LEMMA SoloResolveNamed ==
    ASSUME OneCall, SInv, IInv', NEW c \in Calls, ResolveNamed(c)
    PROVE  SInv' /\ GateStep
<1>1. /\ call[c].at = "resolve" /\ call[c].ref # None /\ Sure(call[c])
      /\ UNCHANGED <<session, token, count>>
  BY DEF SInv, ResolveNamed, history
<1>2. SessionsBare' /\ ~Past(call[c])
  BY <1>1 DEF SInv, SessionsBare, Past
<1>3. CASE Return(c)
  BY <1>1, <1>2, <1>3, EarlyReturn
<1>4. ASSUME NEW e, GotoOn(c, "pin", e) PROVE SInv' /\ GateStep
  <2>1. \A d \in Calls : /\ call'[d].at = "pin" /\ call'[d].session = call[c].session
                         /\ call'[d].ref = call[c].ref
    BY <1>4, AfterGotoOn DEF SInv
  <2>2. \A d \in Calls : Sure(call[d])'
    BY <1>1, <2>1 DEF Sure
  <2> QED BY <1>1, <1>2, <2>1, <2>2, EarlyStep DEF Past
<1> QED BY <1>3, <1>4 DEF ResolveNamed

LEMMA SoloPin ==
    ASSUME OneCall, SInv, IInv', NEW c \in Calls, Pin(c)
    PROVE  SInv' /\ GateStep
<1>0. PICK s : s = call[c].session
  OBVIOUS
<1>1. /\ s \in Sessions /\ call[c].at = "pin" /\ Sure(call[c]) /\ call[c].ref # None
      /\ session[s].exists /\ session \in [Sessions -> Session]
      /\ UNCHANGED <<token, count>>
  BY <1>0 DEF SInv, IInv, TypeOK, CallOK, Pin, Sure, history
<1>2. \A q \in Sessions : /\ session'[q].exists = session[q].exists
                          /\ q # s => session'[q].current = session[q].current
  BY <1>0, <1>1 DEF Pin, Session
<1>3. SessionsBare' /\ ~Past(call[c])
  BY <1>1, <1>2 DEF SInv, SessionsBare, Past
<1>4. CASE Return(c)
  BY <1>1, <1>3, <1>4, EarlyReturn
<1>5. CASE Goto(c, "confirm")
  <2>1. \A d \in Calls : /\ call'[d].at = "confirm" /\ call'[d].session = s
                         /\ call'[d].ref = call[c].ref
    BY <1>0, <1>5, AfterGoto DEF SInv
  <2>2. \A d \in Calls : Sure(call[d])'
    BY <1>1, <1>2, <2>1 DEF Sure
  <2> QED BY <1>1, <1>3, <2>1, <2>2, EarlyStep DEF Past
<1> QED BY <1>4, <1>5 DEF Pin

LEMMA SoloListRefs ==
    ASSUME OneCall, SInv, IInv', NEW c \in Calls, ListRefs(c)
    PROVE  SInv' /\ GateStep
<1>1. /\ call[c].at = "resolve" /\ Sure(call[c]) /\ call[c] \in Call
      /\ UNCHANGED <<session, token, count>>
  BY DEF SInv, IInv, TypeOK, ListRefs, history
<1>2. \A d \in Calls : /\ call'[d].at = "current" /\ call'[d].session = call[c].session
                       /\ call'[d].found = call[c].found
  BY <1>1 DEF OneCall, SInv, IInv, TypeOK, ListRefs, Call
<1>3. \A d \in Calls : Sure(call[d])'
  BY <1>1, <1>2 DEF Sure
<1> QED BY <1>1, <1>2, <1>3, EarlyStep DEF SInv, SessionsBare, Past

LEMMA SoloResolveCurrent ==
    ASSUME OneCall, SInv, IInv', NEW c \in Calls, ResolveCurrent(c)
    PROVE  SInv' /\ GateStep
<1> DEFINE e == session[call[c].session].current
<1>1. /\ call[c].at = "current" /\ Sure(call[c]) /\ CallOK(call[c]) /\ call[c] \in Call
      /\ UNCHANGED <<session, token, count>>
  BY DEF SInv, IInv, TypeOK, ResolveCurrent, history
<1>2. SessionsBare' /\ ~Past(call[c])
  BY <1>1 DEF SInv, SessionsBare, Past
<1>3. CASE Return(c)
  BY <1>1, <1>2, <1>3, EarlyReturn
<1>4. ASSUME GotoOn(c, "unpin", None) PROVE SInv' /\ GateStep
  <2>1. \A d \in Calls : call'[d].at = "unpin" /\ call'[d].session = call[c].session
    BY <1>4, AfterGotoOn DEF SInv
  <2>2. \A d \in Calls : Sure(call[d])'
    BY <1>1, <2>1 DEF Sure
  <2> QED BY <1>1, <1>2, <2>1, <2>2, EarlyStep DEF Past
<1>5. ASSUME e \in call[c].seen, GotoOn(c, "confirm", e) PROVE SInv' /\ GateStep
  <2>1. e # None
    BY <1>1, <1>5, ConfirmAssumption DEF Call
  <2>2. call[c].found = "live"
    BY <1>1, <2>1 DEF Sure
  <2>3. \A d \in Calls : /\ call'[d].at = "confirm" /\ call'[d].session = call[c].session
                         /\ call'[d].found = call[c].found
    BY <1>5, AfterGotoOn DEF SInv
  <2>4. \A d \in Calls : Sure(call[d])'
    BY <1>1, <2>2, <2>3 DEF Sure
  <2> QED BY <1>1, <1>2, <2>3, <2>4, EarlyStep DEF Past
<1> QED BY <1>3, <1>4, <1>5 DEF ResolveCurrent

LEMMA SoloUnpin ==
    ASSUME OneCall, SInv, IInv', NEW c \in Calls, Unpin(c)
    PROVE  SInv' /\ GateStep
<1>0. PICK s : s = call[c].session
  OBVIOUS
<1>1. s \in Sessions /\ session \in [Sessions -> Session] /\ ~Past(call[c])
  BY <1>0 DEF SInv, IInv, TypeOK, CallOK, Unpin, Past
<1>2. SessionsBare'
  BY <1>0, <1>1 DEF SInv, SessionsBare, Unpin, Session
<1> QED BY <1>1, <1>2, EarlyReturn DEF Unpin, history

LEMMA SoloPreview ==
    ASSUME OneCall, SInv, IInv', NEW c \in Calls, NEW t \in Tokens, Preview(c, t)
    PROVE  SInv' /\ GateStep
<1> DEFINE stages == [u \in Tokens |-> Stage(u)]
           bindings == [u \in Tokens |-> Binding(u)]
<1>1. /\ call[c].at = "confirm" /\ token[t].state = "none" /\ UNCHANGED <<session, count>>
      /\ token \in [Tokens -> Token] /\ count[t] \in Nat
  BY DEF SInv, IInv, TypeOK, Preview, history
<1>2. /\ token'[t].state = "open" /\ ~token'[t].expired
      /\ \A u \in Tokens : u # t => token'[u] = token[u]
  BY <1>1 DEF Preview, Issued
<1>3. \A d \in Calls : call'[d] = Idle
  BY AfterReturn DEF SInv, Preview
<1>4. \A d \in Calls : Sure(call[d])'
  BY <1>3, IdleSure DEF Sure
<1>5. count[t] = 0
  BY <1>1 DEF SInv, CountsSpent
<1>6. SessionsBare' /\ CountsSpent'
  BY <1>1, <1>2, <1>5 DEF SInv, SessionsBare, CountsSpent
<1>7. /\ Stage(t) = "none" /\ Stage(t)' = "offered"
      /\ \A u \in Tokens : u # t => Stage(u)' = Stage(u)
  <2>1. Stage(t) = "none" /\ Stage(t)' = "offered"
    <3>1. StageFor(call[c], t) = "none"
      BY <1>1 DEF StageFor
    <3>2. StageFor(call[c], t)' = "offered"
      BY <1>1, <1>2, <1>3, <1>5, IdleSure DEF StageFor
    <3> QED BY <3>1, <3>2, StageOne
  <2>2. ASSUME NEW u \in Tokens, u # t PROVE Stage(u)' = Stage(u)
    <3>1. StageFor(call[c], u)' = StageFor(call[c], u)
      BY <1>1, <1>2, <1>3, <2>2, IdleSure DEF StageFor
    <3> QED BY <3>1, StageOne
  <2> QED BY <2>1, <2>2
<1>8. stages' = [stages EXCEPT ![t] = "offered"]
  BY <1>7
<1>9. /\ bindings' \in [Tokens -> [session : Sessions \cup {None}, job : Jobs \cup {"none"},
                                   ref : Refs]]
      /\ \A u \in Tokens \ {t} : bindings'[u] = bindings[u]
  <2>1. token' \in [Tokens -> Token]
    BY DEF IInv, TypeOK
  <2>2. \A u \in Tokens : Binding(u)' \in [session : Sessions \cup {None},
                                          job : Jobs \cup {"none"}, ref : Refs]
    BY <2>1 DEF Binding, Token
  <2> QED BY <1>2, <2>2 DEF Binding
<1>10. Gate!Offer(t)
  BY <1>7, <1>8, <1>9 DEF Gate!Offer
<1> QED BY <1>4, <1>6, <1>10 DEF SInv, GateStep, Gate!Next

LEMMA SoloSpendRead ==
    ASSUME OneCall, SInv, IInv', NEW c \in Calls, SpendRead(c)
    PROVE  SInv' /\ GateStep
<1>0. PICK t : t = call[c].token
  OBVIOUS
<1>1. /\ call[c].at = "confirm" /\ Sure(call[c]) /\ UNCHANGED <<session, token, count>>
  BY DEF SInv, SpendRead, history
<1>2. SessionsBare' /\ CountsSpent' /\ ~Past(call[c])
  BY <1>1 DEF SInv, SessionsBare, CountsSpent, Past
<1>3. CASE Return(c)
  BY <1>1, <1>2, <1>3, EarlyReturn
<1>4. CASE token[t].state = "open" /\ ~token[t].expired /\ Goto(c, "spend")
  <2>1. \A d \in Calls : /\ call'[d].at = "spend" /\ call'[d].session = call[c].session
                         /\ call'[d].ref = call[c].ref /\ call'[d].found = call[c].found
                         /\ call'[d].token = t
    BY <1>0, <1>4, AfterGoto DEF SInv
  <2>2. \A d \in Calls : Sure(call[d])'
    BY <1>1, <1>4, <2>1 DEF Sure
  <2>3. \A u \in Tokens : StageFor(call[c], u)' = StageFor(call[c], u)
    BY <1>1, <1>4, <2>1 DEF StageFor
  <2>4. GateStep
    BY <1>1, <2>3, StageOne, GateStutters
  <2> QED BY <1>2, <2>2, <2>4 DEF SInv
<1> QED BY <1>0, <1>3, <1>4 DEF SpendRead, Spendable

LEMMA SoloSpendCommit ==
    ASSUME OneCall, SInv, IInv', NEW c \in Calls, SpendCommit(c)
    PROVE  SInv' /\ GateStep
<1>0. PICK t : t = call[c].token
  OBVIOUS
<1> DEFINE stages == [u \in Tokens |-> Stage(u)]
           bindings == [u \in Tokens |-> Binding(u)]
           sibs == Siblings(t, call[c].session, call[c].tool, call[c].ref)
<1>1. /\ call[c].at = "spend" /\ Sure(call[c]) /\ Holds(call[c]) /\ t \in Tokens
      /\ token[t].state = "open" /\ token \in [Tokens -> Token]
      /\ \A u \in Tokens : count[u] \in Nat
      /\ UNCHANGED <<session, count>>
  BY <1>0 DEF SInv, IInv, TypeOK, CallOK, Past, Holds, Sure, SpendCommit, history
<1>2. \A u \in Tokens : token[u].state = "open" => count[u] = 0
  BY <1>1 DEF SInv, CountsSpent
<1>3. \A u \in Tokens : u \in sibs <=> /\ u # t /\ token[u].state = "open"
                                       /\ Binding(u) = Binding(t)
  BY <1>0, <1>1 DEF Siblings, SamePayload, Binding, Holds
<1>4. \A u \in Tokens :
         /\ token'[u].state = IF u = t \/ u \in sibs THEN "spent" ELSE token[u].state
         /\ token'[u].expired = token[u].expired /\ token'[u].session = token[u].session
         /\ token'[u].job = token[u].job /\ token'[u].ref = token[u].ref
  <2>1. \A u \in Tokens : token'[u] = IF u = t \/ u \in sibs
                                      THEN [token[u] EXCEPT !.state = "spent"] ELSE token[u]
    BY <1>0 DEF SpendCommit
  <2> HIDE DEF sibs
  <2> QED BY <1>1, <2>1 DEF Token
<1> HIDE DEF sibs
<1>5. \A d \in Calls : /\ call'[d].at = "job" /\ call'[d].session = call[c].session
                       /\ call'[d].ref = call[c].ref /\ call'[d].found = call[c].found
                       /\ call'[d].token = t
  BY <1>0, AfterGoto DEF SInv, SpendCommit
<1>6. \A d \in Calls : Sure(call[d])'
  BY <1>1, <1>2, <1>5 DEF Sure
<1>7. SessionsBare' /\ CountsSpent'
  BY <1>1, <1>4 DEF SInv, SessionsBare, CountsSpent
<1>8. Stage(t) = "offered" /\ Stage(t)' = "claimed"
  <2>1. StageFor(call[c], t) = "offered"
    BY <1>0, <1>1, <1>2 DEF StageFor
  <2>2. StageFor(call[c], t)' = "claimed"
    BY <1>1, <1>2, <1>4, <1>5 DEF StageFor
  <2> QED BY <2>1, <2>2, StageOne
<1>9. ASSUME NEW u \in Tokens, u # t
      PROVE  Stage(u)' = IF Stage(u) = "offered" /\ Binding(u) = Binding(t) THEN "void"
                         ELSE Stage(u)
  <2>1. StageFor(call[c], u)' =
           IF StageFor(call[c], u) = "offered" /\ Binding(u) = Binding(t) THEN "void"
           ELSE StageFor(call[c], u)
    <3>1. CASE u \in sibs
      BY <1>0, <1>1, <1>2, <1>3, <1>4, <1>5, <1>9, <3>1 DEF StageFor
    <3>2. CASE u \notin sibs
      BY <1>0, <1>1, <1>3, <1>4, <1>5, <1>9, <3>2 DEF StageFor
    <3> QED BY <3>1, <3>2
  <2> QED BY <2>1, StageOne
<1>10. stages' = [u \in Tokens |->
                    IF u = t THEN "claimed"
                    ELSE IF stages[u] = "offered" /\ bindings[u] = bindings[t] THEN "void"
                    ELSE stages[u]]
  BY <1>1, <1>8, <1>9
<1>11. bindings' = bindings
  BY <1>4 DEF Binding
<1>12. Gate!Claim(t)
  BY <1>1, <1>8, <1>10, <1>11 DEF Gate!Claim
<1> QED BY <1>1, <1>6, <1>7, <1>12 DEF SInv, GateStep, Gate!Next

LEMMA SoloRunJob ==
    ASSUME OneCall, SInv, IInv', NEW c \in Calls, RunJob(c)
    PROVE  SInv' /\ GateStep
<1>0. PICK t : t = call[c].token
  OBVIOUS
<1> DEFINE stages == [u \in Tokens |-> Stage(u)]
<1>1. /\ call[c].at = "job" /\ t \in Tokens /\ token[t].state = "spent" /\ count[t] = 0
      /\ count \in [Tokens -> Nat] /\ UNCHANGED <<session, token>>
  BY <1>0 DEF SInv, IInv, TypeOK, CallOK, Past, Holds, Sure, RunJob
<1>2. \A d \in Calls : call'[d] = Idle
  BY AfterReturn DEF SInv, RunJob
<1>3. (\A d \in Calls : Sure(call[d])') /\ SessionsBare'
  BY <1>1, <1>2, IdleSure DEF SInv, Sure, SessionsBare
<1>4. PICK n \in {0, 1} : count' = [count EXCEPT ![t] = n]
  BY <1>0, <1>1 DEF RunJob
<1>5. CountsSpent'
  BY <1>1, <1>4 DEF SInv, CountsSpent
<1>6. Stage(t) = "claimed" /\ Stage(t)' = IF n = 1 THEN "done" ELSE "void"
  <2>1. StageFor(call[c], t) = "claimed"
    BY <1>0, <1>1 DEF StageFor
  <2>2. StageFor(call[c], t)' = IF n = 1 THEN "done" ELSE "void"
    BY <1>1, <1>2, <1>4, IdleSure DEF StageFor
  <2> QED BY <2>1, <2>2, StageOne
<1>7. ASSUME NEW u \in Tokens, u # t PROVE Stage(u)' = Stage(u)
  <2>1. StageFor(call[c], u)' = StageFor(call[c], u)
    BY <1>0, <1>1, <1>2, <1>4, <1>7, IdleSure DEF StageFor
  <2> QED BY <2>1, StageOne
<1>8. GateStep
  <2>1. CASE n = 0
    BY <1>1, <1>6, <1>7, <2>1, GateLapses
  <2>2. CASE n = 1
    <3>1. stages' = [stages EXCEPT ![t] = "done"]
      BY <1>1, <1>6, <1>7, <2>2
    <3>2. [u \in Tokens |-> Binding(u)]' = [u \in Tokens |-> Binding(u)]
      BY <1>1 DEF Binding
    <3>3. Gate!Finish(t)
      BY <1>1, <1>6, <3>1, <3>2 DEF Gate!Finish
    <3> QED BY <1>1, <3>3 DEF GateStep, Gate!Next
  <2> QED BY <2>1, <2>2
<1> QED BY <1>3, <1>5, <1>8 DEF SInv

LEMMA SoloDie ==
    ASSUME OneCall, SInv, IInv', NEW c \in Calls, Die(c)
    PROVE  SInv' /\ GateStep
<1>0. PICK t : t = call[c].token
  OBVIOUS
<1>1. Return(c) /\ UNCHANGED <<session, token, count>>
  BY DEF Die, history
<1>2. \A d \in Calls : call'[d] = Idle
  BY <1>1, AfterReturn DEF SInv
<1>3. SInv'
  BY <1>1, <1>2, IdleSure DEF SInv, Sure, SessionsBare, CountsSpent
<1>4. CASE ~Past(call[c])
  BY <1>1, <1>2, <1>3, <1>4, IdleSure, GateBlind
<1>5. CASE Past(call[c])
  <2>1. t \in Tokens /\ (call[c].at = "job" => token[t].state = "spent" /\ count[t] = 0)
    <3>1. CallOK(call[c]) /\ Sure(call[c])
      BY DEF SInv, IInv
    <3> QED BY <1>0, <1>5, <3>1 DEF CallOK, Past, Holds, Sure
  <2>2. ASSUME NEW u \in Tokens, u # t PROVE Stage(u)' = Stage(u)
    <3>1. StageFor(call[c], u)' = StageFor(call[c], u)
      BY <1>0, <1>1, <1>2, <2>2, IdleSure DEF StageFor
    <3> QED BY <3>1, StageOne
  <2>3. \/ Stage(t)' = Stage(t)
        \/ Stage(t) \in {"offered", "claimed"} /\ Stage(t)' = "void"
    <3>1. \/ StageFor(call[c], t)' = StageFor(call[c], t)
          \/ StageFor(call[c], t) \in {"offered", "claimed"} /\ StageFor(call[c], t)' = "void"
      BY <1>1, <1>2, <2>1, IdleSure DEF StageFor
    <3> QED BY <3>1, StageOne
  <2>4. CASE Stage(t)' = Stage(t)
    BY <1>1, <1>3, <2>2, <2>4, GateStutters
  <2>5. CASE Stage(t) \in {"offered", "claimed"} /\ Stage(t)' = "void"
    BY <1>1, <1>3, <2>1, <2>2, <2>5, GateLapses
  <2> QED BY <1>3, <2>3, <2>4, <2>5
<1> QED BY <1>3, <1>4, <1>5

LEMMA SoloExpire ==
    ASSUME OneCall, SInv, IInv', NEW t \in Tokens, Expire(t)
    PROVE  SInv' /\ GateStep
<1>1. /\ token[t].state = "open" /\ ~token[t].expired /\ token \in [Tokens -> Token]
      /\ UNCHANGED <<session, call, count>>
  BY DEF SInv, IInv, TypeOK, Expire, history
<1>2. /\ token'[t].expired
      /\ \A u \in Tokens :
            /\ token'[u].state = token[u].state /\ token'[u].session = token[u].session
            /\ token'[u].job = token[u].job /\ token'[u].ref = token[u].ref
            /\ u # t => token'[u] = token[u]
  BY <1>1 DEF Expire, Token
<1>3. \A c \in Calls : Sure(call[c])'
  <2>1. \A c \in Calls : call[c].at = "spend" => call[c].token \in Tokens
    BY DEF SInv, IInv, CallOK, Past, Holds
  <2> QED BY <1>1, <1>2, <2>1 DEF SInv, Sure, Found
<1>4. SInv'
  BY <1>1, <1>2, <1>3 DEF SInv, SessionsBare, CountsSpent
<1>5. \A u \in Tokens : u # t => Stage(u)' = Stage(u)
  BY <1>1, <1>2 DEF Stage
<1>6. \/ Stage(t)' = Stage(t)
      \/ Stage(t) = "offered" /\ Stage(t)' = "void"
  BY <1>1, <1>2 DEF Stage
<1>7. [u \in Tokens |-> Binding(u)]' = [u \in Tokens |-> Binding(u)]
  BY <1>2 DEF Binding
<1>8. CASE Stage(t)' = Stage(t)
  <2>1. [u \in Tokens |-> Stage(u)]' = [u \in Tokens |-> Stage(u)]
    BY <1>5, <1>8
  <2> QED BY <1>4, <1>7, <2>1 DEF GateStep, Gate!gate
<1>9. CASE Stage(t) = "offered" /\ Stage(t)' = "void"
  <2> DEFINE stages == [u \in Tokens |-> Stage(u)]
  <2>1. stages' = [stages EXCEPT ![t] = "void"]
    BY <1>5, <1>9
  <2>2. stages[t] = "offered"
    BY <1>9
  <2>3. Gate!Lapse(t)
    BY <1>7, <2>1, <2>2 DEF Gate!Lapse
  <2> QED BY <1>4, <2>3 DEF GateStep, Gate!Next
<1> QED BY <1>6, <1>8, <1>9

\* Steps that touch neither tokens nor calls, and no session a call uses.
LEMMA SoloAround ==
    ASSUME SInv, IInv', UNCHANGED <<token, call, count>>, SessionsBare',
           \A c \in Calls : call[c].at # "idle" => session'[call[c].session] = session[call[c].session]
    PROVE  SInv' /\ GateStep
<1>1. \A c \in Calls : Sure(call[c])'
  BY DEF SInv, Sure, Found
<1>2. \A t \in Tokens : Stage(t)' = Stage(t)
  BY DEF Stage
<1> QED BY <1>1, <1>2, GateStutters DEF SInv, CountsSpent

LEMMA SoloGoStale ==
    ASSUME SInv, IInv', NEW s \in Sessions, GoStale(s)
    PROVE  SInv' /\ GateStep
<1>1. /\ session \in [Sessions -> Session] /\ UNCHANGED <<token, call, count>>
      /\ \A c \in Calls : call[c].session # s
      /\ \A c \in Calls : call[c].at # "idle" => call[c].session \in Sessions
  BY DEF SInv, IInv, TypeOK, CallOK, GoStale, history
<1>2. \A q \in Sessions : /\ session'[q].exists = session[q].exists
                          /\ session'[q].current = session[q].current
                          /\ q # s => session'[q] = session[q]
  BY <1>1 DEF GoStale, Session
<1>3. SessionsBare'
  BY <1>2 DEF SInv, SessionsBare
<1> QED BY <1>1, <1>2, <1>3, SoloAround

---------------------------------------------------------------------------
(* The theorems for one call at a time *)

LEMMA SoloInit == Init => SInv /\ Gate!Init
<1> SUFFICES ASSUME Init PROVE SInv /\ Gate!Init
  OBVIOUS
<1>1. SessionsBare
  BY DEF Init, SessionsBare, Fresh
<1>2. CountsSpent
  BY DEF Init, CountsSpent
<1>3. \A c \in Calls : Sure(call[c])
  BY IdleSure DEF Init
<1>4. [t \in Tokens |-> Stage(t)] = [t \in Tokens |-> "none"]
  BY DEF Init, Stage, Unissued
<1>5. \A t \in Tokens : Binding(t) \in [session : Sessions \cup {None}, job : Jobs \cup {"none"},
                                        ref : Refs]
  BY DEF Init, Binding, Unissued, Refs
<1> QED BY <1>1, <1>2, <1>3, <1>4, <1>5, InitIInv DEF SInv, Gate!Init

LEMMA SoloNext == ASSUME OneCall PROVE SInv /\ [Next]_vars => SInv' /\ GateStep
<1> SUFFICES ASSUME SInv, [Next]_vars PROVE SInv' /\ GateStep
  OBVIOUS
<1>0. IInv'
  BY NextIInv DEF SInv
<1>1. CASE UNCHANGED vars \/ (\E e \in Events : Regrant(e) \/ \E name \in Titles : Rename(e, name))
  <2>1. UNCHANGED <<session, token, call, count>>
    BY <1>1 DEF vars, history, Regrant, Rename
  <2> QED BY <1>0, <2>1, SoloAround DEF SInv, SessionsBare
<1>2. ASSUME NEW c \in Calls, Arrive(c) PROVE SInv' /\ GateStep
  BY <1>0, <1>2, SoloArrive DEF Arrive
<1>3. ASSUME NEW c \in Calls, Step(c) PROVE SInv' /\ GateStep
  BY <1>0, <1>3, SoloTouch, SoloResolveNamed, SoloPin, SoloListRefs, SoloResolveCurrent,
     SoloUnpin, SoloPreview, SoloSpendRead, SoloSpendCommit, SoloRunJob DEF Step
<1>4. ASSUME NEW c \in Calls, Die(c) PROVE SInv' /\ GateStep
  BY <1>0, <1>4, SoloDie
<1>5. ASSUME NEW t \in Tokens, Expire(t) PROVE SInv' /\ GateStep
  BY <1>0, <1>5, SoloExpire
<1>6. ASSUME NEW s \in Sessions, GoStale(s) PROVE SInv' /\ GateStep
  BY <1>0, <1>6, SoloGoStale
<1> QED BY <1>1, <1>2, <1>3, <1>4, <1>5, <1>6 DEF Next

\* One call at a time: what touch and spend found still holds when the call acts on it,
\* though calls die and tokens expire at any moment.
THEOREM OneCallInvariant == ASSUME OneCall PROVE Spec => []SInv
<1>1. SInv /\ [Next]_vars => SInv'
  BY SoloNext
<1> QED BY <1>1, SoloInit, PTL DEF Spec

\* One call at a time, a session that is new or was unused for 24 hours lets no job run
\* on an event the call did not name.
THEOREM IdleSessionsForget == ASSUME OneCall PROVE Spec => []IdleSessionForgets
<1>1. SInv => IdleSessionForgets
  BY DEF SInv, Sure, IdleSessionForgets
<1> QED BY <1>1, OneCallInvariant, PTL

\* One call at a time, McpConfirm implements ConfirmGate: every step of a call, every
\* expiry and every failure is one step of the abstract gate, or none.
THEOREM GateIsImplemented == ASSUME OneCall PROVE Spec => ImplementsGate
<1>1. SInv /\ [Next]_vars => [Gate!Next]_(Gate!gate)
  BY SoloNext DEF GateStep
<1> QED BY <1>1, SoloInit, OneCallInvariant, PTL DEF Spec, ImplementsGate, Gate!Spec
=============================================================================
