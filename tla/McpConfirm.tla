----------------------------- MODULE McpConfirm -----------------------------
(***************************************************************************)
(* The two-step gate in front of the connector's risky jobs: a first call  *)
(* shows what the job would do and returns a confirm token, a second call  *)
(* with the same arguments spends the token and runs the job.              *)
(* Source: src/apps/api/src/mcp/, where McpJobsService.run touches the     *)
(* session, McpScopeService.resolve finds the event a job is about, and    *)
(* McpConfirmService issues and spends tokens.                             *)
(*                                                                         *)
(* The sessions are those of one account: a session id is derived from the *)
(* account, so another account's session is never named.  A call is an     *)
(* async function without locks; a step is one database statement or one   *)
(* $transaction batch.  A touch after the first one of a call only         *)
(* refreshes lastUsedAt, because the first one has made the session exist  *)
(* and a session does not go 24 hours without use while a call uses it, so *)
(* it is left out.  Arguments are abstracted to the one that decides which *)
(* event the job is about; the other arguments are part of the tool.       *)
(*                                                                         *)
(* A definition named X_Y is a seeded fault: X with the one bug Y names.   *)
(***************************************************************************)
EXTENDS Integers, FiniteSets

CONSTANTS Sessions, Events, Titles,
          Tokens,      \* bounds how many tokens are ever issued
          Calls,       \* call slots
          Jobs,        \* the confirm-gated tools
          Cheap,       \* the other tools clients call
          Asks,        \* the event arguments clients send
          Faults,      \* whether a call may die between two statements
          None

ASSUME ConfirmAssumption ==
    /\ None \notin Sessions \cup Events \cup Titles \cup Tokens
    /\ Events \cap Titles = {}
    /\ Cheap \subseteq {"set_current_event", "clear_current_event"}
    /\ Jobs \cap (Cheap \cup {"none"}) = {}
    /\ Asks \subseteq Events \cup Titles \cup {None}
    /\ Faults \in BOOLEAN

VARIABLES session,   \* the mcp_sessions rows
          token,     \* the mcp_confirm_tokens rows
          access,    \* which events the account may work on
          title,     \* the title of each event
          call,      \* the calls in flight
          runs,      \* history: the jobs that ran, and on which event
          count      \* history: how often a job ran on the strength of a token

grants == <<access, title>>
history == <<runs, count>>
vars == <<session, token, grants, call, history>>

---------------------------------------------------------------------------
Tools == Jobs \cup Cheap

\* The event argument: an event_id, an event_title, or neither.
Refs == Events \cup Titles \cup {None}

Session == [exists : BOOLEAN, current : Events \cup {None}, stale : BOOLEAN]

\* shown is the event the preview's summary and blast radius were about.
Token == [state : {"none", "open", "spent"}, expired : BOOLEAN, session : Sessions \cup {None},
          job : Jobs \cup {"none"}, ref : Refs, shown : Events \cup {None}]

Unissued == [state |-> "none", expired |-> FALSE, session |-> None,
             job |-> "none", ref |-> None, shown |-> None]

Phases == {"idle", "touch", "resolve", "current", "pin", "unpin", "confirm", "spend", "job"}

\* found: the session row as touch reads it; seen: the events listRefs returned;
\* used (history): the token was already spent when the call came in.
Call == [at : Phases, tool : Tools \cup {"none"}, session : Sessions \cup {None}, ref : Refs,
         token : Tokens \cup {None}, event : Events \cup {None},
         found : {"nothing", "live", "stale"}, seen : SUBSET Events, used : BOOLEAN]

Fresh == [exists |-> FALSE, current |-> None, stale |-> FALSE]

Idle == [at |-> "idle", tool |-> "none", session |-> None, ref |-> None, token |-> None,
         event |-> None, found |-> "nothing", seen |-> {}, used |-> FALSE]

Found(s) == IF ~session[s].exists THEN "nothing" ELSE IF session[s].stale THEN "stale" ELSE "live"

\* What the client sends, and the rows as the call first finds them.
Incoming(tool, s, ref, t) ==
    [at |-> "touch", tool |-> tool, session |-> s, ref |-> ref, token |-> t, event |-> None,
     found |-> Found(s), seen |-> {}, used |-> t # None /\ token[t].state = "spent"]

Run == [token : Tokens, job : Jobs, session : Sessions, ref : Refs, event : Events]

TypeOK ==
    /\ session \in [Sessions -> Session]
    /\ token \in [Tokens -> Token]
    /\ access \in [Events -> {"granted", "withheld", "deleted"}]
    /\ title \in [Events -> Titles]
    /\ call \in [Calls -> Call]
    /\ runs \subseteq Run
    /\ count \in [Tokens -> Nat]

Init ==
    /\ session = [s \in Sessions |-> Fresh]
    /\ token = [t \in Tokens |-> Unissued]
    /\ access = [e \in Events |-> "granted"]
    /\ title \in [Events -> Titles]
    /\ call = [c \in Calls |-> Idle]
    /\ runs = {}
    /\ count = [t \in Tokens |-> 0]

Return(c) == call' = [call EXCEPT ![c] = Idle]
Goto(c, phase) == call' = [call EXCEPT ![c].at = phase]
GotoOn(c, phase, e) ==
    call' = [call EXCEPT ![c] = [@ EXCEPT !.at = phase, !.event = e, !.seen = {}]]

---------------------------------------------------------------------------
(* McpSessionService.touch *)

\* A call comes in; a client presents only a token it was once given.
TouchRead(c, tool, s, ref, t) ==
    /\ call[c].at = "idle"
    /\ t # None => token[t].state # "none"
    /\ call' = [call EXCEPT ![c] = Incoming(tool, s, ref, t)]
    /\ UNCHANGED <<session, token, grants, history>>

TouchWrite_KeepsEvent(c) ==
    LET s == call[c].session
        lost == call[c].found = "nothing" /\ session[s].exists
    IN
    /\ call[c].at = "touch"
    /\ session' = IF lost THEN session
                  ELSE [session EXCEPT ![s].exists = TRUE, ![s].stale = FALSE]
    /\ IF lost THEN Return(c)
       ELSE Goto(c, IF call[c].tool = "clear_current_event" THEN "unpin" ELSE "resolve")
    /\ UNCHANGED <<token, grants, history>>

\* Creates the row, or refreshes it and forgets a stale current event.  The
\* second of two creates fails on the primary key, and the call with it.
TouchWrite(c) ==
    LET s == call[c].session
        lost == call[c].found = "nothing" /\ session[s].exists
    IN
    /\ call[c].at = "touch"
    /\ session' = IF lost THEN session
                  ELSE [session EXCEPT ![s].exists = TRUE, ![s].stale = FALSE,
                           ![s].current = IF call[c].found = "stale" THEN None ELSE @]
    /\ IF lost THEN Return(c)
       ELSE Goto(c, IF call[c].tool = "clear_current_event" THEN "unpin" ELSE "resolve")
    /\ UNCHANGED <<token, grants, history>>

---------------------------------------------------------------------------
(* McpScopeService.resolve *)

visible == {e \in Events : access[e] = "granted"}

Titled(name) == {e \in visible : title[e] = name}

\* An event_id must be accessible; a title must be that of one visible event.
Named(ref) == IF ref \in Events THEN {ref} \cap visible ELSE Titled(ref)

ResolveNamed(c) ==
    LET found == Named(call[c].ref) IN
    /\ call[c].at = "resolve" /\ call[c].ref # None
    /\ IF Cardinality(found) = 1 THEN GotoOn(c, "pin", CHOOSE e \in found : TRUE)
                                 ELSE Return(c)
    /\ UNCHANGED <<session, token, grants, history>>

\* A named event becomes the session's current one.
Pin(c) ==
    /\ call[c].at = "pin"
    /\ session' = [session EXCEPT ![call[c].session].current = call[c].event]
    /\ IF call[c].tool = "set_current_event" THEN Return(c) ELSE Goto(c, "confirm")
    /\ UNCHANGED <<token, grants, history>>

\* With no event named, the visible events are listed first ...
ListRefs(c) ==
    /\ call[c].at = "resolve" /\ call[c].ref = None
    /\ call' = [call EXCEPT ![c] = [@ EXCEPT !.at = "current", !.seen = visible]]
    /\ UNCHANGED <<session, token, grants, history>>

\* ... and then the session's current event is looked up among them.
ResolveCurrent(c) ==
    LET e == session[call[c].session].current IN
    /\ call[c].at = "current"
    /\ \/ e = None /\ Return(c)
       \/ e # None /\ e \notin call[c].seen /\ GotoOn(c, "unpin", None)
       \/ /\ e \in call[c].seen
          /\ IF call[c].tool \in Jobs THEN GotoOn(c, "confirm", e) ELSE Return(c)
    /\ UNCHANGED <<session, token, grants, history>>

\* clear_current_event, or a current event that is no longer visible.
Unpin(c) ==
    /\ call[c].at = "unpin"
    /\ session' = [session EXCEPT ![call[c].session].current = None]
    /\ Return(c)
    /\ UNCHANGED <<token, grants, history>>

---------------------------------------------------------------------------
(* McpConfirmService *)

\* The payload hash covers the tool and the arguments as the client sent them.
SamePayload(t, job, ref) == token[t].job = job /\ token[t].ref = ref

Issued(c) == [state |-> "open", expired |-> FALSE, session |-> call[c].session,
              job |-> call[c].tool, ref |-> call[c].ref, shown |-> call[c].event]

Preview_RunsAnyway(c, t) ==
    /\ call[c].at = "confirm" /\ call[c].token = None
    /\ token[t].state = "none"
    /\ token' = [token EXCEPT ![t] = Issued(c)]
    /\ Goto(c, "job")
    /\ UNCHANGED <<session, grants, history>>

\* The first call: issues a token, returns the preview and does nothing else.
Preview(c, t) ==
    /\ call[c].at = "confirm" /\ call[c].token = None
    /\ token[t].state = "none"
    /\ token' = [token EXCEPT ![t] = Issued(c)]
    /\ Return(c)
    /\ UNCHANGED <<session, grants, history>>

Spendable_AnySession(t, s, job, ref) ==
    /\ SamePayload(t, job, ref)
    /\ token[t].state = "open"
    /\ ~token[t].expired

Spendable_IgnoresSpent(t, s, job, ref) ==
    /\ token[t].session = s
    /\ SamePayload(t, job, ref)
    /\ ~token[t].expired

\* The guards of spend, on the token row as it stands at the read.
Spendable(t, s, job, ref) ==
    /\ token[t].session = s
    /\ SamePayload(t, job, ref)
    /\ token[t].state = "open"
    /\ ~token[t].expired

SpendRead(c) ==
    /\ call[c].at = "confirm" /\ call[c].token # None
    /\ IF Spendable(call[c].token, call[c].session, call[c].tool, call[c].ref)
       THEN Goto(c, "spend") ELSE Return(c)
    /\ UNCHANGED <<session, token, grants, history>>

Siblings_Survive(t, s, job, ref) == {}

\* The tokens that die with t: those the same session still holds for the same job.
Siblings(t, s, job, ref) ==
    {u \in Tokens \ {t} : /\ token[u].session = s /\ SamePayload(u, job, ref)
                          /\ token[u].state = "open"}

\* One transaction, which does not look at spentAt or expiresAt again.
SpendCommit(c) ==
    LET t == call[c].token
        dead == {t} \cup Siblings(t, call[c].session, call[c].tool, call[c].ref)
    IN
    /\ call[c].at = "spend"
    /\ token' = [u \in Tokens |-> IF u \in dead THEN [token[u] EXCEPT !.state = "spent"]
                                  ELSE token[u]]
    /\ Goto(c, "job")
    /\ UNCHANGED <<session, grants, history>>

\* The job itself, on the event this call resolved: the service behind it
\* checks access again; delete_event takes the event out of sight.
RunJob(c) ==
    LET t == call[c].token
        e == call[c].event
    IN
    /\ call[c].at = "job"
    /\ IF e \in visible
       THEN /\ runs' = runs \cup {[token |-> t, job |-> call[c].tool, event |-> e,
                                   session |-> call[c].session, ref |-> call[c].ref]}
            /\ count' = [count EXCEPT ![t] = @ + 1]
            /\ access' = IF call[c].tool = "delete_event"
                         THEN [access EXCEPT ![e] = "deleted"] ELSE access
       ELSE UNCHANGED <<runs, count, access>>
    /\ Return(c)
    /\ UNCHANGED <<session, token, title>>

---------------------------------------------------------------------------
(* The surroundings *)

\* A call dies with the process, or a statement fails and the error is returned.
Die(c) ==
    /\ Faults
    /\ call[c].at # "idle"
    /\ Return(c)
    /\ UNCHANGED <<session, token, grants, history>>

\* Ten minutes pass since the preview.
Expire(t) ==
    /\ token[t].state = "open" /\ ~token[t].expired
    /\ token' = [token EXCEPT ![t].expired = TRUE]
    /\ UNCHANGED <<session, grants, call, history>>

\* A session goes unused for 24 hours; every token it holds has expired by then.
GoStale(s) ==
    /\ session[s].exists /\ ~session[s].stale
    /\ \A c \in Calls : call[c].session # s
    /\ \A t \in Tokens : token[t].session = s => token[t].state = "spent" \/ token[t].expired
    /\ session' = [session EXCEPT ![s].stale = TRUE]
    /\ UNCHANGED <<token, grants, call, history>>

\* On the website, a host shares an event with the account or takes it back ...
Regrant(e) ==
    /\ access[e] # "deleted"
    /\ access' = [access EXCEPT ![e] = IF @ = "granted" THEN "withheld" ELSE "granted"]
    /\ UNCHANGED <<session, token, title, call, history>>

\* ... and renames events.
Rename(e, name) ==
    /\ title[e] # name
    /\ title' = [title EXCEPT ![e] = name]
    /\ UNCHANGED <<session, token, access, call, history>>

---------------------------------------------------------------------------
Arrive(c) == \E tool \in Tools, s \in Sessions, ref \in Asks, t \in Tokens \cup {None} :
    /\ tool \notin Jobs => t = None
    /\ tool = "clear_current_event" => ref = None
    /\ TouchRead(c, tool, s, ref, t)

Step(c) ==
    \/ TouchWrite(c)
    \/ ResolveNamed(c)
    \/ Pin(c)
    \/ ListRefs(c)
    \/ ResolveCurrent(c)
    \/ Unpin(c)
    \/ \E t \in Tokens : Preview(c, t)
    \/ SpendRead(c)
    \/ SpendCommit(c)
    \/ RunJob(c)

Next ==
    \/ \E c \in Calls : Arrive(c) \/ Step(c) \/ Die(c)
    \/ \E t \in Tokens : Expire(t)
    \/ \E s \in Sessions : GoStale(s)
    \/ \E e \in Events : Regrant(e) \/ \E name \in Titles : Rename(e, name)

Spec == Init /\ [][Next]_vars

---------------------------------------------------------------------------
(* Properties *)

\* A job only ever runs on the strength of a spent token that was issued to the
\* same session for the same job and arguments, and, when the arguments name an
\* event by id, on the event the preview was about.  Guards needConfirm and spend
\* against any interleaving of calls, crashes, expiry and revoked access.
RunsAreGranted == \A run \in runs :
    LET grant == token[run.token] IN
    /\ grant.state = "spent"
    /\ grant.session = run.session /\ grant.job = run.job /\ grant.ref = run.ref
    /\ run.ref \in Events => run.event = run.ref /\ grant.shown = run.ref

\* A confirmation that arrives after its token was spent, by an earlier copy of
\* itself or along with a sibling, never gets past spend: only calls that overlap
\* can both run.
RetryIsRefused == \A c \in Calls :
    call[c].at \in {"spend", "job"} => ~call[c].used

\* One at a time, a call that finds its session new or 24 hours unused never
\* reaches a job without naming the event: touch has forgotten the current one.
IdleSessionForgets == \A c \in Calls :
    call[c].at \in {"confirm", "spend", "job"} /\ call[c].ref = None
        => call[c].found = "live"

\* docs/specs/mcp-connector.md FR-26: reuse of a token must not mutate a second time.
SpendsOnce == \A t \in Tokens : count[t] <= 1

\* docs/specs/mcp-connector.md AC-13: a token issued for a job on one event, sent
\* with another event current, runs nothing.
RunsOnShownEvent == \A run \in runs : run.event = token[run.token].shown

\* Where a token stands for someone who handles one call at a time: expiry no
\* longer matters once spend has read the token.
Stage(t) ==
    IF token[t].state = "none" THEN "none"
    ELSE IF count[t] > 0 THEN "done"
    ELSE IF \E c \in Calls : call[c].at = "job" /\ call[c].token = t THEN "claimed"
    ELSE IF /\ token[t].state = "open"
            /\ token[t].expired => \E c \in Calls : call[c].at = "spend" /\ call[c].token = t
         THEN "offered"
    ELSE "void"

Binding(t) == [session |-> token[t].session, job |-> token[t].job, ref |-> token[t].ref]

Gate == INSTANCE ConfirmGate WITH
    Bindings <- [session : Sessions \cup {None}, job : Jobs \cup {"none"}, ref : Refs],
    stage <- [t \in Tokens |-> Stage(t)],
    binding <- [t \in Tokens |-> Binding(t)]

\* One call at a time, issuing and spending is the abstract gate: a token goes
\* from offered to claimed to done at most once, and claiming it voids every
\* other offer for the same job.
ImplementsGate == Gate!Spec
=============================================================================
