-------------------------- MODULE SessionRegistry --------------------------
(***************************************************************************)
(* What the sessions of the dashboard promise to whoever holds a cookie:   *)
(* one registry that is always there.  A request takes effect once, at one *)
(* moment after it arrives, and is answered only after that; one that is   *)
(* dropped took effect whole or not at all, and nobody is told.  A session *)
(* that was closed is never live again, and nothing but a request that     *)
(* closes sessions closes one.                                             *)
(*                                                                         *)
(* Sessions.tla implements this with a table in a file, a store that is    *)
(* opened and migrated on first use, worker threads, an in-memory set of   *)
(* revoked tokens, and a process that may be killed anywhere.              *)
(***************************************************************************)
EXTENDS Integers

CONSTANTS
    Tokens,      \* session tokens
    OldTokens,   \* those an earlier version of the program may have issued
    Clients,     \* whoever sends requests, each one at a time
    MaxAge       \* lifetime of a session, in ticks of the clock

VARIABLES
    live,        \* live[t]: when the session t, not closed, was issued
    closed,      \* the sessions that were closed
    request,     \* the request of each client: pending, or done and unanswered
    jar,         \* tokens that were handed out
    ended,       \* tokens whose end was acknowledged
    clock

registryVars == <<live, closed, request, jar, ended, clock>>

None == [state |-> "none", op |-> "none", tokens |-> {}]

Init ==
    /\ \E S \in SUBSET OldTokens : live = [t \in S |-> 0]
    /\ closed \in SUBSET (OldTokens \ DOMAIN live)
    /\ request = [c \in Clients |-> None]
    /\ jar = closed \cup DOMAIN live
    /\ ended = closed
    /\ clock = 0

----------------------------------------------------------------------------
\* A request arrives; only tokens that were handed out are sent back.
Ask(c, op, tokens) ==
    /\ request[c] = None
    /\ request' = [request EXCEPT ![c] =
           [state |-> "pending", op |-> op, tokens |-> tokens]]
    /\ UNCHANGED <<live, closed, jar, ended, clock>>

Arrive(c) ==
    \/ \E t \in Tokens \ jar : Ask(c, "create", {t})
    \/ \E t \in jar : Ask(c, "revoke", {t}) \/ Ask(c, "check", {t})
    \/ Ask(c, "revoke_all", {})

Pending(c, op) ==
    /\ request[c].state = "pending"
    /\ request[c].op = op
    /\ UNCHANGED <<jar, ended, clock>>

Done(c, tokens) ==
    request' = [request EXCEPT ![c] = [state |-> "done", op |-> @.op, tokens |-> tokens]]

\* The session begins; its token was never used before.
Issue(c) ==
    LET new == request[c].tokens IN
    /\ Pending(c, "create")
    /\ new \cap (closed \cup DOMAIN live) = {}
    /\ live' = [t \in new \cup DOMAIN live |-> IF t \in new THEN clock ELSE live[t]]
    /\ Done(c, new)
    /\ UNCHANGED closed

\* Sessions end, those named or all there are.
Close(gone) ==
    /\ live' = [t \in DOMAIN live \ gone |-> live[t]]
    /\ closed' = closed \cup gone

CloseNamed(c) ==
    /\ Pending(c, "revoke")
    /\ Close(request[c].tokens)
    /\ Done(c, request[c].tokens)

CloseAll(c) ==
    /\ Pending(c, "revoke_all")
    /\ Close(DOMAIN live)
    /\ Done(c, closed \cup DOMAIN live)

\* A request is let in only while its session is live and has not run out.
Accept(c) ==
    /\ Pending(c, "check")
    /\ \A t \in request[c].tokens : t \in DOMAIN live /\ clock < live[t] + MaxAge
    /\ Done(c, request[c].tokens)
    /\ UNCHANGED <<live, closed>>

\* The answer to what was done: a cookie, an acknowledged end, or the page.
Answer(c) ==
    LET r == request[c] IN
    /\ r.state = "done"
    /\ jar' = IF r.op = "create" THEN jar \cup r.tokens ELSE jar
    /\ ended' = IF r.op \in {"revoke", "revoke_all"} THEN ended \cup r.tokens ELSE ended
    /\ request' = [request EXCEPT ![c] = None]
    /\ UNCHANGED <<live, closed, clock>>

\* Requests that are refused, fail, or die with the server.
Drop(S) ==
    /\ request' = [c \in Clients |-> IF c \in S THEN None ELSE request[c]]
    /\ UNCHANGED <<live, closed, jar, ended, clock>>

Tick ==
    /\ clock' = clock + 1
    /\ UNCHANGED <<live, closed, request, jar, ended>>

Next ==
    \/ \E S \in SUBSET Clients : Drop(S)
    \/ \E c \in Clients :
        Arrive(c) \/ Issue(c) \/ CloseNamed(c) \/ CloseAll(c) \/ Accept(c) \/ Answer(c)
    \/ Tick

Spec == Init /\ [][Next]_registryVars
=============================================================================
