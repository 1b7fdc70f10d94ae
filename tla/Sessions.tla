------------------------------ MODULE Sessions ------------------------------
(***************************************************************************)
(* Browser sessions of the dashboard: the store of sessions.py with its    *)
(* schema migrations, the checks of auth.py that read it, and the handlers *)
(* of app.py that sign in, sign out and revoke everything.                 *)
(*                                                                         *)
(* One process serves all requests (uvicorn --workers 1); its handlers run *)
(* in worker threads, which share the store, opened on first use under a   *)
(* lock, and the in-memory set of revoked tokens.  Every statement of the  *)
(* store is one SQLite transaction and may fail; the process may be killed *)
(* between any two steps.  A token stands for its hash.                    *)
(*                                                                         *)
(* Left out: the credentials of a sign-in and the limiter in front of it,  *)
(* CSRF (both only refuse a request), the static bearer token, which is    *)
(* not a session, and user ids, which no handler stores.                   *)
(***************************************************************************)
EXTENDS Integers, FiniteSets

CONSTANTS
    Tokens,          \* session tokens
    OldTokens,       \* those an earlier version of the program may have issued
    WebThreads,      \* worker threads
    MaxAge,          \* lifetime of a session, in ticks of the clock
    MaxClock,        \* bound: last tick
    MaxSignings,     \* bound: requests that change sessions
    MaxWebFaults     \* bound: statements that fail, plus processes killed

ASSUME SessionsAssumption ==
    /\ OldTokens \subseteq Tokens
    /\ "none" \notin WebThreads
    /\ MaxAge \in Nat /\ MaxClock \in Nat

VARIABLES
    sessionDb,       \* the committed database: its schema version and its rows
    process,         \* the server process: running?, store, lock, cache
    work,            \* what each worker thread is doing
    jar,             \* tokens whose cookie a browser was sent
    ended,           \* tokens whose revocation was answered with success
    asked,           \* tokens somebody asked to revoke
    clock,
    signings,
    webFaults

webVars == <<sessionDb, process, work, jar, ended, asked, clock, signings,
             webFaults>>

NoThread == "none"
NoRequest == [pc |-> "idle", op |-> "none", tokens |-> {}, over |-> FALSE]
Stopped == [running |-> FALSE, open |-> FALSE, opener |-> NoThread,
            stage |-> "closed", pending |-> [version |-> 3, rows |-> <<>>],
            revoked |-> {}]

Row(at) == [issued |-> at, revoked |-> FALSE]
Expired(row) == clock >= row.issued + MaxAge
Revoke(rows, gone) ==
    [t \in DOMAIN rows |-> [rows[t] EXCEPT !.revoked = @ \/ t \in gone]]
Insert(rows, new, at) ==
    [t \in new \cup DOMAIN rows |-> IF t \in new THEN Row(at) ELSE rows[t]]

\* A session somebody ended, or one that has run out, when a request arrives.
Over(t) ==
    \/ t \in ended
    \/ t \in DOMAIN sessionDb.rows /\ Expired(sessionDb.rows[t])

----------------------------------------------------------------------------
\* The database of an installation that ran before, in each schema version.
WebInit ==
    /\ sessionDb \in UNION {
           [version : {v}, rows : IF v = 0 THEN {<<>>} ELSE
               UNION {[S -> [issued : {0}, revoked : BOOLEAN]] : S \in SUBSET OldTokens}]
           : v \in 0..3}
    /\ process = Stopped
    /\ work = [h \in WebThreads |-> NoRequest]
    /\ jar = DOMAIN sessionDb.rows
    /\ ended = {t \in DOMAIN sessionDb.rows : sessionDb.rows[t].revoked}
    /\ asked = ended
    /\ clock = 0
    /\ signings = 0
    /\ webFaults = 0

\* The service starts: no store is open yet, and nothing is cached.
StartDashboard ==
    /\ ~process.running
    /\ process' = [Stopped EXCEPT !.running = TRUE]
    /\ UNCHANGED <<sessionDb, work, jar, ended, asked, clock, signings, webFaults>>

\* The process ends: killed anywhere, or stopped between requests.  An open
\* transaction is lost with it.
StopDashboard ==
    /\ process.running
    /\ \/ (\A h \in WebThreads : work[h].pc = "idle") /\ UNCHANGED webFaults
       \/ webFaults < MaxWebFaults /\ webFaults' = webFaults + 1
    /\ process' = Stopped
    /\ work' = [h \in WebThreads |-> NoRequest]
    /\ UNCHANGED <<sessionDb, jar, ended, asked, clock, signings>>

Receive(h, op, tokens) ==
    /\ process.running
    /\ work[h].pc = "idle"
    /\ work' = [work EXCEPT ![h] =
           [pc |-> "open", op |-> op, tokens |-> tokens,
            over |-> \E t \in tokens : Over(t)]]
    /\ UNCHANGED <<sessionDb, process, jar, ended, clock, webFaults>>

\* A sign-in that passed its checks: a token never used before.
SignIn(h, t) ==
    /\ signings < MaxSignings
    /\ t \notin jar \cup DOMAIN sessionDb.rows
    /\ \A k \in WebThreads : t \notin work[k].tokens
    /\ signings' = signings + 1
    /\ Receive(h, "create", {t})
    /\ UNCHANGED asked

\* A sign-out of one session, or the operator's revocation of them all.
SignOut(h, t) ==
    /\ signings < MaxSignings
    /\ t \in jar
    /\ signings' = signings + 1
    /\ asked' = asked \cup {t}
    /\ Receive(h, "revoke", {t})

RevokeAll(h) ==
    /\ signings < MaxSignings
    /\ signings' = signings + 1
    /\ Receive(h, "revoke_all", {})
    /\ UNCHANGED asked

\* Any request that carries a session cookie; a token this process has
\* revoked is refused at once.
Check(h, t) ==
    /\ t \in jar
    /\ t \notin process.revoked
    /\ Receive(h, "check", {t})
    /\ UNCHANGED <<asked, signings>>

----------------------------------------------------------------------------
\* get_session_store: the first thread opens the store under a lock; the
\* others wait for the lock and find it open.
Proceed(h) == work' = [work EXCEPT ![h].pc = "run"]

UseStore(h) ==
    /\ work[h].pc = "open"
    /\ \/ /\ process.open
          /\ Proceed(h)
          /\ UNCHANGED process
       \/ /\ ~process.open
          /\ process.opener = NoThread
          /\ process' = [process EXCEPT !.opener = h, !.stage = "detect"]
          /\ work' = [work EXCEPT ![h].pc = "opening"]
    /\ UNCHANGED <<sessionDb, jar, ended, asked, clock, signings, webFaults>>

Opening(h) ==
    /\ work[h].pc = "opening"
    /\ UNCHANGED <<jar, ended, asked, clock, signings, webFaults>>

\* SessionStore.__init__: the schema version found decides what is done.  The
\* v1 rows are read, and their tokens hashed, before the transaction begins.
Detect(h) ==
    /\ Opening(h)
    /\ process.stage = "detect"
    /\ process' = [process EXCEPT
           !.stage = IF sessionDb.version = 3 THEN "ready" ELSE "change",
           !.pending = [version |-> 3, rows |-> sessionDb.rows]]
    /\ UNCHANGED <<sessionDb, work>>

\* Mutant of ChangeSchema: without BEGIN every statement commits on its own.
ChangeSchemaAutocommit(h) ==
    /\ Opening(h)
    /\ process.stage = "change"
    /\ process' = [process EXCEPT !.stage = "commit"]
    /\ sessionDb' = [version |-> 3,
           rows |-> IF sessionDb.version = 1 THEN <<>> ELSE sessionDb.rows]
    /\ UNCHANGED work

\* The statements of the transaction.  A v1 table is renamed, an empty v3 one
\* takes its place, and the hashed rows are inserted: none of it shows before
\* COMMIT.
ChangeSchema(h) ==
    /\ Opening(h)
    /\ process.stage = "change"
    /\ process' = [process EXCEPT !.stage = "commit"]
    /\ UNCHANGED <<sessionDb, work>>

CommitSchema(h) ==
    /\ Opening(h)
    /\ process.stage = "commit"
    /\ sessionDb' = process.pending
    /\ process' = [process EXCEPT !.stage = "ready"]
    /\ UNCHANGED work

Opened(h) ==
    /\ Opening(h)
    /\ process.stage = "ready"
    /\ process' = [process EXCEPT !.open = TRUE, !.opener = NoThread, !.stage = "closed"]
    /\ Proceed(h)
    /\ UNCHANGED sessionDb

\* Opening fails: the transaction is rolled back and the connection closed.
\* Sign-in and revocation answer 503; a check finds no store and refuses.
OpenFails(h) ==
    /\ work[h].pc = "opening"
    /\ webFaults < MaxWebFaults
    /\ webFaults' = webFaults + 1
    /\ process' = [process EXCEPT !.opener = NoThread, !.stage = "closed"]
    /\ work' = [work EXCEPT ![h] = NoRequest]
    /\ UNCHANGED <<sessionDb, jar, ended, asked, clock, signings>>

----------------------------------------------------------------------------
Running(h, op) ==
    /\ work[h].pc = "run"
    /\ work[h].op = op
    /\ UNCHANGED <<process, ended, clock, signings, webFaults>>

Reply(h) == work' = [work EXCEPT ![h].pc = "reply"]

\* SessionStore.create, the row before the cookie.
Create(h) ==
    /\ Running(h, "create")
    /\ sessionDb' = [sessionDb EXCEPT !.rows = Insert(@, work[h].tokens, clock)]
    /\ Reply(h)
    /\ UNCHANGED <<jar, asked>>

\* SessionStore.revoke; a token without a row is not an error.
RevokeOne(h) ==
    /\ Running(h, "revoke")
    /\ sessionDb' = [sessionDb EXCEPT !.rows = Revoke(@, work[h].tokens)]
    /\ work' = [work EXCEPT ![h].pc =
           IF work[h].tokens \subseteq DOMAIN sessionDb.rows THEN "cache" ELSE "reply"]
    /\ UNCHANGED <<jar, asked>>

\* revoke_session: the process remembers what it has revoked.
Remember(h) ==
    /\ work[h].pc = "cache"
    /\ process' = [process EXCEPT !.revoked = @ \cup work[h].tokens]
    /\ Reply(h)
    /\ UNCHANGED <<sessionDb, jar, ended, asked, clock, signings, webFaults>>

\* SessionStore.revoke_all ends every session there is at that moment.
RevokeEvery(h) ==
    /\ Running(h, "revoke_all")
    /\ sessionDb' = [sessionDb EXCEPT !.rows = Revoke(@, DOMAIN @)]
    /\ work' = [work EXCEPT ![h].pc = "reply", ![h].tokens = DOMAIN sessionDb.rows]
    /\ asked' = asked \cup DOMAIN sessionDb.rows
    /\ UNCHANGED jar

\* SessionStore.is_valid: a row, not revoked, not run out.
Valid(t) ==
    /\ t \in DOMAIN sessionDb.rows
    /\ ~sessionDb.rows[t].revoked
    /\ ~Expired(sessionDb.rows[t])

Verify(h) ==
    /\ Running(h, "check")
    /\ work' = [work EXCEPT ![h] =
           IF \A t \in @.tokens : Valid(t) THEN [@ EXCEPT !.pc = "accepted"] ELSE NoRequest]
    /\ UNCHANGED <<sessionDb, jar, asked>>

\* Mutant of StatementFails: a failed revocation is logged, and the sign-out
\* answered all the same.
StatementFailsQuietly(h) ==
    /\ work[h].pc = "run"
    /\ webFaults < MaxWebFaults
    /\ webFaults' = webFaults + 1
    /\ work' = [work EXCEPT ![h] =
           IF @.op = "revoke" THEN [@ EXCEPT !.pc = "cache"] ELSE NoRequest]
    /\ UNCHANGED <<sessionDb, process, jar, ended, asked, clock, signings>>

\* A statement fails: 503, or a refused check; nothing was changed.
StatementFails(h) ==
    /\ work[h].pc = "run"
    /\ webFaults < MaxWebFaults
    /\ webFaults' = webFaults + 1
    /\ work' = [work EXCEPT ![h] = NoRequest]
    /\ UNCHANGED <<sessionDb, process, jar, ended, asked, clock, signings>>

\* The answer: a sign-in sets its cookie, a revocation is reported done.
Answer(h) ==
    /\ \/ /\ work[h].pc = "reply"
          /\ jar' = IF work[h].op = "create" THEN jar \cup work[h].tokens ELSE jar
          /\ ended' = IF work[h].op = "create" THEN ended ELSE ended \cup work[h].tokens
       \/ work[h].pc = "accepted" /\ UNCHANGED <<jar, ended>>
    /\ work' = [work EXCEPT ![h] = NoRequest]
    /\ UNCHANGED <<sessionDb, process, asked, clock, signings, webFaults>>

TickClock ==
    /\ clock < MaxClock
    /\ clock' = clock + 1
    /\ UNCHANGED <<sessionDb, process, work, jar, ended, asked, signings, webFaults>>

WebNext ==
    \/ StartDashboard
    \/ StopDashboard
    \/ TickClock
    \/ \E h \in WebThreads :
        \/ \E t \in Tokens : SignIn(h, t) \/ SignOut(h, t) \/ Check(h, t)
        \/ RevokeAll(h)
        \/ UseStore(h)
        \/ Detect(h)
        \/ ChangeSchema(h)
        \/ CommitSchema(h)
        \/ Opened(h)
        \/ OpenFails(h)
        \/ Create(h)
        \/ RevokeOne(h)
        \/ Remember(h)
        \/ RevokeEvery(h)
        \/ Verify(h)
        \/ StatementFails(h)
        \/ Answer(h)

WebSpec == WebInit /\ [][WebNext]_webVars
----------------------------------------------------------------------------
\* Types of the variables.
SessionsTypeOK ==
    /\ sessionDb.version \in 0..3
    /\ DOMAIN sessionDb.rows \subseteq Tokens
    /\ \A t \in DOMAIN sessionDb.rows :
           sessionDb.rows[t] \in [issued : 0..MaxClock, revoked : BOOLEAN]
    /\ process.opener \in WebThreads \cup {NoThread}
    /\ process.stage \in {"closed", "detect", "change", "commit", "ready"}
    /\ process.revoked \subseteq Tokens
    /\ work \in [WebThreads ->
           [pc : {"idle", "open", "opening", "run", "cache", "reply", "accepted"},
            op : {"none", "create", "revoke", "revoke_all", "check"},
            tokens : SUBSET Tokens, over : BOOLEAN]]
    /\ jar \subseteq Tokens
    /\ ended \subseteq Tokens
    /\ asked \subseteq Tokens
    /\ clock \in 0..MaxClock

\* A session whose end was acknowledged, and one that had run out, is never
\* accepted by a request that arrives later: not by another thread, not after
\* a crash and a restart, not after a migration (sessions.py:470-497,
\* auth.py:443-458, 618-639: fail closed).
EndedStaysEnded ==
    \A h \in WebThreads : work[h].pc = "accepted" => ~work[h].over

\* A browser that was given a cookie keeps its session: whatever fails or is
\* killed, and through every migration, the row is there, unrevoked, until
\* somebody asks for its end (sessions.py:3-8, 222-261; auth.py:582-615).  It follows
\* from RegistrySpec, which is what TLC checks.
SessionsSurvive ==
    \A t \in jar \ asked :
        t \in DOMAIN sessionDb.rows /\ ~sessionDb.rows[t].revoked

----------------------------------------------------------------------------
\* SessionRegistry as these variables show it: a row that is not revoked is a
\* live session, and a request is done when its statement has been executed.
LiveSessions ==
    [t \in {s \in DOMAIN sessionDb.rows : ~sessionDb.rows[s].revoked} |->
        sessionDb.rows[t].issued]
ClosedSessions == {t \in DOMAIN sessionDb.rows : sessionDb.rows[t].revoked}

Progress(pc) ==
    CASE pc = "idle" -> "none"
      [] pc \in {"open", "opening", "run"} -> "pending"
      [] pc \in {"cache", "reply", "accepted"} -> "done"
RequestOf(h) ==
    [state |-> Progress(work[h].pc), op |-> work[h].op, tokens |-> work[h].tokens]
Requests == [h \in WebThreads |-> RequestOf(h)]

Registry == INSTANCE SessionRegistry WITH
    Clients <- WebThreads, live <- LiveSessions, closed <- ClosedSessions,
    request <- Requests

\* The store, its migrations, its threads, its cache, its failures and its kills
\* look from outside like one registry on which every request takes effect at
\* once and at most once: a request that was answered has taken effect, and none
\* ever takes effect twice, in part, or on sessions that were closed before
\* (sessions.py:201-270, 365-434, 470-497; auth.py:382-466).
RegistrySpec == Registry!Spec

=============================================================================
