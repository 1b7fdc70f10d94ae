--------------------------- MODULE SessionsProofs ---------------------------
(***************************************************************************)
(* Proofs about Sessions, for any sets of tokens and worker threads, any   *)
(* lifetime of a session and any number of sign-ins and faults.            *)
(***************************************************************************)
EXTENDS Sessions, TLAPS

-----------------------------------------------------------------------------
(* The inductive invariant.                                                *)

SessionRow == [issued : 0..MaxClock, revoked : BOOLEAN]
SessionRows == UNION {[S -> SessionRow] : S \in SUBSET Tokens}

ProcessType ==
    [running : BOOLEAN, open : BOOLEAN, opener : WebThreads \cup {NoThread},
     stage : {"closed", "detect", "change", "commit", "ready"},
     pending : [version : {3}, rows : SessionRows], revoked : SUBSET Tokens]

WorkType ==
    [pc : {"idle", "open", "opening", "run", "cache", "reply", "accepted"},
     op : {"none", "create", "revoke", "revoke_all", "check"},
     tokens : SUBSET Tokens, over : BOOLEAN]

\* The types of the variables, fields included.
Types ==
    /\ sessionDb \in [version : 0..3, rows : SessionRows]
    /\ process \in ProcessType
    /\ work \in [WebThreads -> WorkType]
    /\ jar \subseteq Tokens /\ ended \subseteq Tokens /\ asked \subseteq Tokens
    /\ clock \in 0..MaxClock

\* One thread opens the store, nothing uses it before it is open, and while the
\* schema is changed no row changes: the rows read before the transaction are
\* those it commits.
StoreOpensOnce ==
    /\ ~process.running => process = Stopped
    /\ process.open => process.opener = NoThread /\ process.stage = "closed"
    /\ \A h \in WebThreads :
           /\ work[h].pc = "opening" <=> process.opener = h
           /\ work[h].pc \in {"run", "cache", "reply", "accepted"} => process.open
           /\ ~process.running => work[h] = NoRequest
    /\ process.stage \in {"change", "commit"} => process.pending.rows = sessionDb.rows

RevokedRows == {t \in DOMAIN sessionDb.rows : sessionDb.rows[t].revoked}

\* What the rows say of the cookies sent and of the revocations asked for and
\* answered.
RowsTruthful ==
    /\ jar \subseteq DOMAIN sessionDb.rows
    /\ ended \subseteq RevokedRows
    /\ RevokedRows \subseteq asked

\* What the request of a thread knows of the rows.
Request(h) ==
    LET w == work[h] IN
    /\ w.pc = "idle" => w = NoRequest
    /\ w.op = "none" => w.pc = "idle"
    /\ w.op = "create" =>
           /\ w.pc \in {"open", "opening", "run", "reply"}
           /\ w.pc = "reply" => w.tokens \subseteq DOMAIN sessionDb.rows
           /\ w.pc # "reply" => w.tokens \cap DOMAIN sessionDb.rows = {}
    /\ w.op = "revoke" =>
           /\ w.pc \in {"open", "opening", "run", "cache", "reply"}
           /\ w.tokens \subseteq jar \cap asked
           /\ w.pc \in {"cache", "reply"} => w.tokens \subseteq RevokedRows
    /\ w.op = "revoke_all" =>
           /\ w.pc \in {"open", "opening", "run", "reply"}
           /\ w.pc = "reply" => w.tokens \subseteq RevokedRows
    /\ w.op = "check" =>
           /\ w.pc \in {"open", "opening", "run", "accepted"}
           /\ w.over => \E t \in w.tokens : Over(t)
           /\ w.pc = "accepted" => ~w.over

\* A sign-in that has not written its row yet.
Creating(h) == work[h].op = "create" /\ work[h].pc # "reply"

\* Two sign-ins never write the same row.
TokensFresh ==
    \A h, k \in WebThreads :
        h # k /\ Creating(h) /\ Creating(k) => work[h].tokens \cap work[k].tokens = {}

SessionsInv ==
    /\ Types
    /\ StoreOpensOnce
    /\ RowsTruthful
    /\ \A h \in WebThreads : Request(h)
    /\ TokensFresh

-----------------------------------------------------------------------------
(* Rows.                                                                   *)

\* A table of rows: its keys are tokens, and each row is a row.
LEMMA RowsAreRows ==
  ASSUME NEW rows
  PROVE  rows \in SessionRows <=>
             /\ rows = [t \in DOMAIN rows |-> rows[t]]
             /\ DOMAIN rows \subseteq Tokens
             /\ \A t \in DOMAIN rows : rows[t] \in SessionRow
BY DEF SessionRows

\* What a thread and the process are before they have done anything.
LEMMA StoppedTyped == Stopped \in ProcessType /\ NoRequest \in WorkType
<1>1. <<>> \in SessionRows
  <2>1. <<>> = [t \in {} |-> [issued |-> 0, revoked |-> FALSE]]
    OBVIOUS
  <2> QED
    BY <2>1, RowsAreRows
<1> QED
  BY <1>1 DEF Stopped, ProcessType, NoRequest, WorkType, NoThread

\* SessionStore.revoke changes a mark, never the set of rows or their age.
LEMMA RevokeRows ==
  ASSUME NEW rows \in SessionRows, NEW gone
  PROVE  /\ Revoke(rows, gone) \in SessionRows
         /\ DOMAIN Revoke(rows, gone) = DOMAIN rows
         /\ \A t \in DOMAIN rows :
                /\ Revoke(rows, gone)[t].issued = rows[t].issued
                /\ Revoke(rows, gone)[t].revoked <=> rows[t].revoked \/ t \in gone
<1>1. DOMAIN rows \subseteq Tokens /\ \A t \in DOMAIN rows : rows[t] \in SessionRow
  BY RowsAreRows
<1>2. ASSUME NEW t \in DOMAIN rows
      PROVE  /\ Revoke(rows, gone)[t] = [rows[t] EXCEPT !.revoked = @ \/ t \in gone]
             /\ Revoke(rows, gone)[t] \in SessionRow
             /\ Revoke(rows, gone)[t].issued = rows[t].issued
             /\ Revoke(rows, gone)[t].revoked = (rows[t].revoked \/ t \in gone)
  BY <1>1 DEF Revoke, SessionRow
<1>3. Revoke(rows, gone) = [t \in DOMAIN rows |-> Revoke(rows, gone)[t]]
  BY DEF Revoke
<1> QED
  BY <1>1, <1>2, <1>3, RowsAreRows

\* A sign-in adds rows that were not there, and leaves the others alone.
LEMMA InsertRows ==
  ASSUME NEW rows \in SessionRows, NEW new \in SUBSET Tokens, NEW at \in 0..MaxClock,
         new \cap DOMAIN rows = {}
  PROVE  /\ Insert(rows, new, at) \in SessionRows
         /\ DOMAIN Insert(rows, new, at) = new \cup DOMAIN rows
         /\ \A t \in DOMAIN rows : Insert(rows, new, at)[t] = rows[t]
         /\ \A t \in new : ~Insert(rows, new, at)[t].revoked
<1>1. DOMAIN rows \subseteq Tokens /\ \A t \in DOMAIN rows : rows[t] \in SessionRow
  BY RowsAreRows
<1>2. Row(at) \in SessionRow /\ Row(at).revoked = FALSE
  BY DEF Row, SessionRow
<1>3. \A t \in new : Insert(rows, new, at)[t] = Row(at)
  BY DEF Insert
<1>4. \A t \in DOMAIN rows : Insert(rows, new, at)[t] = rows[t]
  BY DEF Insert
<1>5. /\ DOMAIN Insert(rows, new, at) = new \cup DOMAIN rows
      /\ Insert(rows, new, at) = [t \in DOMAIN Insert(rows, new, at) |-> Insert(rows, new, at)[t]]
  BY DEF Insert
<1>6. Insert(rows, new, at) \in SessionRows
  BY <1>1, <1>2, <1>3, <1>4, <1>5, RowsAreRows
<1> QED
  BY <1>2, <1>3, <1>4, <1>5, <1>6

-----------------------------------------------------------------------------
(* What every step keeps.                                                  *)

\* Rows are added and marked, never dropped, renewed or unmarked.
RowsGrow ==
    /\ DOMAIN sessionDb.rows \subseteq DOMAIN sessionDb'.rows
    /\ \A t \in DOMAIN sessionDb.rows :
           /\ sessionDb'.rows[t].issued = sessionDb.rows[t].issued
           /\ sessionDb.rows[t].revoked => sessionDb'.rows[t].revoked

Kept ==
    /\ RowsGrow
    /\ jar \subseteq jar' /\ ended \subseteq ended' /\ asked \subseteq asked'
    /\ clock <= clock'

\* What was over stays over, and a revoked row stays revoked.
LEMMA OverStays ==
  ASSUME Types, Types', Kept
  PROVE  /\ RevokedRows \subseteq RevokedRows'
         /\ \A t : Over(t) => Over(t)'
<1>1. \A t \in DOMAIN sessionDb.rows : sessionDb.rows[t].issued \in Nat
  BY RowsAreRows, SessionsAssumption DEF Types, SessionRow
<1>2. clock \in Nat /\ clock' \in Nat /\ MaxAge \in Nat
  BY SessionsAssumption DEF Types
<1>3. RevokedRows \subseteq RevokedRows'
  BY DEF Kept, RowsGrow, RevokedRows
<1>4. ASSUME NEW t, Over(t) PROVE Over(t)'
  <2>1. CASE t \in ended
    BY <2>1 DEF Over, Kept
  <2>2. CASE t \in DOMAIN sessionDb.rows /\ Expired(sessionDb.rows[t])
    <3>1. t \in DOMAIN sessionDb'.rows /\ sessionDb'.rows[t].issued = sessionDb.rows[t].issued
      BY <2>2 DEF Kept, RowsGrow
    <3>2. clock' >= sessionDb'.rows[t].issued + MaxAge
      BY <1>1, <1>2, <2>2, <3>1 DEF Kept, Expired
    <3> QED
      BY <3>1, <3>2 DEF Over, Expired
  <2> QED
    BY <1>4, <2>1, <2>2 DEF Over
<1> QED
  BY <1>3, <1>4

\* A thread that does not move keeps what its request knows, unless another one
\* writes the rows it is about to write.
LEMMA RequestStays ==
  ASSUME Types, Types', Kept, NEW h \in WebThreads, Request(h), work'[h] = work[h],
         Creating(h) => work[h].tokens \cap DOMAIN sessionDb'.rows = {}
  PROVE  Request(h)'
<1>1. RevokedRows \subseteq RevokedRows' /\ \A t : Over(t) => Over(t)'
  BY OverStays
<1> QED
  BY <1>1, Zenon DEF Request, Kept, RowsGrow, Creating

\* A step of one thread: what the others know stays true, if the rows written are
\* its own and a new request of its own has tokens of its own.
LEMMA OneThreadMoves ==
  ASSUME SessionsInv, Types', Kept, NEW h \in WebThreads, Request(h)',
         \A k \in WebThreads \ {h} : work'[k] = work[k],
         \/ DOMAIN sessionDb'.rows = DOMAIN sessionDb.rows
         \/ Creating(h) /\ DOMAIN sessionDb'.rows = work[h].tokens \cup DOMAIN sessionDb.rows,
         Creating(h)' =>
             \/ Creating(h) /\ work'[h].tokens = work[h].tokens
             \/ \A k \in WebThreads \ {h} : work'[h].tokens \cap work[k].tokens = {}
  PROVE  /\ \A k \in WebThreads : Request(k)'
         /\ TokensFresh'
<1>1. ASSUME NEW k \in WebThreads, k # h PROVE Request(k)'
  <2>1. Request(k) /\ work'[k] = work[k]
    BY <1>1 DEF SessionsInv
  <2>2. Creating(k) => work[k].tokens \cap DOMAIN sessionDb.rows = {}
    BY <2>1 DEF Creating, Request
  <2>3. Creating(k) /\ Creating(h) => work[h].tokens \cap work[k].tokens = {}
    BY <1>1 DEF SessionsInv, TokensFresh
  <2>4. Creating(k) => work[k].tokens \cap DOMAIN sessionDb'.rows = {}
    BY <2>2, <2>3
  <2> QED
    BY <2>1, <2>4, RequestStays DEF SessionsInv
<1>2. ASSUME NEW j \in WebThreads, NEW k \in WebThreads, j # k, Creating(j)', Creating(k)'
      PROVE  work'[j].tokens \cap work'[k].tokens = {}
  <2>1. CASE j # h /\ k # h
    <3>1. work'[j] = work[j] /\ work'[k] = work[k]
      BY <2>1
    <3> QED
      BY <1>2, <3>1 DEF SessionsInv, TokensFresh, Creating
  <2>2. CASE j = h
    <3>1. work'[k] = work[k] /\ Creating(k)
      BY <1>2, <2>2 DEF Creating
    <3> QED
      BY <1>2, <2>2, <3>1 DEF SessionsInv, TokensFresh
  <2>3. CASE k = h
    <3>1. work'[j] = work[j] /\ Creating(j)
      BY <1>2, <2>3 DEF Creating
    <3> QED
      BY <1>2, <2>3, <3>1 DEF SessionsInv, TokensFresh
  <2> QED
    BY <2>1, <2>2, <2>3
<1>3. TokensFresh'
  BY <1>2 DEF TokensFresh
<1> QED
  BY <1>1, <1>3

\* A step that touches no row, no cookie, no answer and no clock.
LEMMA NothingSaid ==
  ASSUME SessionsInv, sessionDb'.rows = sessionDb.rows,
         UNCHANGED <<jar, ended, clock>>, asked \subseteq asked'
  PROVE  Kept /\ RowsTruthful' /\ (clock \in 0..MaxClock)'
<1>1. Kept
  BY DEF Kept, RowsGrow, SessionsInv, Types
<1>2. RowsTruthful'
  BY DEF SessionsInv, RowsTruthful, RevokedRows
<1> QED
  BY <1>1, <1>2 DEF SessionsInv, Types

-----------------------------------------------------------------------------
(* The initial states.                                                     *)

\* Initially the database is of any version, and its rows are those of old tokens.
LEMMA SessionsInitial == WebInit => SessionsInv
<1> SUFFICES ASSUME WebInit PROVE SessionsInv
  OBVIOUS
<1> USE SessionsAssumption
<1>1. PICK v \in 0..3 :
          sessionDb \in [version : {v}, rows : IF v = 0 THEN {<<>>} ELSE
               UNION {[S -> [issued : {0}, revoked : BOOLEAN]] : S \in SUBSET OldTokens}]
  BY DEF WebInit
<1>2. sessionDb.rows \in SessionRows
  <2>1. CASE v = 0
    <3>1. sessionDb.rows = <<>>
      BY <1>1, <2>1
    <3>2. sessionDb.rows = [t \in {} |-> [issued |-> 0, revoked |-> FALSE]]
      BY <3>1
    <3> QED
      BY <3>2, RowsAreRows
  <2>2. CASE v # 0
    <3>1. PICK S \in SUBSET OldTokens :
              sessionDb.rows \in [S -> [issued : {0}, revoked : BOOLEAN]]
      BY <1>1, <2>2
    <3>2. DOMAIN sessionDb.rows = S /\ S \subseteq Tokens
      BY <3>1
    <3>3. \A t \in S : sessionDb.rows[t] \in SessionRow
      BY <3>1 DEF SessionRow
    <3>4. sessionDb.rows = [t \in DOMAIN sessionDb.rows |-> sessionDb.rows[t]]
      BY <3>1
    <3> QED
      BY <3>2, <3>3, <3>4, RowsAreRows
  <2> QED
    BY <2>1, <2>2
<1>3. sessionDb \in [version : 0..3, rows : SessionRows]
  BY <1>1, <1>2
<1>4. DOMAIN sessionDb.rows \subseteq Tokens
  BY <1>2, RowsAreRows
<1>5. process \in ProcessType /\ work \in [WebThreads -> WorkType]
  BY StoppedTyped DEF WebInit
<1>6. Types
  BY <1>3, <1>4, <1>5 DEF Types, WebInit
<1>7. StoreOpensOnce
  BY DEF StoreOpensOnce, WebInit, NoRequest, Stopped, NoThread
<1>8. RowsTruthful
  BY DEF RowsTruthful, RevokedRows, WebInit
<1>9. (\A h \in WebThreads : Request(h)) /\ TokensFresh
  BY DEF Request, TokensFresh, Creating, WebInit, NoRequest
<1> QED
  BY <1>6, <1>7, <1>8, <1>9 DEF SessionsInv

-----------------------------------------------------------------------------
(* The process and the clock.                                              *)

\* A process that starts, or ends, keeps no request.
LEMMA ProcessKeepsInv ==
  ASSUME SessionsInv, StartDashboard \/ StopDashboard
  PROVE  SessionsInv'
<1>1. UNCHANGED <<sessionDb, jar, ended, asked, clock>>
  BY DEF StartDashboard, StopDashboard
<1>2. work' = [h \in WebThreads |-> NoRequest]
  <2>1. CASE StartDashboard
    BY <2>1 DEF StartDashboard, SessionsInv, StoreOpensOnce, Types
  <2>2. CASE StopDashboard
    BY <2>2 DEF StopDashboard
  <2> QED
    BY <2>1, <2>2
<1>3. process' = Stopped \/ process' = [Stopped EXCEPT !.running = TRUE]
  BY DEF StartDashboard, StopDashboard
<1>4. process' \in ProcessType
  BY <1>3, StoppedTyped DEF ProcessType
<1>5. Types'
  BY <1>1, <1>2, <1>4, StoppedTyped DEF Types, SessionsInv
<1>6. StoreOpensOnce'
  <2>1. /\ process'.opener = NoThread /\ process'.open = FALSE /\ process'.stage = "closed"
        /\ ~process'.running => process' = Stopped
    BY <1>3 DEF Stopped
  <2>2. \A h \in WebThreads : work'[h] = NoRequest /\ h # NoThread
    BY <1>2, SessionsAssumption DEF NoThread
  <2> QED
    BY <2>1, <2>2 DEF StoreOpensOnce, NoRequest
<1>7. RowsTruthful'
  BY <1>1 DEF SessionsInv, RowsTruthful, RevokedRows
<1>8. (\A h \in WebThreads : Request(h)') /\ TokensFresh'
  BY <1>2 DEF Request, TokensFresh, Creating, NoRequest
<1> QED
  BY <1>5, <1>6, <1>7, <1>8 DEF SessionsInv

\* A session may run out while a request about it is under way.
LEMMA TickKeepsInv ==
  ASSUME SessionsInv, TickClock
  PROVE  SessionsInv'
<1>1. UNCHANGED <<sessionDb, process, work, jar, ended, asked>> /\ clock' = clock + 1
      /\ clock < MaxClock
  BY DEF TickClock
<1>2. clock' \in 0..MaxClock /\ clock <= clock'
  BY <1>1, SessionsAssumption DEF SessionsInv, Types
<1>3. Types'
  BY <1>1, <1>2 DEF SessionsInv, Types
<1>4. Kept
  BY <1>1, <1>2 DEF Kept, RowsGrow
<1>5. StoreOpensOnce' /\ RowsTruthful' /\ TokensFresh'
  BY <1>1 DEF SessionsInv, StoreOpensOnce, RowsTruthful, RevokedRows, TokensFresh, Creating
<1>6. ASSUME NEW h \in WebThreads PROVE Request(h)'
  <2>1. Request(h) /\ work'[h] = work[h] /\ Types
    BY <1>1 DEF SessionsInv
  <2>2. Creating(h) => work[h].tokens \cap DOMAIN sessionDb'.rows = {}
    BY <1>1, <2>1 DEF Creating, Request
  <2> QED
    BY <1>3, <1>4, <2>1, <2>2, RequestStays
<1> QED
  BY <1>3, <1>5, <1>6 DEF SessionsInv

-----------------------------------------------------------------------------
(* Requests that arrive.                                                   *)

\* A request arrives: what it is about has not been asked for by another one.
LEMMA ReceiveKeepsInv ==
  ASSUME SessionsInv, NEW h \in WebThreads, NEW op \in {"create", "revoke", "revoke_all", "check"},
         NEW tokens \in SUBSET Tokens, Receive(h, op, tokens),
         asked \subseteq asked', asked' \subseteq Tokens,
         op = "create" => /\ tokens \cap DOMAIN sessionDb.rows = {}
                          /\ \A k \in WebThreads : tokens \cap work[k].tokens = {},
         op = "revoke" => tokens \subseteq jar \cap asked'
  PROVE  SessionsInv'
<1>1. /\ UNCHANGED <<sessionDb, process, jar, ended, clock>>
      /\ process.running /\ work[h].pc = "idle"
      /\ work' = [work EXCEPT ![h] = [pc |-> "open", op |-> op, tokens |-> tokens,
                                      over |-> \E t \in tokens : Over(t)]]
  BY DEF Receive
<1> DEFINE truth == \E t \in tokens : Over(t)
<1>2. truth \in BOOLEAN
  OBVIOUS
<1> HIDE DEF truth
<1>3. /\ work'[h] = [pc |-> "open", op |-> op, tokens |-> tokens, over |-> truth]
      /\ \A k \in WebThreads \ {h} : work'[k] = work[k]
      /\ work' \in [WebThreads -> WorkType]
  <2>1. [pc |-> "open", op |-> op, tokens |-> tokens, over |-> truth] \in WorkType
    BY <1>2 DEF WorkType
  <2> QED
    BY <1>1, <2>1 DEF SessionsInv, Types, truth
<1>4. Types'
  BY <1>1, <1>3 DEF SessionsInv, Types
<1>5. Kept /\ RowsTruthful'
  BY <1>1, NothingSaid
<1>6. StoreOpensOnce'
  <2>1. work[h].pc # "opening" /\ work'[h].pc = "open"
    BY <1>1, <1>3
  <2> QED
    BY <1>1, <1>3, <2>1 DEF SessionsInv, StoreOpensOnce
<1>7. Request(h)'
  <2>1. \A t \in tokens : Over(t) => Over(t)'
    BY <1>1 DEF Over, Expired
  <2>2. truth => \E t \in tokens : Over(t)'
    BY <2>1 DEF truth
  <2> QED
    BY <1>1, <1>3, <2>2, Zenon DEF Request
<1>8. Creating(h)' => \A k \in WebThreads \ {h} : work'[h].tokens \cap work[k].tokens = {}
  BY <1>3 DEF Creating
<1>9. (\A k \in WebThreads : Request(k)') /\ TokensFresh'
  BY <1>1, <1>3, <1>4, <1>5, <1>7, <1>8, OneThreadMoves
<1> QED
  BY <1>4, <1>5, <1>6, <1>9 DEF SessionsInv

\* Sign-in, sign-out, revocation of all and the check of a cookie.
LEMMA ArrivalsKeepInv ==
  ASSUME SessionsInv, NEW h \in WebThreads,
         \/ \E t \in Tokens : SignIn(h, t) \/ SignOut(h, t) \/ Check(h, t)
         \/ RevokeAll(h)
  PROVE  SessionsInv'
<1> USE DEF SessionsInv, Types
<1>1. ASSUME NEW t \in Tokens, SignIn(h, t) PROVE SessionsInv'
  <2>1. /\ Receive(h, "create", {t}) /\ asked' = asked
        /\ {t} \cap DOMAIN sessionDb.rows = {}
        /\ \A k \in WebThreads : {t} \cap work[k].tokens = {}
    BY <1>1 DEF SignIn
  <2> QED
    BY <2>1, ReceiveKeepsInv
<1>2. ASSUME NEW t \in Tokens, SignOut(h, t) PROVE SessionsInv'
  <2>1. Receive(h, "revoke", {t}) /\ asked' = asked \cup {t} /\ t \in jar
    BY <1>2 DEF SignOut
  <2> QED
    BY <2>1, ReceiveKeepsInv
<1>3. ASSUME NEW t \in Tokens, Check(h, t) PROVE SessionsInv'
  <2>1. Receive(h, "check", {t}) /\ asked' = asked
    BY <1>3 DEF Check
  <2> QED
    BY <2>1, ReceiveKeepsInv
<1>4. ASSUME RevokeAll(h) PROVE SessionsInv'
  <2>1. Receive(h, "revoke_all", {}) /\ asked' = asked
    BY <1>4 DEF RevokeAll
  <2> QED
    BY <2>1, ReceiveKeepsInv
<1> QED
  BY <1>1, <1>2, <1>3, <1>4

-----------------------------------------------------------------------------
(* Opening the store.                                                      *)

\* While the store is opened no row changes: the thread that opens it only
\* moves on, and the schema it commits holds the rows it read.
LEMMA OpeningKeepsInv ==
  ASSUME SessionsInv, NEW h \in WebThreads,
         UNCHANGED <<jar, ended, asked, clock>>,
         sessionDb'.rows = sessionDb.rows, Types', StoreOpensOnce',
         \A k \in WebThreads \ {h} : work'[k] = work[k],
         \/ work'[h] = NoRequest
         \/ /\ work[h].pc \in {"open", "opening"} /\ work'[h].pc \in {"opening", "run"}
            /\ work'[h] = [work[h] EXCEPT !.pc = work'[h].pc]
  PROVE  SessionsInv'
<1>1. Kept /\ RowsTruthful'
  BY NothingSaid
<1>2. Request(h)'
  <2>1. CASE work'[h] = NoRequest
    BY <2>1 DEF Request, NoRequest
  <2>2. CASE /\ work[h].pc \in {"open", "opening"} /\ work'[h].pc \in {"opening", "run"}
             /\ work'[h] = [work[h] EXCEPT !.pc = work'[h].pc]
    <3>1. /\ work'[h].op = work[h].op /\ work'[h].tokens = work[h].tokens
          /\ work'[h].over = work[h].over
      BY <2>2 DEF SessionsInv, Types, WorkType
    <3>2. \A t : Over(t) => Over(t)'
      BY DEF Over, Expired
    <3> QED
      BY <2>2, <3>1, <3>2, Zenon DEF Request, SessionsInv
  <2> QED
    BY <2>1, <2>2
<1>3. Creating(h)' => Creating(h) /\ work'[h].tokens = work[h].tokens
  BY DEF Creating, NoRequest, SessionsInv, Types, WorkType
<1>4. (\A k \in WebThreads : Request(k)') /\ TokensFresh'
  BY <1>1, <1>2, <1>3, OneThreadMoves
<1> QED
  BY <1>1, <1>4 DEF SessionsInv

\* What a thread's move leaves of the others, and of the types.
LEMMA PcMoves ==
  ASSUME Types, NEW h \in WebThreads,
         NEW p \in {"idle", "open", "opening", "run", "cache", "reply", "accepted"},
         work' = [work EXCEPT ![h].pc = p] 
  PROVE  /\ work' \in [WebThreads -> WorkType]
         /\ work'[h] = [work[h] EXCEPT !.pc = p] /\ work'[h].pc = p
         /\ work'[h].op = work[h].op /\ work'[h].tokens = work[h].tokens
         /\ work'[h].over = work[h].over
         /\ \A k \in WebThreads \ {h} : work'[k] = work[k]
BY DEF Types, WorkType

\* The thread of a request that ends, and every other thread.
LEMMA RequestEnds ==
  ASSUME Types, NEW h \in WebThreads, work' = [work EXCEPT ![h] = NoRequest]
  PROVE  /\ work' \in [WebThreads -> WorkType]
         /\ work'[h] = NoRequest /\ work'[h].pc = "idle" /\ work'[h].op = "none"
         /\ \A k \in WebThreads \ {h} : work'[k] = work[k]
BY StoppedTyped DEF Types, NoRequest

\* get_session_store: one thread opens the store, the others wait.
LEMMA UseStoreKeepsInv ==
  ASSUME SessionsInv, NEW h \in WebThreads, UseStore(h)
  PROVE  SessionsInv'
<1>1. /\ UNCHANGED <<sessionDb, jar, ended, asked, clock>>
      /\ work[h].pc = "open" /\ h # NoThread /\ Types
  BY SessionsAssumption DEF UseStore, NoThread, SessionsInv
<1>2. CASE process.open /\ Proceed(h) /\ UNCHANGED process
  <2>1. work' = [work EXCEPT ![h].pc = "run"]
    BY <1>2 DEF Proceed
  <2>2. /\ work' \in [WebThreads -> WorkType]
        /\ work'[h] = [work[h] EXCEPT !.pc = "run"] /\ work'[h].pc = "run"
        /\ \A k \in WebThreads \ {h} : work'[k] = work[k]
    BY <1>1, <2>1, PcMoves
  <2>3. Types'
    BY <1>1, <1>2, <2>2 DEF Types
  <2>4. StoreOpensOnce'
    <3>1. StoreOpensOnce /\ process' = process /\ process.open
      BY <1>2 DEF SessionsInv
    <3>2. process.running /\ process.opener # h
      BY <1>1, <3>1 DEF StoreOpensOnce, Stopped
    <3>3. \A k \in WebThreads :
              /\ k # h => work'[k] = work[k]
              /\ k = h => work'[k].pc = "run"
      BY <2>2
    <3> QED
      BY <1>1, <3>1, <3>2, <3>3 DEF StoreOpensOnce
  <2> QED
    BY <1>1, <2>2, <2>3, <2>4, OpeningKeepsInv
<1>3. CASE /\ ~process.open /\ process.opener = NoThread
           /\ process' = [process EXCEPT !.opener = h, !.stage = "detect"]
           /\ work' = [work EXCEPT ![h].pc = "opening"]
  <2>1. /\ work' \in [WebThreads -> WorkType]
        /\ work'[h] = [work[h] EXCEPT !.pc = "opening"] /\ work'[h].pc = "opening"
        /\ \A k \in WebThreads \ {h} : work'[k] = work[k]
    BY <1>1, <1>3, PcMoves
  <2>2. /\ process' \in ProcessType /\ process'.opener = h /\ process'.stage = "detect"
        /\ process'.open = process.open /\ process'.running = process.running
    BY <1>1, <1>3 DEF Types, ProcessType
  <2>3. Types'
    BY <1>1, <2>1, <2>2 DEF Types
  <2>4. StoreOpensOnce'
    <3>1. process.running
      BY <1>1 DEF SessionsInv, StoreOpensOnce, NoRequest
    <3>2. \A k \in WebThreads : work[k].pc # "opening" /\ k # NoThread
      BY <1>3, SessionsAssumption DEF SessionsInv, StoreOpensOnce, NoThread
    <3> QED
      BY <1>3, <2>1, <2>2, <3>1, <3>2 DEF SessionsInv, StoreOpensOnce
  <2> QED
    BY <1>1, <2>1, <2>3, <2>4, OpeningKeepsInv
<1> QED
  BY <1>2, <1>3 DEF UseStore

\* Detect, ChangeSchema, CommitSchema: the opener alone, in its stages.
LEMMA SchemaKeepsInv ==
  ASSUME SessionsInv, NEW h \in WebThreads, Detect(h) \/ ChangeSchema(h) \/ CommitSchema(h)
  PROVE  SessionsInv'
<1>1. /\ UNCHANGED <<work, jar, ended, asked, clock>>
      /\ work[h].pc = "opening" /\ Types
  BY DEF Detect, ChangeSchema, CommitSchema, Opening, SessionsInv
<1>2. process.opener = h /\ ~process.open
  BY <1>1, SessionsAssumption DEF SessionsInv, StoreOpensOnce, NoThread
<1>3. /\ sessionDb' \in [version : 0..3, rows : SessionRows]
      /\ sessionDb'.rows = sessionDb.rows
      /\ process' \in ProcessType
      /\ UNCHANGED <<process.running, process.open, process.opener>>
      /\ process'.stage \in {"change", "commit"} => process'.pending.rows = sessionDb.rows
  <2>1. CASE Detect(h)
    <3> DEFINE read == [version |-> 3, rows |-> sessionDb.rows]
               next == IF sessionDb.version = 3 THEN "ready" ELSE "change"
    <3>1. read \in [version : {3}, rows : SessionRows] /\ next \in {"ready", "change"}
          /\ read.rows = sessionDb.rows
      BY <1>1 DEF Types
    <3>2. process' = [process EXCEPT !.stage = next, !.pending = read]
          /\ sessionDb' = sessionDb
      BY <2>1 DEF Detect
    <3> HIDE DEF read, next
    <3> QED
      BY <1>1, <3>1, <3>2 DEF Types, ProcessType
  <2>2. CASE ChangeSchema(h)
    BY <1>1, <2>2 DEF ChangeSchema, Types, ProcessType, SessionsInv, StoreOpensOnce
  <2>3. CASE CommitSchema(h)
    BY <1>1, <2>3 DEF CommitSchema, Types, ProcessType, SessionsInv, StoreOpensOnce
  <2> QED
    BY <2>1, <2>2, <2>3
<1>4. Types'
  BY <1>1, <1>3 DEF Types
<1>5. StoreOpensOnce'
  <2>1. process.running
    BY <1>1 DEF SessionsInv, StoreOpensOnce, NoRequest
  <2> QED
    BY <1>1, <1>2, <1>3, <2>1 DEF SessionsInv, StoreOpensOnce
<1>6. Kept /\ RowsTruthful'
  BY <1>1, <1>3, NothingSaid
<1>7. (\A k \in WebThreads : Request(k)') /\ TokensFresh'
  <2>1. Request(h) /\ (Creating(h) => work[h].tokens \cap DOMAIN sessionDb'.rows = {})
    BY <1>3 DEF SessionsInv, Request, Creating
  <2>2. Request(h)'
    BY <1>1, <1>4, <1>6, <2>1, RequestStays
  <2>3. Creating(h)' => Creating(h) /\ work'[h].tokens = work[h].tokens
    BY <1>1 DEF Creating
  <2> QED
    BY <1>1, <1>3, <1>4, <1>6, <2>2, <2>3, OneThreadMoves
<1> QED
  BY <1>4, <1>5, <1>6, <1>7 DEF SessionsInv

\* The schema is current and the store is open, or opening it has failed.
LEMMA OpenedKeepsInv ==
  ASSUME SessionsInv, NEW h \in WebThreads, Opened(h) \/ OpenFails(h)
  PROVE  SessionsInv'
<1>1. /\ UNCHANGED <<sessionDb, jar, ended, asked, clock>>
      /\ work[h].pc = "opening" /\ Types
  BY DEF Opened, OpenFails, Opening, SessionsInv
<1>2. process.opener = h /\ process.running
  BY <1>1 DEF SessionsInv, StoreOpensOnce, NoRequest
<1>3. /\ process' \in ProcessType
      /\ process'.opener = NoThread /\ process'.stage = "closed"
      /\ process'.running = process.running
  BY <1>1 DEF Types, ProcessType, Opened, OpenFails
<1>4. /\ work' \in [WebThreads -> WorkType]
      /\ \A k \in WebThreads \ {h} : work'[k] = work[k]
      /\ \/ /\ work'[h] = [work[h] EXCEPT !.pc = "run"] /\ work'[h].pc = "run"
            /\ process'.open
         \/ work'[h] = NoRequest /\ work'[h].pc = "idle"
            /\ process'.open = process.open
  <2>1. CASE Opened(h)
    <3>1. work' = [work EXCEPT ![h].pc = "run"]
      BY <2>1 DEF Opened, Proceed
    <3>2. process'.open
      BY <1>1, <2>1 DEF Opened, Types, ProcessType
    <3> QED
      BY <1>1, <3>1, <3>2, PcMoves
  <2>2. CASE OpenFails(h)
    <3>1. work' = [work EXCEPT ![h] = NoRequest]
      BY <2>2 DEF OpenFails
    <3>2. process'.open = process.open
      BY <1>1, <2>2 DEF OpenFails, Types, ProcessType
    <3> QED
      BY <1>1, <3>1, <3>2, RequestEnds
  <2> QED
    BY <2>1, <2>2
<1>5. Types'
  BY <1>1, <1>3, <1>4 DEF Types
<1>6. StoreOpensOnce'
  <2>1. \A k \in WebThreads : k # NoThread /\ (k # h => work[k].pc # "opening")
    BY <1>2, SessionsAssumption DEF SessionsInv, StoreOpensOnce, NoThread
  <2>2. \A k \in WebThreads :
            work'[k].pc \in {"run", "cache", "reply", "accepted"} => process'.open
    BY <1>4 DEF SessionsInv, StoreOpensOnce
  <2> QED
    BY <1>2, <1>3, <1>4, <2>1, <2>2 DEF StoreOpensOnce
<1> QED
  BY <1>1, <1>4, <1>5, <1>6, OpeningKeepsInv

-----------------------------------------------------------------------------
(* Requests that run.                                                      *)

\* A step of an open store: only a running thread moves, to a point where the
\* store is still needed or back to the pool.
LEMMA StoreStaysOpen ==
  ASSUME SessionsInv, NEW h \in WebThreads,
         work[h].pc \in {"run", "cache", "reply", "accepted"},
         UNCHANGED <<process.running, process.open, process.opener, process.stage>>,
         \A k \in WebThreads \ {h} : work'[k] = work[k],
         work'[h].pc \in {"cache", "reply", "accepted"} \/ work'[h] = NoRequest
  PROVE  StoreOpensOnce'
<1>1. /\ process.open /\ process.running /\ process.opener = NoThread
      /\ process.stage = "closed" /\ h # NoThread
  BY SessionsAssumption DEF SessionsInv, StoreOpensOnce, NoRequest, NoThread
<1>2. work'[h].pc \in {"cache", "reply", "accepted", "idle"}
  BY DEF NoRequest
<1>3. \A k \in WebThreads :
          /\ k # h => work'[k] = work[k]
          /\ k = h => work'[k].pc \in {"cache", "reply", "accepted", "idle"}
  BY <1>2
<1> QED
  BY <1>1, <1>3 DEF SessionsInv, StoreOpensOnce

\* A step of a running thread keeps the invariant if it keeps what it must.
LEMMA RunKeepsInv ==
  ASSUME SessionsInv, NEW h \in WebThreads,
         work[h].pc \in {"run", "cache", "reply", "accepted"},
         UNCHANGED <<process.running, process.open, process.opener, process.stage>>,
         \A k \in WebThreads \ {h} : work'[k] = work[k],
         work'[h].pc \in {"cache", "reply", "accepted"} \/ work'[h] = NoRequest,
         Types', Kept, RowsTruthful', Request(h)', ~Creating(h)',
         \/ DOMAIN sessionDb'.rows = DOMAIN sessionDb.rows
         \/ Creating(h) /\ DOMAIN sessionDb'.rows = work[h].tokens \cup DOMAIN sessionDb.rows
  PROVE  SessionsInv'
<1>1. StoreOpensOnce'
  BY StoreStaysOpen
<1>2. (\A k \in WebThreads : Request(k)') /\ TokensFresh'
  BY OneThreadMoves
<1> QED
  BY <1>1, <1>2 DEF SessionsInv

\* The row of a sign-in is new, so no revoked row is written over.
LEMMA CreateKeepsInv ==
  ASSUME SessionsInv, NEW h \in WebThreads, Create(h)
  PROVE  SessionsInv'
<1>1. /\ UNCHANGED <<process, jar, ended, asked, clock>>
      /\ work[h].pc = "run" /\ work[h].op = "create" /\ Types
      /\ sessionDb' = [sessionDb EXCEPT !.rows = Insert(@, work[h].tokens, clock)]
      /\ work' = [work EXCEPT ![h].pc = "reply"]
  BY DEF Create, Running, Reply, SessionsInv
<1>2. /\ work' \in [WebThreads -> WorkType]
      /\ work'[h].pc = "reply" /\ work'[h].op = "create" /\ work'[h].tokens = work[h].tokens
      /\ \A k \in WebThreads \ {h} : work'[k] = work[k]
  BY <1>1, PcMoves
<1>3. /\ sessionDb.rows \in SessionRows /\ work[h].tokens \in SUBSET Tokens
      /\ clock \in 0..MaxClock
      /\ Creating(h) /\ work[h].tokens \cap DOMAIN sessionDb.rows = {}
  BY <1>1 DEF Types, WorkType, Creating, SessionsInv, Request
<1>4. sessionDb'.rows = Insert(sessionDb.rows, work[h].tokens, clock)
  BY <1>1 DEF Types
<1>5. /\ sessionDb'.rows \in SessionRows
      /\ DOMAIN sessionDb'.rows = work[h].tokens \cup DOMAIN sessionDb.rows
      /\ \A t \in DOMAIN sessionDb.rows : sessionDb'.rows[t] = sessionDb.rows[t]
      /\ \A t \in work[h].tokens : ~sessionDb'.rows[t].revoked
  <2> DEFINE rows == sessionDb.rows
             new == work[h].tokens
  <2>1. rows \in SessionRows /\ new \in SUBSET Tokens /\ new \cap DOMAIN rows = {}
    BY <1>3
  <2>2. sessionDb'.rows = Insert(rows, new, clock)
    BY <1>4
  <2> HIDE DEF rows, new
  <2>3. /\ Insert(rows, new, clock) \in SessionRows
        /\ DOMAIN Insert(rows, new, clock) = new \cup DOMAIN rows
        /\ \A t \in DOMAIN rows : Insert(rows, new, clock)[t] = rows[t]
        /\ \A t \in new : ~Insert(rows, new, clock)[t].revoked
    BY <1>3, <2>1, InsertRows
  <2> QED
    BY <2>2, <2>3 DEF rows, new
<1>6. sessionDb' \in [version : 0..3, rows : SessionRows]
  BY <1>1, <1>4, <1>5 DEF Types
<1>7. Types'
  BY <1>1, <1>2, <1>6 DEF Types
<1>8. Kept
  BY <1>1, <1>5, SessionsAssumption DEF Kept, RowsGrow, Types
<1>9. RowsTruthful'
  <2>1. RevokedRows' = RevokedRows
    BY <1>5 DEF RevokedRows
  <2> QED
    BY <1>1, <1>5, <2>1 DEF SessionsInv, RowsTruthful
<1>10. Request(h)' /\ ~Creating(h)'
  BY <1>2, <1>5 DEF Request, Creating
<1> QED
  BY <1>1, <1>2, <1>3, <1>5, <1>7, <1>8, <1>9, <1>10, RunKeepsInv

\* What SessionStore.revoke and revoke_all do to the rows.
LEMMA RevocationKept ==
  ASSUME Types, Types', RowsTruthful, NEW gone \in SUBSET Tokens,
         sessionDb'.rows = Revoke(sessionDb.rows, gone),
         UNCHANGED <<jar, ended, clock>>,
         asked \subseteq asked', gone \cap DOMAIN sessionDb.rows \subseteq asked'
  PROVE  /\ Kept /\ RowsTruthful'
         /\ DOMAIN sessionDb'.rows = DOMAIN sessionDb.rows
         /\ gone \cap DOMAIN sessionDb.rows \subseteq RevokedRows'
<1>1. /\ DOMAIN sessionDb'.rows = DOMAIN sessionDb.rows
      /\ \A t \in DOMAIN sessionDb.rows :
             /\ sessionDb'.rows[t].issued = sessionDb.rows[t].issued
             /\ sessionDb'.rows[t].revoked <=> sessionDb.rows[t].revoked \/ t \in gone
  BY RevokeRows DEF Types
<1>2. RevokedRows' = RevokedRows \cup (gone \cap DOMAIN sessionDb.rows)
  BY <1>1 DEF RevokedRows
<1>3. Kept
  BY <1>1, SessionsAssumption DEF Kept, RowsGrow, Types
<1>4. RowsTruthful'
  BY <1>1, <1>2 DEF RowsTruthful
<1> QED
  BY <1>1, <1>2, <1>3, <1>4

\* The UPDATE of SessionStore.revoke.
LEMMA RevokeOneKeepsInv ==
  ASSUME SessionsInv, NEW h \in WebThreads, RevokeOne(h)
  PROVE  SessionsInv'
<1>1. /\ UNCHANGED <<process, jar, ended, asked, clock>>
      /\ work[h].pc = "run" /\ work[h].op = "revoke" /\ Types /\ RowsTruthful
      /\ sessionDb' = [sessionDb EXCEPT !.rows = Revoke(@, work[h].tokens)]
  BY DEF RevokeOne, Running, SessionsInv
<1>2. /\ work[h].tokens \in SUBSET Tokens /\ work[h].tokens \subseteq jar \cap asked
      /\ work[h].tokens \subseteq DOMAIN sessionDb.rows
  BY <1>1 DEF SessionsInv, Types, WorkType, Request, RowsTruthful
<1>3. work' = [work EXCEPT ![h].pc = "cache"]
  BY <1>2 DEF RevokeOne
<1>4. /\ work' \in [WebThreads -> WorkType]
      /\ work'[h].pc = "cache" /\ work'[h].op = "revoke" /\ work'[h].tokens = work[h].tokens
      /\ \A k \in WebThreads \ {h} : work'[k] = work[k]
  BY <1>1, <1>3, PcMoves
<1>5. /\ sessionDb'.rows = Revoke(sessionDb.rows, work[h].tokens)
      /\ sessionDb' \in [version : 0..3, rows : SessionRows]
  BY <1>1, RevokeRows DEF Types
<1>6. Types'
  BY <1>1, <1>4, <1>5 DEF Types
<1>7. /\ Kept /\ RowsTruthful'
      /\ DOMAIN sessionDb'.rows = DOMAIN sessionDb.rows
      /\ work[h].tokens \subseteq RevokedRows'
  BY <1>1, <1>2, <1>5, <1>6, RevocationKept
<1>8. Request(h)' /\ ~Creating(h)'
  BY <1>1, <1>2, <1>4, <1>7 DEF Request, Creating
<1> QED
  BY <1>1, <1>4, <1>6, <1>7, <1>8, RunKeepsInv

\* The UPDATE of SessionStore.revoke_all, and the tokens it has met.
LEMMA RevokeEveryKeepsInv ==
  ASSUME SessionsInv, NEW h \in WebThreads, RevokeEvery(h)
  PROVE  SessionsInv'
<1>1. /\ UNCHANGED <<process, jar, ended, clock>>
      /\ work[h].pc = "run" /\ work[h].op = "revoke_all" /\ Types /\ RowsTruthful
      /\ sessionDb' = [sessionDb EXCEPT !.rows = Revoke(@, DOMAIN @)]
      /\ work' = [work EXCEPT ![h].pc = "reply", ![h].tokens = DOMAIN sessionDb.rows]
      /\ asked' = asked \cup DOMAIN sessionDb.rows
  BY DEF RevokeEvery, Running, SessionsInv
<1>2. /\ DOMAIN sessionDb.rows \in SUBSET Tokens /\ sessionDb.rows \in SessionRows
  BY <1>1, RowsAreRows DEF Types
<1>3. /\ work' \in [WebThreads -> WorkType]
      /\ work'[h].pc = "reply" /\ work'[h].op = "revoke_all"
      /\ work'[h].tokens = DOMAIN sessionDb.rows
      /\ \A k \in WebThreads \ {h} : work'[k] = work[k]
  BY <1>1, <1>2 DEF Types, WorkType
<1>4. /\ sessionDb'.rows = Revoke(sessionDb.rows, DOMAIN sessionDb.rows)
      /\ sessionDb' \in [version : 0..3, rows : SessionRows]
  BY <1>1, <1>2, RevokeRows DEF Types
<1>5. Types'
  BY <1>1, <1>2, <1>3, <1>4 DEF Types
<1>6. /\ Kept /\ RowsTruthful'
      /\ DOMAIN sessionDb'.rows = DOMAIN sessionDb.rows
      /\ DOMAIN sessionDb.rows \subseteq RevokedRows'
  BY <1>1, <1>2, <1>4, <1>5, RevocationKept
<1>7. Request(h)' /\ ~Creating(h)'
  BY <1>3, <1>6 DEF Request, Creating
<1> QED
  BY <1>1, <1>3, <1>5, <1>6, <1>7, RunKeepsInv

\* A request of a running thread that ends.
LEMMA EndKeepsInv ==
  ASSUME SessionsInv, NEW h \in WebThreads,
         work[h].pc \in {"run", "cache", "reply", "accepted"},
         UNCHANGED <<sessionDb, process, asked, clock>>,
         work' = [work EXCEPT ![h] = NoRequest],
         jar' \subseteq Tokens, ended' \subseteq Tokens, Kept, RowsTruthful'
  PROVE  SessionsInv'
<1>1. /\ work' \in [WebThreads -> WorkType]
      /\ work'[h] = NoRequest /\ work'[h].pc = "idle" /\ work'[h].op = "none"
      /\ \A k \in WebThreads \ {h} : work'[k] = work[k]
  BY RequestEnds DEF SessionsInv
<1>2. Types'
  BY <1>1 DEF SessionsInv, Types
<1>3. Request(h)' /\ ~Creating(h)'
  BY <1>1 DEF Request, Creating
<1> QED
  BY <1>1, <1>2, <1>3, RunKeepsInv

\* The process remembers in memory what it has revoked.
LEMMA RememberKeepsInv ==
  ASSUME SessionsInv, NEW h \in WebThreads, Remember(h)
  PROVE  SessionsInv'
<1>1. /\ UNCHANGED <<sessionDb, jar, ended, asked, clock>>
      /\ work[h].pc = "cache" /\ Types
      /\ work' = [work EXCEPT ![h].pc = "reply"]
      /\ process' = [process EXCEPT !.revoked = @ \cup work[h].tokens]
  BY DEF Remember, Reply, SessionsInv
<1>2. /\ process' \in ProcessType
      /\ UNCHANGED <<process.running, process.open, process.opener, process.stage>>
  BY <1>1 DEF Types, ProcessType, WorkType
<1>3. /\ work' \in [WebThreads -> WorkType]
      /\ work'[h].pc = "reply" /\ work'[h].op = work[h].op /\ work'[h].tokens = work[h].tokens
      /\ \A k \in WebThreads \ {h} : work'[k] = work[k]
  BY <1>1, PcMoves
<1>4. Types'
  BY <1>1, <1>2, <1>3 DEF Types
<1>5. Kept /\ RowsTruthful' /\ RevokedRows' = RevokedRows
  BY <1>1, NothingSaid DEF RevokedRows
<1>6. work[h].op = "revoke"
  BY <1>1 DEF SessionsInv, Request, Types, WorkType
<1>7. Request(h)' /\ ~Creating(h)'
  <2>1. work[h].tokens \subseteq jar \cap asked /\ work[h].tokens \subseteq RevokedRows
    BY <1>1, <1>6 DEF SessionsInv, Request
  <2> QED
    BY <1>1, <1>3, <1>5, <1>6, <2>1 DEF Request, Creating
<1> QED
  BY <1>1, <1>2, <1>3, <1>4, <1>5, <1>7, RunKeepsInv

\* A session that was over when the request arrived has no valid row.
LEMMA VerifyKeepsInv ==
  ASSUME SessionsInv, NEW h \in WebThreads, Verify(h)
  PROVE  SessionsInv'
<1>1. /\ UNCHANGED <<sessionDb, process, jar, ended, asked, clock>>
      /\ work[h].pc = "run" /\ work[h].op = "check" /\ Types
      /\ work' = [work EXCEPT ![h] = IF \A t \in @.tokens : Valid(t)
                                     THEN [@ EXCEPT !.pc = "accepted"] ELSE NoRequest]
  BY DEF Verify, Running, SessionsInv
<1>2. Kept /\ RowsTruthful'
  BY <1>1, NothingSaid
<1>3. CASE \A t \in work[h].tokens : Valid(t)
  <2>1. work' = [work EXCEPT ![h].pc = "accepted"]
    BY <1>1, <1>3
  <2>2. /\ work' \in [WebThreads -> WorkType]
        /\ work'[h].pc = "accepted" /\ work'[h].op = "check"
        /\ work'[h].tokens = work[h].tokens /\ work'[h].over = work[h].over
        /\ \A k \in WebThreads \ {h} : work'[k] = work[k]
    BY <1>1, <2>1, PcMoves
  <2>3. Types'
    BY <1>1, <2>2 DEF Types
  <2>4. \A t \in work[h].tokens : ~Over(t)
    BY <1>3 DEF Over, Valid, SessionsInv, RowsTruthful, RevokedRows
  <2>5. ~work[h].over
    BY <1>1, <2>4 DEF SessionsInv, Request
  <2>6. Request(h)' /\ ~Creating(h)'
    BY <2>2, <2>5 DEF Request, Creating
  <2> QED
    BY <1>1, <1>2, <2>2, <2>3, <2>6, RunKeepsInv
<1>4. CASE ~\A t \in work[h].tokens : Valid(t)
  <2>1. work' = [work EXCEPT ![h] = NoRequest]
    BY <1>1, <1>4
  <2> QED
    BY <1>1, <1>2, <2>1, EndKeepsInv DEF Types
<1> QED
  BY <1>3, <1>4

\* A failed statement changes nothing, and its request is over.
LEMMA FailureKeepsInv ==
  ASSUME SessionsInv, NEW h \in WebThreads, StatementFails(h)
  PROVE  SessionsInv'
<1>1. Kept /\ RowsTruthful'
  BY NothingSaid DEF StatementFails
<1> QED
  BY <1>1, EndKeepsInv DEF StatementFails, SessionsInv, Types

\* An answer says what the rows say already.
LEMMA AnswerKeepsInv ==
  ASSUME SessionsInv, NEW h \in WebThreads, Answer(h)
  PROVE  SessionsInv'
<1>1. /\ UNCHANGED <<sessionDb, process, asked, clock>>
      /\ work' = [work EXCEPT ![h] = NoRequest] /\ Types
      /\ work[h].pc \in {"reply", "accepted"}
  BY DEF Answer, SessionsInv
<1>2. /\ jar \subseteq jar' /\ ended \subseteq ended'
      /\ jar' \subseteq DOMAIN sessionDb.rows /\ ended' \subseteq RevokedRows
  <2>1. CASE work[h].pc = "accepted" /\ UNCHANGED <<jar, ended>>
    BY <2>1 DEF SessionsInv, RowsTruthful
  <2>2. CASE /\ work[h].pc = "reply"
             /\ jar' = IF work[h].op = "create" THEN jar \cup work[h].tokens ELSE jar
             /\ ended' = IF work[h].op = "create" THEN ended ELSE ended \cup work[h].tokens
    <3>1. CASE work[h].op = "create"
      <4>1. work[h].tokens \subseteq DOMAIN sessionDb.rows
        BY <2>2, <3>1 DEF SessionsInv, Request
      <4> QED
        BY <2>2, <3>1, <4>1 DEF SessionsInv, RowsTruthful
    <3>2. CASE work[h].op # "create"
      <4>1. work[h].op \in {"revoke", "revoke_all"}
        BY <1>1, <2>2, <3>2 DEF SessionsInv, Request, Types, WorkType
      <4>2. work[h].tokens \subseteq RevokedRows
        BY <2>2, <4>1 DEF SessionsInv, Request
      <4> QED
        BY <2>2, <3>2, <4>2 DEF SessionsInv, RowsTruthful
    <3> QED
      BY <3>1, <3>2
  <2> QED
    BY <2>1, <2>2 DEF Answer
<1>3. jar' \subseteq Tokens /\ ended' \subseteq Tokens
  BY <1>1, <1>2, RowsAreRows DEF Types, RevokedRows
<1>4. RowsTruthful'
  BY <1>1, <1>2 DEF SessionsInv, RowsTruthful, RevokedRows
<1>5. Kept
  BY <1>1, <1>2, SessionsAssumption DEF Kept, RowsGrow, Types
<1> QED
  BY <1>1, <1>3, <1>4, <1>5, EndKeepsInv

-----------------------------------------------------------------------------
(* The theorems.                                                           *)

\* Every step keeps the inductive invariant.
LEMMA SessionsInvPreserved == SessionsInv /\ [WebNext]_webVars => SessionsInv'
<1> SUFFICES ASSUME SessionsInv, [WebNext]_webVars PROVE SessionsInv'
  OBVIOUS
<1>1. CASE StartDashboard \/ StopDashboard
  BY <1>1, ProcessKeepsInv
<1>2. CASE TickClock
  BY <1>2, TickKeepsInv
<1>3. ASSUME NEW h \in WebThreads,
             \/ \E t \in Tokens : SignIn(h, t) \/ SignOut(h, t) \/ Check(h, t)
             \/ RevokeAll(h)
      PROVE  SessionsInv'
  BY <1>3, ArrivalsKeepInv
<1>4. ASSUME NEW h \in WebThreads,
             \/ UseStore(h) \/ Detect(h) \/ ChangeSchema(h) \/ CommitSchema(h)
             \/ Opened(h) \/ OpenFails(h)
      PROVE  SessionsInv'
  BY <1>4, UseStoreKeepsInv, SchemaKeepsInv, OpenedKeepsInv
<1>5. ASSUME NEW h \in WebThreads,
             \/ Create(h) \/ RevokeOne(h) \/ Remember(h) \/ RevokeEvery(h)
             \/ Verify(h) \/ StatementFails(h) \/ Answer(h)
      PROVE  SessionsInv'
  BY <1>5, CreateKeepsInv, RevokeOneKeepsInv, RememberKeepsInv, RevokeEveryKeepsInv,
     VerifyKeepsInv, FailureKeepsInv, AnswerKeepsInv
<1>6. CASE UNCHANGED webVars
  <2>1. UNCHANGED <<sessionDb, process, work, jar, ended, asked, clock>>
    BY <1>6 DEF webVars
  <2> QED
    BY <2>1 DEF SessionsInv, Types, StoreOpensOnce, RowsTruthful, RevokedRows, Request,
       Over, Expired, TokensFresh, Creating
<1> QED
  BY <1>1, <1>2, <1>3, <1>4, <1>5, <1>6 DEF WebNext

\* The inductive invariant holds in every reachable state.
THEOREM SessionsInvariant == WebSpec => []SessionsInv
  BY SessionsInitial, SessionsInvPreserved, PTL DEF WebSpec

\* Type correctness: every variable keeps to its type (Sessions.tla).
THEOREM SessionsTypes == WebSpec => []SessionsTypeOK
<1>1. SessionsInv => SessionsTypeOK
  <2> SUFFICES ASSUME SessionsInv PROVE SessionsTypeOK
    OBVIOUS
  <2>1. /\ DOMAIN sessionDb.rows \subseteq Tokens
        /\ \A t \in DOMAIN sessionDb.rows : sessionDb.rows[t] \in SessionRow
    BY RowsAreRows DEF SessionsInv, Types
  <2> QED
    BY <2>1 DEF SessionsInv, Types, SessionsTypeOK, SessionRow, ProcessType, WorkType
<1> QED
  BY <1>1, SessionsInvariant, PTL

\* A browser that was given a cookie keeps its session, whatever fails or is
\* killed and through every migration of the schema, until somebody asks for
\* its end (sessions.py:222-261; auth.py:582-615).
THEOREM SessionsKept == WebSpec => []SessionsSurvive
<1>1. SessionsInv => SessionsSurvive
  BY DEF SessionsInv, RowsTruthful, RevokedRows, SessionsSurvive
<1> QED
  BY <1>1, SessionsInvariant, PTL

\* A session whose end was acknowledged, and one that had run out, is never
\* accepted by a request that arrives later: not by another thread, not after a
\* crash and a restart, not after a migration (sessions.py:470-497;
\* auth.py:443-458, 618-639).
THEOREM EndIsFinal == WebSpec => []EndedStaysEnded
<1>1. SessionsInv => EndedStaysEnded
  <2> SUFFICES ASSUME SessionsInv, NEW h \in WebThreads, work[h].pc = "accepted"
               PROVE  ~work[h].over
    BY DEF EndedStaysEnded
  <2>1. Request(h) /\ work[h].op \in {"none", "create", "revoke", "revoke_all", "check"}
    BY DEF SessionsInv, Types, WorkType
  <2> QED
    BY <2>1 DEF Request
<1> QED
  BY <1>1, SessionsInvariant, PTL
-----------------------------------------------------------------------------
(* The refinement of SessionRegistry.                                      *)

\* Rows that do not change show the same registry.
LEMMA SameRegistry ==
  ASSUME sessionDb'.rows = sessionDb.rows
  PROVE  LiveSessions' = LiveSessions /\ ClosedSessions' = ClosedSessions
BY DEF LiveSessions, ClosedSessions

\* The request of a thread that moves, as the registry sees it; the others stay.
LEMMA RequestMoves ==
  ASSUME NEW h \in WebThreads, work \in [WebThreads -> WorkType],
         \A k \in WebThreads \ {h} : work'[k] = work[k]
  PROVE  Requests' = [Requests EXCEPT ![h] = RequestOf(h)']
<1>1. \A k \in WebThreads \ {h} : RequestOf(k)' = RequestOf(k)
  BY DEF RequestOf
<1> QED
  BY <1>1 DEF Requests

\* The requests the registry sees are requests.
LEMMA RequestSeen ==
  ASSUME Types, NEW h \in WebThreads
  PROVE  /\ Requests[h] = RequestOf(h) /\ DOMAIN Requests = WebThreads
         /\ Requests[h].op = work[h].op /\ Requests[h].tokens = work[h].tokens
         /\ Requests[h].state = Progress(work[h].pc)
BY DEF Requests, RequestOf

\* A step that shows nothing of itself.
LEMMA StepUnseen ==
  ASSUME sessionDb'.rows = sessionDb.rows, UNCHANGED <<jar, ended, clock>>,
         Requests' = Requests
  PROVE  UNCHANGED Registry!registryVars
BY SameRegistry DEF Registry!registryVars

\* A step that only drops requests.
LEMMA StepDrops ==
  ASSUME Types, sessionDb'.rows = sessionDb.rows, UNCHANGED <<jar, ended, clock>>,
         NEW S \in SUBSET WebThreads, \A k \in WebThreads \ S : work'[k] = work[k],
         \A k \in S : work'[k] = NoRequest
  PROVE  Registry!Next
<1>1. \A k \in S : RequestOf(k)' = Registry!None
  BY DEF RequestOf, NoRequest, Progress, Registry!None
<1>2. \A k \in WebThreads \ S : RequestOf(k)' = RequestOf(k)
  BY DEF RequestOf
<1>3. Requests' = [k \in WebThreads |-> IF k \in S THEN Registry!None ELSE Requests[k]]
  BY <1>1, <1>2 DEF Requests
<1>4. Registry!Drop(S)
  BY <1>3, SameRegistry DEF Registry!Drop
<1> QED
  BY <1>4 DEF Registry!Next

\* Whatever database the service finds, the registry can begin with it.
LEMMA RegistryInitial == WebInit => Registry!Init
<1> SUFFICES ASSUME WebInit PROVE Registry!Init
  OBVIOUS
<1> DEFINE rows == sessionDb.rows
<1>1. /\ DOMAIN rows \subseteq OldTokens
      /\ \A t \in DOMAIN rows : rows[t].issued = 0
  <2>1. PICK v \in 0..3 :
            sessionDb \in [version : {v}, rows : IF v = 0 THEN {<<>>} ELSE
                 UNION {[S -> [issued : {0}, revoked : BOOLEAN]] : S \in SUBSET OldTokens}]
    BY DEF WebInit
  <2>2. CASE v = 0
    BY <2>1, <2>2
  <2>3. CASE v # 0
    <3>1. PICK S \in SUBSET OldTokens : rows \in [S -> [issued : {0}, revoked : BOOLEAN]]
      BY <2>1, <2>3
    <3> QED
      BY <3>1
  <2> QED
    BY <2>2, <2>3
<1>2. LiveSessions = [t \in {s \in DOMAIN rows : ~rows[s].revoked} |-> 0]
  BY <1>1 DEF LiveSessions
<1>3. \E S \in SUBSET OldTokens : LiveSessions = [t \in S |-> 0]
  BY <1>1, <1>2
<1>4. /\ ClosedSessions \in SUBSET (OldTokens \ DOMAIN LiveSessions)
      /\ ClosedSessions \cup DOMAIN LiveSessions = DOMAIN rows
  BY <1>1 DEF LiveSessions, ClosedSessions
<1>5. Requests = [h \in WebThreads |-> Registry!None]
  BY DEF WebInit, Requests, RequestOf, NoRequest, Progress, Registry!None
<1>6. jar = DOMAIN rows /\ ended = ClosedSessions /\ clock = 0
  BY DEF WebInit, ClosedSessions
<1> QED
  BY <1>3, <1>4, <1>5, <1>6 DEF Registry!Init

\* A thread that moves on within what the registry sees as one state.
LEMMA ProgressSame ==
  ASSUME Types, NEW h \in WebThreads,
         NEW p \in {"idle", "open", "opening", "run", "cache", "reply", "accepted"},
         work' = [work EXCEPT ![h].pc = p], Progress(p) = Progress(work[h].pc)
  PROVE  Requests' = Requests
<1>1. /\ work'[h].pc = p /\ work'[h].op = work[h].op /\ work'[h].tokens = work[h].tokens
      /\ \A k \in WebThreads \ {h} : work'[k] = work[k]
  BY PcMoves
<1>2. \A k \in WebThreads : RequestOf(k)' = RequestOf(k)
  BY <1>1 DEF RequestOf
<1> QED
  BY <1>2 DEF Requests

\* A thread whose statement has been executed.
LEMMA RequestDone ==
  ASSUME Types, NEW h \in WebThreads, NEW p \in {"cache", "reply", "accepted"},
         NEW tokens,
         \A k \in WebThreads \ {h} : work'[k] = work[k],
         work'[h].pc = p, work'[h].op = work[h].op, work'[h].tokens = tokens
  PROVE  Registry!Done(h, tokens)
<1>1. RequestOf(h)' = [state |-> "done", op |-> work[h].op, tokens |-> tokens]
  BY DEF RequestOf, Progress
<1>2. Requests' = [Requests EXCEPT ![h] = RequestOf(h)']
  BY RequestMoves DEF Types
<1> QED
  BY <1>1, <1>2, RequestSeen DEF Registry!Done

\* A request that arrives.
LEMMA ArrivalSeen ==
  ASSUME SessionsInv, NEW h \in WebThreads, NEW op, NEW tokens, Receive(h, op, tokens)
  PROVE  Registry!Ask(h, op, tokens)
<1> USE DEF SessionsInv
<1>1. /\ UNCHANGED <<sessionDb, jar, ended, clock>> /\ work[h].pc = "idle"
      /\ work' = [work EXCEPT ![h] = [pc |-> "open", op |-> op, tokens |-> tokens,
                                      over |-> \E t \in tokens : Over(t)]]
  BY DEF Receive
<1>2. /\ work'[h].pc = "open" /\ work'[h].op = op /\ work'[h].tokens = tokens
      /\ \A k \in WebThreads \ {h} : work'[k] = work[k]
  BY <1>1 DEF Types
<1>3. Requests[h] = Registry!None
  <2>1. work[h] = NoRequest
    BY <1>1 DEF Request
  <2>2. RequestOf(h) = [state |-> Progress("idle"), op |-> "none", tokens |-> {}]
    BY <2>1 DEF RequestOf, NoRequest
  <2> QED
    BY <2>2, RequestSeen DEF Progress, Registry!None
<1>4. RequestOf(h)' = [state |-> "pending", op |-> op, tokens |-> tokens]
  BY <1>2 DEF RequestOf, Progress
<1>5. Requests' = [Requests EXCEPT ![h] = [state |-> "pending", op |-> op, tokens |-> tokens]]
  BY <1>2, <1>4, RequestMoves DEF Types
<1>6. LiveSessions' = LiveSessions /\ ClosedSessions' = ClosedSessions
  BY <1>1, SameRegistry
<1> QED
  BY <1>1, <1>3, <1>5, <1>6 DEF Registry!Ask

\* Sign-in, sign-out, revocation of all and the check of a cookie arrive.
LEMMA ArrivalsSeen ==
  ASSUME SessionsInv, NEW h \in WebThreads,
         \/ \E t \in Tokens : SignIn(h, t) \/ SignOut(h, t) \/ Check(h, t)
         \/ RevokeAll(h)
  PROVE  Registry!Next
<1>1. ASSUME NEW t \in Tokens, SignIn(h, t) PROVE Registry!Arrive(h)
  <2>1. Receive(h, "create", {t}) /\ t \notin jar
    BY <1>1 DEF SignIn
  <2> QED
    BY <2>1, ArrivalSeen DEF Registry!Arrive
<1>2. ASSUME NEW t \in Tokens, SignOut(h, t) PROVE Registry!Arrive(h)
  <2>1. Receive(h, "revoke", {t}) /\ t \in jar
    BY <1>2 DEF SignOut
  <2> QED
    BY <2>1, ArrivalSeen DEF Registry!Arrive
<1>3. ASSUME NEW t \in Tokens, Check(h, t) PROVE Registry!Arrive(h)
  <2>1. Receive(h, "check", {t}) /\ t \in jar
    BY <1>3 DEF Check
  <2> QED
    BY <2>1, ArrivalSeen DEF Registry!Arrive
<1>4. ASSUME RevokeAll(h) PROVE Registry!Arrive(h)
  <2>1. Receive(h, "revoke_all", {})
    BY <1>4 DEF RevokeAll
  <2> QED
    BY <2>1, ArrivalSeen DEF Registry!Arrive
<1>5. Registry!Arrive(h)
  BY <1>1, <1>2, <1>3, <1>4
<1> QED
  BY <1>5 DEF Registry!Next

\* The store is opened unseen: the schema it commits shows the rows it found,
\* and one that cannot be opened drops the request that opened it.
LEMMA OpeningUnseen ==
  ASSUME SessionsInv, NEW h \in WebThreads,
         \/ UseStore(h) \/ Detect(h) \/ ChangeSchema(h) \/ CommitSchema(h)
         \/ Opened(h) \/ OpenFails(h)
  PROVE  Registry!Next \/ UNCHANGED Registry!registryVars
<1> USE DEF SessionsInv
<1>1. ASSUME UseStore(h) PROVE UNCHANGED Registry!registryVars
  <2>1. /\ UNCHANGED <<sessionDb, jar, ended, clock>> /\ work[h].pc = "open"
        /\ \/ work' = [work EXCEPT ![h].pc = "run"]
           \/ work' = [work EXCEPT ![h].pc = "opening"]
    BY <1>1 DEF UseStore, Proceed
  <2>2. Progress("run") = Progress("open") /\ Progress("opening") = Progress("open")
    BY DEF Progress
  <2>3. Requests' = Requests
    BY <2>1, <2>2, ProgressSame
  <2> QED
    BY <2>1, <2>3, StepUnseen
<1>2. ASSUME Detect(h) \/ ChangeSchema(h) \/ CommitSchema(h)
      PROVE  UNCHANGED Registry!registryVars
  <2>1. UNCHANGED <<work, jar, ended, clock>>
    BY <1>2 DEF Detect, ChangeSchema, CommitSchema, Opening
  <2>2. sessionDb'.rows = sessionDb.rows
    BY <1>2 DEF Detect, ChangeSchema, CommitSchema, Opening, StoreOpensOnce
  <2>3. Requests' = Requests
    BY <2>1 DEF Requests, RequestOf
  <2> QED
    BY <2>1, <2>2, <2>3, StepUnseen
<1>3. ASSUME Opened(h) PROVE UNCHANGED Registry!registryVars
  <2>1. /\ UNCHANGED <<sessionDb, jar, ended, clock>> /\ work[h].pc = "opening"
        /\ work' = [work EXCEPT ![h].pc = "run"]
    BY <1>3 DEF Opened, Opening, Proceed
  <2>2. Progress("run") = Progress("opening")
    BY DEF Progress
  <2>3. Requests' = Requests
    BY <2>1, <2>2, ProgressSame
  <2> QED
    BY <2>1, <2>3, StepUnseen
<1>4. ASSUME OpenFails(h) PROVE Registry!Next
  <2>1. /\ UNCHANGED <<sessionDb, jar, ended, clock>>
        /\ work' = [work EXCEPT ![h] = NoRequest]
    BY <1>4 DEF OpenFails
  <2>2. /\ {h} \in SUBSET WebThreads /\ \A k \in {h} : work'[k] = NoRequest
        /\ \A k \in WebThreads \ {h} : work'[k] = work[k]
    BY <2>1, RequestEnds
  <2> QED
    BY <2>1, <2>2, StepDrops
<1> QED
  BY <1>1, <1>2, <1>3, <1>4

-----------------------------------------------------------------------------
(* The statements and the answers.                                         *)

\* A thread about to execute its statement has a request pending.
LEMMA RunPending ==
  ASSUME Types, NEW h \in WebThreads, NEW op, Running(h, op), UNCHANGED jar
  PROVE  Registry!Pending(h, op)
<1>1. Requests[h].state = "pending" /\ Requests[h].op = op
  BY RequestSeen DEF Running, Progress
<1> QED
  BY <1>1 DEF Running, Registry!Pending

\* The row of a sign-in is a session that begins.
LEMMA CreateIssues ==
  ASSUME SessionsInv, NEW h \in WebThreads, Create(h)
  PROVE  Registry!Issue(h)
<1> DEFINE rows == sessionDb.rows
           new == work[h].tokens
<1>1. /\ Running(h, "create") /\ UNCHANGED jar /\ Types /\ clock \in 0..MaxClock
      /\ work' = [work EXCEPT ![h].pc = "reply"] /\ work[h].pc = "run" /\ work[h].op = "create"
      /\ rows \in SessionRows /\ new \in SUBSET Tokens
      /\ new \cap DOMAIN rows = {}
  BY DEF Create, Reply, Running, SessionsInv, Types, WorkType, Request
<1>2. sessionDb'.rows = Insert(rows, new, clock)
  BY DEF Create, SessionsInv, Types
<1>3. /\ DOMAIN sessionDb'.rows = new \cup DOMAIN rows
      /\ \A t \in DOMAIN rows : sessionDb'.rows[t] = rows[t]
      /\ \A t \in new : sessionDb'.rows[t].issued = clock /\ sessionDb'.rows[t].revoked = FALSE
  BY <1>1, <1>2 DEF Insert, Row
<1>4. {t \in DOMAIN sessionDb'.rows : ~sessionDb'.rows[t].revoked} = new \cup DOMAIN LiveSessions
  BY <1>3 DEF LiveSessions
<1>5. LiveSessions' = [t \in new \cup DOMAIN LiveSessions |->
                          IF t \in new THEN clock ELSE LiveSessions[t]]
  <2>1. \A t \in DOMAIN LiveSessions :
            t \in DOMAIN rows /\ t \notin new /\ LiveSessions[t] = rows[t].issued
    BY <1>1 DEF LiveSessions
  <2> QED
    BY <1>3, <1>4, <2>1 DEF LiveSessions
<1>6. ClosedSessions' = ClosedSessions
  BY <1>1, <1>3 DEF ClosedSessions
<1>7. new \cap (ClosedSessions \cup DOMAIN LiveSessions) = {}
  BY <1>1 DEF ClosedSessions, LiveSessions
<1>8. Registry!Done(h, new)
  BY <1>1, PcMoves, RequestDone
<1>9. Registry!Pending(h, "create")
  BY <1>1, RunPending
<1>10. Requests[h].tokens = new
  BY <1>1, RequestSeen
<1> HIDE DEF rows, new
<1> QED
  BY <1>5, <1>6, <1>7, <1>8, <1>9, <1>10 DEF Registry!Issue

\* Rows that are marked are sessions that end.
LEMMA RevokeCloses ==
  ASSUME Types, NEW gone \in SUBSET Tokens,
         sessionDb'.rows = Revoke(sessionDb.rows, gone), gone \subseteq DOMAIN sessionDb.rows
  PROVE  Registry!Close(gone)
<1>1. /\ DOMAIN sessionDb'.rows = DOMAIN sessionDb.rows
      /\ \A t \in DOMAIN sessionDb.rows :
             /\ sessionDb'.rows[t].issued = sessionDb.rows[t].issued
             /\ sessionDb'.rows[t].revoked <=> sessionDb.rows[t].revoked \/ t \in gone
  BY RevokeRows DEF Types
<1>2. {t \in DOMAIN sessionDb'.rows : ~sessionDb'.rows[t].revoked} = DOMAIN LiveSessions \ gone
  BY <1>1 DEF LiveSessions
<1>3. LiveSessions' = [t \in DOMAIN LiveSessions \ gone |-> LiveSessions[t]]
  <2>1. \A t \in DOMAIN LiveSessions \ gone :
            t \in DOMAIN sessionDb.rows /\ LiveSessions[t] = sessionDb'.rows[t].issued
    BY <1>1 DEF LiveSessions
  <2> QED
    BY <1>2, <2>1 DEF LiveSessions
<1>4. ClosedSessions' = ClosedSessions \cup gone
  BY <1>1 DEF ClosedSessions
<1> QED
  BY <1>3, <1>4 DEF Registry!Close

\* The UPDATE of one sign-out; its cookie was sent, so there is a row.
LEMMA RevokeOneCloses ==
  ASSUME SessionsInv, NEW h \in WebThreads, RevokeOne(h)
  PROVE  Registry!CloseNamed(h)
<1>1. /\ Running(h, "revoke") /\ UNCHANGED jar /\ Types
      /\ work[h].tokens \in SUBSET Tokens /\ work[h].tokens \subseteq DOMAIN sessionDb.rows
  BY DEF RevokeOne, Running, SessionsInv, Types, WorkType, Request, RowsTruthful
<1>2. sessionDb'.rows = Revoke(sessionDb.rows, work[h].tokens)
  BY DEF RevokeOne, SessionsInv, Types
<1>3. work' = [work EXCEPT ![h].pc = "cache"]
  BY <1>1 DEF RevokeOne
<1>4. Registry!Done(h, work[h].tokens)
  BY <1>1, <1>3, PcMoves, RequestDone
<1>5. Registry!Close(work[h].tokens)
  BY <1>1, <1>2, RevokeCloses
<1>6. Registry!Pending(h, "revoke")
  BY <1>1, RunPending
<1> QED
  BY <1>1, <1>4, <1>5, <1>6, RequestSeen DEF Registry!CloseNamed

\* The UPDATE of a revocation of all.
LEMMA RevokeEveryCloses ==
  ASSUME SessionsInv, NEW h \in WebThreads, RevokeEvery(h)
  PROVE  Registry!CloseAll(h)
<1> DEFINE all == DOMAIN sessionDb.rows
<1>1. /\ Running(h, "revoke_all") /\ UNCHANGED jar /\ Types
      /\ all \in SUBSET Tokens
  BY RowsAreRows DEF RevokeEvery, SessionsInv, Types
<1>2. sessionDb'.rows = Revoke(sessionDb.rows, all)
  BY DEF RevokeEvery, SessionsInv, Types
<1>3. /\ work'[h].pc = "reply" /\ work'[h].tokens = all /\ work'[h].op = work[h].op
      /\ \A k \in WebThreads \ {h} : work'[k] = work[k]
  BY <1>1 DEF RevokeEvery, Types, WorkType
<1>4. Registry!Done(h, all)
  BY <1>1, <1>3, RequestDone
<1>5. Registry!Close(all)
  BY <1>1, <1>2, RevokeCloses
<1>6. all = ClosedSessions \cup DOMAIN LiveSessions
  BY DEF ClosedSessions, LiveSessions
<1>7. Registry!Close(DOMAIN LiveSessions)
  <2>1. ClosedSessions \cup all = ClosedSessions \cup DOMAIN LiveSessions
    BY <1>6
  <2>2. DOMAIN LiveSessions \ all = {} /\ DOMAIN LiveSessions \ DOMAIN LiveSessions = {}
    BY <1>6
  <2>3. /\ LiveSessions' = [t \in DOMAIN LiveSessions \ all |-> LiveSessions[t]]
        /\ ClosedSessions' = ClosedSessions \cup all
    BY <1>5 DEF Registry!Close
  <2>4. [t \in DOMAIN LiveSessions \ all |-> LiveSessions[t]]
            = [t \in DOMAIN LiveSessions \ DOMAIN LiveSessions |-> LiveSessions[t]]
    BY <2>2
  <2> HIDE DEF all
  <2> QED
    BY <2>1, <2>3, <2>4 DEF Registry!Close
<1>8. Registry!Pending(h, "revoke_all")
  BY <1>1, RunPending
<1> HIDE DEF all
<1> QED
  BY <1>4, <1>6, <1>7, <1>8 DEF Registry!CloseAll

\* A check lets in a request only while its session is live, or drops it.
LEMMA VerifyAccepts ==
  ASSUME SessionsInv, NEW h \in WebThreads, Verify(h)
  PROVE  Registry!Next
<1> DEFINE tokens == work[h].tokens
<1>1. /\ Running(h, "check") /\ UNCHANGED <<sessionDb, jar, ended, clock>> /\ Types
      /\ sessionDb'.rows = sessionDb.rows
      /\ work' = [work EXCEPT ![h] = IF \A t \in tokens : Valid(t)
                                     THEN [work[h] EXCEPT !.pc = "accepted"] ELSE NoRequest]
  BY DEF Verify, Running, SessionsInv
<1>2. CASE \A t \in tokens : Valid(t)
  <2>1. work' = [work EXCEPT ![h] = [work[h] EXCEPT !.pc = "accepted"]]
    BY <1>1, <1>2
  <2>2. /\ work'[h].pc = "accepted" /\ work'[h].tokens = tokens /\ work'[h].op = work[h].op
        /\ \A k \in WebThreads \ {h} : work'[k] = work[k]
    BY <1>1, <2>1 DEF Types, WorkType
  <2>3. Registry!Done(h, tokens)
    BY <1>1, <2>2, RequestDone
  <2>4. \A t \in tokens : t \in DOMAIN LiveSessions /\ clock < LiveSessions[t] + MaxAge
    <3> SUFFICES ASSUME NEW t \in tokens
                 PROVE  t \in DOMAIN LiveSessions /\ clock < LiveSessions[t] + MaxAge
      OBVIOUS
    <3>1. /\ t \in DOMAIN sessionDb.rows /\ ~sessionDb.rows[t].revoked
          /\ ~(clock >= sessionDb.rows[t].issued + MaxAge)
      BY <1>2 DEF Valid, Expired
    <3>2. sessionDb.rows[t].issued \in Nat /\ clock \in Nat /\ MaxAge \in Nat
      BY <1>1, <3>1, RowsAreRows, SessionsAssumption DEF Types, SessionRow
    <3>3. t \in DOMAIN LiveSessions /\ LiveSessions[t] = sessionDb.rows[t].issued
      BY <3>1 DEF LiveSessions
    <3> QED
      BY <3>1, <3>2, <3>3
  <2>5. Registry!Pending(h, "check")
    BY <1>1, RunPending
  <2>6. Registry!Accept(h)
    BY <1>1, <2>3, <2>4, <2>5, RequestSeen, SameRegistry DEF Registry!Accept
  <2> QED
    BY <2>6 DEF Registry!Next
<1>3. CASE ~\A t \in tokens : Valid(t)
  <2>1. work' = [work EXCEPT ![h] = NoRequest]
    BY <1>1, <1>3
  <2>2. /\ {h} \in SUBSET WebThreads /\ \A k \in {h} : work'[k] = NoRequest
        /\ \A k \in WebThreads \ {h} : work'[k] = work[k]
    BY <1>1, <2>1, RequestEnds
  <2> QED
    BY <1>1, <2>2, StepDrops
<1> QED
  BY <1>2, <1>3

\* The in-memory set of revoked tokens is not seen, a failed statement drops its
\* request.
LEMMA RememberUnseen ==
  ASSUME SessionsInv, NEW h \in WebThreads, Remember(h) \/ StatementFails(h)
  PROVE  Registry!Next \/ UNCHANGED Registry!registryVars
<1>1. ASSUME Remember(h) PROVE UNCHANGED Registry!registryVars
  <2>1. /\ UNCHANGED <<sessionDb, jar, ended, clock>> /\ work[h].pc = "cache" /\ Types
        /\ work' = [work EXCEPT ![h].pc = "reply"]
    BY <1>1 DEF Remember, Reply, SessionsInv
  <2>2. Progress("reply") = Progress("cache")
    BY DEF Progress
  <2>3. Requests' = Requests
    BY <2>1, <2>2, ProgressSame
  <2> QED
    BY <2>1, <2>3, StepUnseen
<1>2. ASSUME StatementFails(h) PROVE Registry!Next
  <2>1. /\ UNCHANGED <<sessionDb, jar, ended, clock>> /\ Types
        /\ work' = [work EXCEPT ![h] = NoRequest]
    BY <1>2 DEF StatementFails, SessionsInv
  <2>2. /\ {h} \in SUBSET WebThreads /\ \A k \in {h} : work'[k] = NoRequest
        /\ \A k \in WebThreads \ {h} : work'[k] = work[k]
    BY <2>1, RequestEnds
  <2> QED
    BY <2>1, <2>2, StepDrops
<1> QED
  BY <1>1, <1>2

\* An answer is given to what was done.
LEMMA AnswerSeen ==
  ASSUME SessionsInv, NEW h \in WebThreads, Answer(h)
  PROVE  Registry!Answer(h)
<1>1. /\ UNCHANGED <<sessionDb, clock>> /\ Types /\ Request(h)
      /\ work[h].pc \in {"reply", "accepted"}
      /\ work' = [work EXCEPT ![h] = NoRequest]
      /\ work[h].op \in {"none", "create", "revoke", "revoke_all", "check"}
  BY DEF Answer, SessionsInv, Types, WorkType
<1>2. work'[h] = NoRequest /\ \A k \in WebThreads \ {h} : work'[k] = work[k]
  BY <1>1, RequestEnds
<1>3. RequestOf(h)' = Registry!None
  BY <1>2 DEF RequestOf, NoRequest, Progress, Registry!None
<1>4. Requests' = [Requests EXCEPT ![h] = Registry!None]
  BY <1>1, <1>2, <1>3, RequestMoves DEF Types
<1>5. Requests[h].state = "done"
  BY <1>1, RequestSeen DEF Progress
<1>6. /\ jar' = IF work[h].op = "create" THEN jar \cup work[h].tokens ELSE jar
      /\ ended' = IF work[h].op \in {"revoke", "revoke_all"}
                  THEN ended \cup work[h].tokens ELSE ended
  <2>1. CASE work[h].pc = "reply"
    <3>1. work[h].op \in {"create", "revoke", "revoke_all"}
      BY <1>1, <2>1 DEF Request
    <3> QED
      BY <2>1, <3>1 DEF Answer
  <2>2. CASE work[h].pc = "accepted"
    <3>1. work[h].op = "check"
      BY <1>1, <2>2 DEF Request
    <3> QED
      BY <2>2, <3>1 DEF Answer
  <2> QED
    BY <1>1, <2>1, <2>2
<1>7. LiveSessions' = LiveSessions /\ ClosedSessions' = ClosedSessions
  BY <1>1, SameRegistry
<1> QED
  BY <1>1, <1>4, <1>5, <1>6, <1>7, RequestSeen DEF Registry!Answer

\* Every step of the service is a step of the registry, or is not seen.
LEMMA StepRefines ==
  SessionsInv /\ [WebNext]_webVars => [Registry!Next]_(Registry!registryVars)
<1> SUFFICES ASSUME SessionsInv, [WebNext]_webVars
             PROVE  Registry!Next \/ UNCHANGED Registry!registryVars
  OBVIOUS
<1>1. ASSUME StartDashboard \/ StopDashboard PROVE Registry!Next
  <2>1. UNCHANGED <<sessionDb, jar, ended, clock>> /\ Types
    BY <1>1 DEF StartDashboard, StopDashboard, SessionsInv
  <2>2. \A k \in WebThreads : work'[k] = NoRequest
    BY <1>1 DEF StartDashboard, StopDashboard, SessionsInv, StoreOpensOnce
  <2> QED
    BY <2>1, <2>2, StepDrops
<1>2. ASSUME TickClock PROVE Registry!Next
  <2>1. UNCHANGED <<sessionDb, work, jar, ended>> /\ clock' = clock + 1
    BY <1>2 DEF TickClock
  <2>2. Requests' = Requests
    BY <2>1 DEF Requests, RequestOf
  <2>3. Registry!Tick
    BY <2>1, <2>2, SameRegistry DEF Registry!Tick
  <2> QED
    BY <2>3 DEF Registry!Next
<1>3. ASSUME NEW h \in WebThreads,
             \/ \E t \in Tokens : SignIn(h, t) \/ SignOut(h, t) \/ Check(h, t)
             \/ RevokeAll(h)
      PROVE  Registry!Next
  BY <1>3, ArrivalsSeen
<1>4. ASSUME NEW h \in WebThreads,
             \/ UseStore(h) \/ Detect(h) \/ ChangeSchema(h) \/ CommitSchema(h)
             \/ Opened(h) \/ OpenFails(h)
      PROVE  Registry!Next \/ UNCHANGED Registry!registryVars
  BY <1>4, OpeningUnseen
<1>5. ASSUME NEW h \in WebThreads, Create(h) \/ RevokeOne(h) \/ RevokeEvery(h) \/ Answer(h)
      PROVE  Registry!Next
  BY <1>5, CreateIssues, RevokeOneCloses, RevokeEveryCloses, AnswerSeen DEF Registry!Next
<1>6. ASSUME NEW h \in WebThreads, Verify(h) \/ Remember(h) \/ StatementFails(h)
      PROVE  Registry!Next \/ UNCHANGED Registry!registryVars
  BY <1>6, VerifyAccepts, RememberUnseen
<1>7. CASE UNCHANGED webVars
  <2>1. UNCHANGED <<sessionDb, work, jar, ended, clock>>
    BY <1>7 DEF webVars
  <2>2. Requests' = Requests
    BY <2>1 DEF Requests, RequestOf
  <2> QED
    BY <2>1, <2>2, StepUnseen
<1> QED
  BY <1>1, <1>2, <1>3, <1>4, <1>5, <1>6, <1>7 DEF WebNext

\* The store with its migrations, its threads, its cache of revoked tokens, its
\* failures and its kills implements the registry: every request takes effect
\* at one moment between its arrival and its answer, or not at all, and no
\* session is opened, closed or revived by anything else (sessions.py:201-270,
\* 365-434, 470-497; auth.py:382-466).
THEOREM RegistryImplemented == WebSpec => RegistrySpec
<1>1. WebInit => Registry!Init
  BY RegistryInitial
<1>2. SessionsInv /\ [WebNext]_webVars => [Registry!Next]_(Registry!registryVars)
  BY StepRefines
<1> QED
  BY <1>1, <1>2, SessionsInvariant, PTL DEF WebSpec, RegistrySpec, Registry!Spec
=============================================================================
