---------------------------- MODULE BackendProofs ----------------------------
(***************************************************************************)
(* What the threads of backend-api guarantee, for any number of threads,   *)
(* requests, rows and failing statements.                                  *)
(*                                                                         *)
(* The global CLICKHOUSE_URL (Backend), for any users and projects: as     *)
(* long as nobody runs inside the with block of another, statements go to  *)
(* the database of their request, all rows of an ingest into one database, *)
(* the URL is restored, and a key is given out only when the tables of its *)
(* project are there.  The inserts come in the order of the handler in any *)
(* interleaving.                                                           *)
(*                                                                         *)
(* The accounts (Accounts): agents, keys and login codes are in order, and *)
(* lists, ingests and logins answer with what is so, as long as the        *)
(* requests each property names do not overlap.  The two specifications    *)
(* share the server's threads and nothing else.                            *)
(***************************************************************************)
EXTENDS Backend, Accounts, Totals, SequenceTheorems, TLAPS

\* Where a thread can be with which request, and how far its statements are.
JobsFit ==
  \A t \in Threads :
    /\ pc[t] \in {"save", "set", "post", "reply", "restore", "database", "key"} =>
         job[t] \in Jobs /\ (job[t].db \in Projects \/ job[t].kind = "unscoped")
    /\ pc[t] \in {"insert", "ensure"} => job[t] \in Jobs
    /\ pc[t] \in {"insert", "database", "key"} => job[t].kind = "create"
    /\ pc[t] = "ensure" => job[t].user \in Users
    /\ pc[t] = "reply" => job[t].kind # "create"
    /\ pc[t] # "idle" /\ job[t].kind = "unscoped" => pc[t] = "post" /\ job[t].db = DefaultDb
    /\ pc[t] \in {"set", "post", "reply", "restore"} =>
         old[t] \in Dbs \/ job[t].kind = "unscoped"
    /\ pc[t] \in {"insert", "database", "save", "set"} => k[t] = 1
    /\ pc[t] = "post" => k[t] <= Len(Statements(job[t].kind))

\* One thread at most is in a with block; it has saved the default and the URL
\* is what it set.
UrlOwned ==
  /\ \A s, t \in Inside : s = t
  /\ \A t \in Inside : /\ old[t] = DefaultDb
                       /\ url = IF pc[t] = "set" THEN DefaultDb ELSE job[t].db

TInv == TypeOK /\ JobsFit

IInv == TInv /\ UrlRestored /\ StatementsStayHome /\ (overlap \/ UrlOwned)

-----------------------------------------------------------------------------
\* A request has at most three statements, on the tables there are.
LEMMA StatementsLen ==
  \A kind \in Kinds :
    /\ Len(Statements(kind)) \in Nat /\ Len(Statements(kind)) <= 3
    /\ kind # "silent" => Len(Statements(kind)) >= 2
    /\ \A i \in 1..Len(Statements(kind)) : Statements(kind)[i] \in Tables
  BY DEF Kinds, Statements, Tables

\* A thread takes a request.
LEMMA AcceptTInv ==
  ASSUME TInv, NEW t \in Threads, NEW kind \in Kinds, NEW db \in Dbs \cup {None},
         NEW user \in Users \cup {None}, NEW next, Accept(t, kind, db, user, next),
         \/ next = "save" /\ db \in Projects /\ kind \in {"ingest", "sessionless", "silent", "query"}
         \/ next = "post" /\ kind = "unscoped" /\ db = DefaultDb
         \/ next = "insert" /\ kind = "create"
         \/ next = "ensure" /\ kind = "login" /\ user \in Users
  PROVE  TInv'
  <1> USE BackendAssumption DEF TInv, Accept, Go
  <1>1. [kind |-> kind, id |-> requests + 1, db |-> db, user |-> user] \in Jobs
    BY DEF TypeOK, Jobs
  <1>2. TypeOK'
    BY <1>1 DEF TypeOK, metaVars, histVars, logVars
  <1>3. JobsFit'
    <2> SUFFICES ASSUME NEW s \in Threads PROVE JobsFit!(s)'
      BY DEF JobsFit
    <2>1. CASE s = t
      <3> DEFINE rec == [kind |-> kind, id |-> requests + 1, db |-> db, user |-> user]
      <3>1. job'[s] = rec /\ pc'[s] = next /\ k'[s] = 1
        BY <2>1 DEF TypeOK
      <3>2. rec \in Jobs /\ rec.kind = kind /\ rec.db = db /\ rec.user = user
        BY <1>1
      <3>3. kind # "silent" => 1 <= Len(Statements(kind))
        BY StatementsLen
      <3> HIDE DEF rec, Accept
      <3> QED BY <3>1, <3>2, <3>3 DEF Dbs
    <2>2. CASE s # t
      BY <2>2 DEF JobsFit, TypeOK
    <2> QED BY <2>1, <2>2
  <1> QED BY <1>2, <1>3

\* The requests that may arrive.
Arrives(t) ==
  Ingest(t) \/ ProjectQuery(t) \/ UnscopedQuery(t) \/ CreateProject(t) \/ Login(t)

\* What each kind of request leaves the thread with.
LEMMA ArrivesAccept ==
  ASSUME TInv, NEW t \in Threads, Arrives(t)
  PROVE  \E kind \in Kinds, db \in Dbs \cup {None}, user \in Users \cup {None},
            next \in {"save", "post", "insert", "ensure"} :
           /\ Accept(t, kind, db, user, next)
           /\ \/ next = "save" /\ db \in Projects /\ kind \in {"ingest", "sessionless", "silent", "query"}
              \/ next = "post" /\ kind = "unscoped" /\ db = DefaultDb
              \/ next = "insert" /\ kind = "create"
              \/ next = "ensure" /\ kind = "login" /\ user \in Users
  <1> USE DEF TInv
  <1>1. CASE Ingest(t)
    <2>1. PICK p \in keyed, kind \in {"ingest", "sessionless", "silent"} :
            Accept(t, kind, p, None, "save")
      BY <1>1 DEF Ingest
    <2>2. p \in Projects
      BY DEF TypeOK
    <2> HIDE DEF TInv
    <2> QED BY <2>1, <2>2 DEF Kinds, Dbs
  <1>2. CASE ProjectQuery(t)
    <2>1. PICK p \in Projects, kind \in {"query", "silent"} : Accept(t, kind, p, None, "save")
      BY <1>2 DEF ProjectQuery
    <2> QED BY <2>1 DEF Kinds, Dbs
  <1>3. CASE UnscopedQuery(t)
    BY <1>3 DEF UnscopedQuery, Kinds, Dbs
  <1>4. CASE CreateProject(t)
    <2>1. PICK u \in Users : Accept(t, "create", None, u, "insert")
      BY <1>4 DEF CreateProject
    <2> QED BY <2>1 DEF Kinds
  <1>5. CASE Login(t)
    <2>1. PICK u \in Users : \/ Accept(t, "create", None, u, "insert")
                            \/ Accept(t, "login", None, u, "ensure")
      BY <1>5 DEF Login
    <2> QED BY <2>1 DEF Kinds
  <1> QED BY <1>1, <1>2, <1>3, <1>4, <1>5 DEF Arrives

\* At first all threads are idle.
LEMMA InitTInv == Init => TInv
  <1> SUFFICES ASSUME Init PROVE TInv
    OBVIOUS
  <1> USE BackendAssumption DEF Init
  <1>1. TypeOK
    <2>1. tables \in [Dbs -> SUBSET Tables]
      BY DEF Dbs
    <2>2. owner \in [Projects -> Users \cup {None}]
      OBVIOUS
    <2>3. /\ k \in [Threads -> 1..3] /\ ok \in [Threads -> BOOLEAN]
          /\ job \in [Threads -> Jobs \cup {None}] /\ old \in [Threads -> Dbs \cup {None}]
      OBVIOUS
    <2>4. requests \in 0..MaxRequests /\ faults \in 0..MaxFaults
      OBVIOUS
    <2>7. log \subseteq [home : Dbs, at : Dbs] /\ stored \in [1..MaxRequests -> [Dbs -> SUBSET Tables]]
      OBVIOUS
    <2>5. overlap \in BOOLEAN /\ url \in Dbs /\ databases \subseteq Dbs /\ keyed \subseteq Projects
      BY DEF Dbs
    <2>6. pc \in [Threads -> {"idle", "save", "set", "post", "reply", "restore", "insert",
                             "database", "key", "ensure"}]
      OBVIOUS
    <2> HIDE DEF Init
    <2> QED BY <2>1, <2>2, <2>3, <2>4, <2>5, <2>6, <2>7 DEF TypeOK
  <1>2. JobsFit
    BY DEF JobsFit
  <1> QED BY <1>1, <1>2 DEF TInv

\* A statement leaves the tables and the history with their types.
LEMMA ExecutedTypes ==
  ASSUME TypeOK, NEW t \in Threads, job[t] \in Jobs, NEW tab \in Tables,
         job[t].db \in Projects \/ job[t].db = DefaultDb, Executed(t, tab)
  PROVE  /\ tables' \in [Dbs -> SUBSET Tables] /\ log' \subseteq [home : Dbs, at : Dbs]
         /\ stored' \in [1..MaxRequests -> [Dbs -> SUBSET Tables]]
  <1>1. job[t].db \in Dbs /\ job[t].id \in 1..MaxRequests /\ url \in Dbs
    BY DEF Jobs, Dbs, TypeOK
  <1>2. tables' \in [Dbs -> SUBSET Tables]
    BY <1>1 DEF Executed, TypeOK
  <1>3. log' \subseteq [home : Dbs, at : Dbs]
    BY <1>1 DEF Executed, TypeOK
  <1>4. stored' \in [1..MaxRequests -> [Dbs -> SUBSET Tables]]
    <2>1. CASE stored' = stored
      BY <2>1 DEF TypeOK
    <2>2. CASE stored' = [stored EXCEPT ![job[t].id][url] = @ \cup {tab}]
      <3>1. [stored[job[t].id] EXCEPT ![url] = @ \cup {tab}] \in [Dbs -> SUBSET Tables]
        BY <1>1 DEF TypeOK
      <3> QED BY <1>1, <2>2, <3>1 DEF TypeOK
    <2> QED BY <2>1, <2>2 DEF Executed
  <1> QED BY <1>2, <1>3, <1>4

\* A project row has an owner, and its thread goes on with that project.
LEMMA ProjectRowTypes ==
  ASSUME TypeOK, NEW t \in Threads, job[t] \in Jobs, ProjectRow(t)
  PROVE  /\ owner' \in [Projects -> Users \cup {None}]
         /\ job' \in [Threads -> Jobs \cup {None}]
         /\ job'[t] \in Jobs /\ job'[t].db \in Projects /\ job'[t].kind = job[t].kind
         /\ job'[t].id = job[t].id
         /\ \A s \in Threads \ {t} : job'[s] = job[s]
  <1>1. PICK p \in Projects :
          owner' = [owner EXCEPT ![p] = job[t].user] /\ job' = [job EXCEPT ![t].db = p]
    BY DEF ProjectRow
  <1>2. job'[t] = [job[t] EXCEPT !.db = p]
    BY <1>1 DEF TypeOK
  <1>3. /\ job'[t] \in Jobs /\ job'[t].db = p /\ job'[t].kind = job[t].kind
        /\ job'[t].id = job[t].id
        /\ job[t].user \in Users \cup {None}
    BY <1>2 DEF Jobs, Dbs
  <1>4. job' \in [Threads -> Jobs \cup {None}] /\ \A s \in Threads \ {t} : job'[s] = job[s]
    BY <1>1, <1>2, <1>3 DEF TypeOK
  <1> QED BY <1>1, <1>3, <1>4 DEF TypeOK

\* Types and positions are preserved.
LEMMA StepTInv ==
  ASSUME TInv, NEW t \in Threads, Step(t)
  PROVE  TInv'
  <1> USE BackendAssumption DEF TInv, Go
  <1>1. CASE Arrives(t)
    BY <1>1, ArrivesAccept, AcceptTInv
  <1>2. CASE SaveUrl(t)
    BY <1>2 DEF SaveUrl, TypeOK, JobsFit, metaVars, logVars
  <1>3. CASE SetUrl(t)
    BY <1>3, StatementsLen DEF SetUrl, TypeOK, JobsFit, metaVars, histVars, logVars, Jobs
  <1>4. CASE Post(t)
    <2>1. job[t] \in Jobs /\ job[t].kind \in Kinds /\ k[t] \in 1..Len(Statements(job[t].kind))
      <3>1. pc[t] = "post"
        BY <1>4 DEF Post
      <3>2. job[t] \in Jobs /\ k[t] \in 1..3 /\ k[t] <= Len(Statements(job[t].kind))
        BY <3>1 DEF JobsFit, TypeOK
      <3>3. job[t].kind \in Kinds
        BY <3>2 DEF Jobs
      <3> QED BY <3>2, <3>3, StatementsLen
    <2>2. Statements(job[t].kind)[k[t]] \in Tables
      BY <2>1, StatementsLen
    <2>3. TypeOK'
      <3>1. tables' \in [Dbs -> SUBSET Tables] /\ log' \subseteq [home : Dbs, at : Dbs]
            /\ stored' \in [1..MaxRequests -> [Dbs -> SUBSET Tables]]
        BY <1>4, <2>1, <2>2, ExecutedTypes DEF Post, JobsFit
      <3>2. k' \in [Threads -> 1..3]
        BY <1>4, <2>1, StatementsLen DEF Post, TypeOK
      <3> QED BY <1>4, <3>1, <3>2 DEF Post, After, TypeOK, metaVars
    <2>4. JobsFit'
      <3> SUFFICES ASSUME NEW s \in Threads PROVE JobsFit!(s)'
        BY DEF JobsFit
      <3>1. job'[s] = job[s] /\ old'[s] = old[s]
        BY <1>4 DEF Post
      <3>2. CASE s = t
        <4>1. pc'[s] \in {"post", "restore", "idle", "reply"}
          BY <1>4, <3>2 DEF Post, After, TypeOK
        <4>2. pc'[s] = "post" => k'[s] <= Len(Statements(job[s].kind))
          BY <1>4, <2>1, <3>2, StatementsLen DEF Post, After, TypeOK
        <4>3. pc'[s] # "idle" /\ job[s].kind = "unscoped" => pc'[s] = "post"
          BY <1>4, <3>2 DEF Post, After, TypeOK
        <4>4. JobsFit!(s) /\ pc[s] = "post"
          BY <1>4, <3>2 DEF JobsFit, Post
        <4>5. pc'[s] = "reply" => job[s].kind # "create"
          BY <1>4, <3>2 DEF Post, After, TypeOK
        <4> QED BY <3>1, <4>1, <4>2, <4>3, <4>4, <4>5
      <3>3. CASE s # t
        <4>1. pc'[s] = pc[s] /\ k'[s] = k[s]
          BY <1>4, <3>3 DEF Post, TypeOK
        <4> QED BY <3>1, <4>1 DEF JobsFit
      <3> QED BY <3>2, <3>3
    <2> QED BY <2>3, <2>4
  <1>5. CASE PostRaises(t)
    <2>1. job[t] \in Jobs /\ job[t].kind \in Kinds /\ k[t] \in 1..Len(Statements(job[t].kind))
      BY <1>5 DEF PostRaises, JobsFit, TypeOK, Jobs
    <2>2. Statements(job[t].kind)[k[t]] \in Tables
      BY <2>1, StatementsLen
    <2>3. TypeOK'
      <3>1. tables' \in [Dbs -> SUBSET Tables] /\ log' \subseteq [home : Dbs, at : Dbs]
            /\ stored' \in [1..MaxRequests -> [Dbs -> SUBSET Tables]]
        <4>1. CASE Executed(t, Statements(job[t].kind)[k[t]])
          BY <1>5, <2>1, <2>2, <4>1, ExecutedTypes DEF PostRaises, JobsFit
        <4>2. CASE UNCHANGED <<tables, logVars>>
          BY <4>2 DEF TypeOK, logVars
        <4> QED BY <1>5, <4>1, <4>2 DEF PostRaises
      <3> QED BY <1>5, <2>1, <3>1 DEF PostRaises, TypeOK, metaVars
    <2>4. JobsFit'
      BY <1>5, <2>1 DEF PostRaises, TypeOK, JobsFit
    <2> QED BY <2>3, <2>4
  <1>6. CASE Reply(t)
    BY <1>6 DEF Reply, TypeOK, JobsFit, metaVars, histVars, logVars
  <1>7. CASE Restore(t)
    BY <1>7 DEF Restore, TypeOK, JobsFit, metaVars, histVars, logVars
  <1>8. CASE InsertProject(t)
    <2> USE <1>8 DEF InsertProject
    <2>1. /\ job[t] \in Jobs /\ ProjectRow(t)
      BY DEF JobsFit
    <2>2. /\ owner' \in [Projects -> Users \cup {None}]
          /\ job' \in [Threads -> Jobs \cup {None}]
          /\ job'[t] \in Jobs /\ job'[t].db \in Projects /\ job'[t].kind = job[t].kind
          /\ \A s \in Threads \ {t} : job'[s] = job[s]
      BY <2>1, ProjectRowTypes
    <2>3. TypeOK'
      BY <2>1, <2>2 DEF ProjectRow, TypeOK, logVars
    <2>4. JobsFit'
      BY <2>2 DEF TypeOK, JobsFit, Dbs
    <2> QED BY <2>3, <2>4
  <1>9. CASE CreateDatabase(t)
    <2>1. job[t].db \in Dbs
      BY <1>9 DEF CreateDatabase, JobsFit, Dbs
    <2> QED BY <1>9, <2>1 DEF CreateDatabase, DatabaseMade, TypeOK, JobsFit, logVars
  <1>10. CASE CreateKey(t)
    <2>1. job[t].db \in Projects
      BY <1>10 DEF CreateKey, JobsFit
    <2> QED BY <1>10, <2>1 DEF CreateKey, KeyRows, TypeOK, JobsFit, logVars
  <1>11. CASE EnsureAgents(t)
    BY <1>11 DEF EnsureAgents, KeyRows, Owned, TypeOK, JobsFit, logVars
  <1>12. CASE MetaRaises(t)
    <2> USE <1>12 DEF MetaRaises
    <2>1. /\ job' \in [Threads -> Jobs \cup {None}] /\ owner' \in [Projects -> Users \cup {None}]
          /\ \A s \in Threads \ {t} : job'[s] = job[s]
      <3>1. CASE pc[t] = "insert" /\ ProjectRow(t)
        <4>1. job[t] \in Jobs
          BY <3>1 DEF JobsFit
        <4> QED BY <3>1, <4>1, ProjectRowTypes
      <3>2. CASE UNCHANGED <<job, owner>>
        BY <3>2 DEF TypeOK
      <3> QED BY <3>1, <3>2 DEF DatabaseMade, KeyRows, metaVars
    <2>2. databases' \subseteq Dbs /\ keyed' \subseteq Projects
      <3>1. pc[t] \in {"database", "key"} => job[t].db \in Projects
        BY DEF JobsFit
      <3> QED BY <3>1 DEF ProjectRow, DatabaseMade, KeyRows, Owned, metaVars, TypeOK, Dbs
    <2>3. TypeOK'
      <3>1. pc' \in [Threads -> {"idle", "save", "set", "post", "reply", "restore", "insert",
                              "database", "key", "ensure"}]
        BY DEF TypeOK
      <3>2. ok' \in [Threads -> BOOLEAN] /\ overlap' \in BOOLEAN
        BY Zenon DEF TypeOK
      <3>3. faults' \in 0..MaxFaults
        BY DEF TypeOK
      <3> QED BY <2>1, <2>2, <3>1, <3>2, <3>3 DEF TypeOK, histVars, logVars
    <2>4. JobsFit'
      BY <2>1 DEF TypeOK, JobsFit
    <2> QED BY <2>3, <2>4
  <1> QED
    BY <1>1, <1>2, <1>3, <1>4, <1>5, <1>6, <1>7, <1>8, <1>9, <1>10, <1>11, <1>12
    DEF Step, Arrives

-----------------------------------------------------------------------------
\* The with block: who is in it, and what the URL is.

LEMMA InitUrl == Init => UrlRestored /\ StatementsStayHome /\ UrlOwned
  BY DEF Init, UrlRestored, StatementsStayHome, AtHome, UrlOwned, Inside

\* A step that leaves url, log and old alone and moves a thread between two
\* positions on the same side of the with block.
LEMMA SameSide ==
  ASSUME IInv, NEW t \in Threads, NEW next,
         pc' = [pc EXCEPT ![t] = next],
         url' = url, log' = log, old' = old, overlap => overlap',
         \A s \in Threads \ {t} : job'[s] = job[s],
         \/ /\ t \notin Inside
            /\ next \notin {"set", "post", "reply", "restore"}
               \/ (next = "post" /\ job'[t].kind = "unscoped")
         \/ /\ t \in Inside /\ job'[t] = job[t]
            /\ pc[t] # "set" /\ next \in {"post", "reply", "restore"}
  PROVE  UrlRestored' /\ StatementsStayHome' /\ (overlap \/ UrlOwned)'
  <1> USE DEF IInv, TInv
  <1>1. Inside' = Inside
    BY DEF Inside, TypeOK
  <1>2. \A s \in Inside : job'[s] = job[s] /\ (pc'[s] = "set" <=> pc[s] = "set")
    BY <1>1 DEF Inside, TypeOK
  <1> QED BY <1>1, <1>2 DEF UrlRestored, StatementsStayHome, AtHome, UrlOwned

\* A statement that nobody overlaps works on the database of its request.
LEMMA PostAtHome ==
  ASSUME IInv, NEW t \in Threads, Post(t) \/ PostRaises(t), ~overlap'
  PROVE  url = job[t].db
  <1>1. pc[t] = "post" /\ ~overlap /\ Inside \subseteq {t}
    BY DEF Post, PostRaises
  <1>2. CASE job[t].kind = "unscoped"
    BY <1>1, <1>2 DEF IInv, TInv, UrlRestored, Inside, JobsFit
  <1>3. CASE job[t].kind # "unscoped"
    BY <1>1, <1>3 DEF IInv, UrlOwned, Inside
  <1> QED BY <1>2, <1>3

\* A step of a thread keeps the URL with the thread in the with block.
LEMMA StepUrl ==
  ASSUME IInv, NEW t \in Threads, Step(t)
  PROVE  UrlRestored' /\ StatementsStayHome' /\ (overlap \/ UrlOwned)'
  <1> USE BackendAssumption DEF IInv, TInv, Go
  <1>1. CASE Arrives(t)
    <2>1. PICK kind \in Kinds, db \in Dbs \cup {None}, user \in Users \cup {None},
               next \in {"save", "post", "insert", "ensure"} :
            /\ Accept(t, kind, db, user, next)
            /\ next = "post" => kind = "unscoped"
      BY <1>1, ArrivesAccept
    <2>2. t \notin Inside
      BY <2>1 DEF Accept, Inside
    <2>3. next = "post" => job'[t].kind = "unscoped"
      BY <2>1 DEF Accept, TypeOK
    <2> QED BY <2>1, <2>2, <2>3, SameSide DEF Accept, histVars, logVars, TypeOK
  <1>2. CASE SaveUrl(t)
    <2>1. CASE overlap'
      BY <2>1 DEF UrlRestored, StatementsStayHome
    <2>2. CASE ~overlap'
      <3>1. ~overlap /\ Inside = {} /\ url' = DefaultDb
        BY <1>2, <2>2 DEF SaveUrl, UrlRestored, TypeOK
      <3>2. Inside' = {t}
        BY <1>2, <3>1 DEF SaveUrl, Inside, TypeOK, JobsFit
      <3>3. old'[t] = DefaultDb /\ pc'[t] = "set" /\ log' = log
        BY <1>2, <3>1 DEF SaveUrl, TypeOK, logVars
      <3> QED BY <3>1, <3>2, <3>3 DEF UrlRestored, StatementsStayHome, AtHome, UrlOwned
    <2> QED BY <2>1, <2>2 DEF SaveUrl
  <1>3. CASE SetUrl(t)
    <2>1. t \in Inside /\ Inside' = Inside /\ job' = job /\ old' = old /\ log' = log
      BY <1>3 DEF SetUrl, Inside, TypeOK, JobsFit, histVars, logVars
    <2>2. url' = job[t].db /\ pc'[t] # "set" /\ overlap' = overlap
      BY <1>3 DEF SetUrl, TypeOK, histVars, logVars
    <2> QED BY <2>1, <2>2 DEF UrlRestored, StatementsStayHome, AtHome, UrlOwned
  <1>4. CASE Post(t) \/ PostRaises(t)
    <2>1. CASE overlap'
      BY <2>1 DEF UrlRestored, StatementsStayHome
    <2>2. CASE ~overlap'
      <3>1. ~overlap /\ Inside \subseteq {t}
        BY <1>4, <2>2 DEF Post, PostRaises
      <3>2. url = job[t].db
        BY <1>4, <2>2, PostAtHome
      <3>3. AtHome'
        BY <1>4, <3>1, <3>2 DEF Post, PostRaises, Executed, StatementsStayHome, AtHome, logVars
      <3>4. url' = url /\ job' = job /\ old' = old /\ Inside' = Inside
        <4>1. url' = url /\ job' = job /\ old' = old
          BY <1>4 DEF Post, PostRaises
        <4>2. CASE job[t].kind = "unscoped"
          BY <1>4, <4>1, <4>2 DEF Post, PostRaises, After, Inside, TypeOK
        <4>3. CASE job[t].kind # "unscoped"
          BY <1>4, <4>1, <4>3 DEF Post, PostRaises, After, Inside, TypeOK
        <4> QED BY <4>1, <4>2, <4>3
      <3>5. \A s \in Inside : pc[s] # "set" /\ pc'[s] # "set"
        BY <1>4, <3>1, <3>4 DEF Post, PostRaises, After, TypeOK, Inside
      <3> QED BY <3>1, <3>3, <3>4, <3>5 DEF UrlRestored, StatementsStayHome, UrlOwned
    <2> QED BY <2>1, <2>2
  <1>5. CASE Reply(t)
    <2>1. t \in Inside
      BY <1>5 DEF Reply, Inside, JobsFit
    <2> QED BY <1>5, <2>1, SameSide DEF Reply, histVars, logVars
  <1>6. CASE Restore(t)
    <2>1. t \in Inside /\ Inside' = Inside \ {t} /\ url' = old[t]
      BY <1>6 DEF Restore, Inside, TypeOK, JobsFit
    <2>2. overlap' = overlap /\ log' = log
      BY <1>6 DEF Restore, histVars, logVars
    <2>3. ~overlap => Inside' = {} /\ url' = DefaultDb
      BY <2>1 DEF UrlOwned
    <2> QED BY <2>2, <2>3 DEF UrlRestored, StatementsStayHome, AtHome, UrlOwned
  <1>7. CASE InsertProject(t)
    <2>1. t \notin Inside /\ \A s \in Threads \ {t} : job'[s] = job[s]
      BY <1>7 DEF InsertProject, ProjectRow, Inside, TypeOK
    <2> QED BY <1>7, <2>1, SameSide DEF InsertProject, logVars
  <1>8. CASE CreateDatabase(t) \/ CreateKey(t) \/ EnsureAgents(t) \/ MetaRaises(t)
    <2>1. t \notin Inside
      BY <1>8 DEF CreateDatabase, CreateKey, EnsureAgents, MetaRaises, Inside
    <2>2. \A s \in Threads \ {t} : job'[s] = job[s]
      BY <1>8 DEF CreateDatabase, CreateKey, EnsureAgents, MetaRaises, ProjectRow,
        DatabaseMade, KeyRows, TypeOK
    <2>3. /\ url' = url /\ log' = log /\ old' = old /\ (overlap => overlap')
          /\ \E next \in {"save", "idle"} : pc' = [pc EXCEPT ![t] = next]
      BY <1>8 DEF CreateDatabase, CreateKey, EnsureAgents, MetaRaises, logVars
    <2> QED BY <2>1, <2>2, <2>3, SameSide
  <1> QED
    BY <1>1, <1>2, <1>3, <1>4, <1>5, <1>6, <1>7, <1>8 DEF Step, Arrives

\* Every step preserves the invariant, with and without overlap.
LEMMA NextInv == IInv /\ [Next]_vars => IInv'
  <1> SUFFICES ASSUME IInv, [Next]_vars PROVE IInv'
    OBVIOUS
  <1>1. CASE Next
    <2>1. PICK t \in Threads : Step(t)
      BY <1>1 DEF Next
    <2>2. TInv'
      BY <2>1, StepTInv DEF IInv
    <2>3. UrlRestored' /\ StatementsStayHome' /\ (overlap \/ UrlOwned)'
      BY <2>1, StepUrl
    <2> QED BY <2>2, <2>3 DEF IInv
  <1>2. CASE UNCHANGED vars
    BY <1>2 DEF vars, threadVars, metaVars, histVars, logVars, IInv, TInv, TypeOK, JobsFit,
      UrlRestored, StatementsStayHome, AtHome, UrlOwned, Inside
  <1> QED BY <1>1, <1>2

\* The inductive invariant holds in every reachable state.
THEOREM BackendInvariant == Spec => []IInv
  <1>1. Init => IInv
    BY InitTInv, InitUrl DEF IInv
  <1> QED BY <1>1, NextInv, PTL DEF Spec

\* Types, for every number of threads, projects and requests.
THEOREM BackendTypes == Spec => []TypeOK
  <1>1. IInv => TypeOK
    BY DEF IInv, TInv
  <1> QED BY <1>1, BackendInvariant, PTL

\* Telemetry and queries reach the database of their project as long as no
\* request runs inside the project_database block of another.
THEOREM BackendStatementsStayHome == Spec => []StatementsStayHome
  <1>1. IInv => StatementsStayHome
    BY DEF IInv
  <1> QED BY <1>1, BackendInvariant, PTL

\* CLICKHOUSE_URL is restored on every path out of project_database.
THEOREM BackendUrlRestored == Spec => []UrlRestored
  <1>1. IInv => UrlRestored
    BY DEF IInv
  <1> QED BY <1>1, BackendInvariant, PTL

-----------------------------------------------------------------------------
(* What an ingest has stored *)

\* The tables of the statements before the n-th.
Before(kind, n) == {Statements(kind)[j] : j \in 1..(n - 1)}

\* A request has an id of its own, and its ingest has filled exactly the tables
\* of the statements behind it.
IngestFit ==
  /\ \A i \in 1..MaxRequests : i > requests => Filled[i] = {}
  /\ \A t \in Threads : pc[t] # "idle" => job[t].id <= requests
  /\ \A s, t \in Threads : s # t /\ pc[s] # "idle" /\ pc[t] # "idle" => job[s].id # job[t].id
  /\ \A t \in Threads :
       pc[t] \in {"save", "set", "post"} /\ job[t].kind \in {"ingest", "sessionless"} =>
         Filled[job[t].id] = Before(job[t].kind, k[t])

\* The inserts come in the order of the handler, and are all done when an
\* ingest answers, in whatever databases.
FilledInOrder ==
  /\ \A i \in 1..MaxRequests : InOrder(Filled[i])
  /\ \A t \in Threads :
       pc[t] = "reply" /\ job[t].kind \in {"ingest", "sessionless"} =>
         Filled[job[t].id] = ToSet(Statements(job[t].kind))

\* The statements of an ingest fill the tables in order.
LEMMA IngestStatements ==
  ASSUME NEW kind \in {"ingest", "sessionless"}, NEW n \in 1..Len(Statements(kind))
  PROVE  /\ Before(kind, 1) = {}
         /\ Before(kind, n) \cup {Statements(kind)[n]} = Before(kind, n + 1)
         /\ Before(kind, Len(Statements(kind)) + 1) = ToSet(Statements(kind))
         /\ InOrder(Before(kind, n + 1))
  <1>1. /\ Len(Statements(kind)) \in {2, 3} /\ n \in 1..3
        /\ DOMAIN Statements(kind) = 1..Len(Statements(kind))
    <2>1. CASE kind = "ingest"
      <3>1. Statements(kind) = <<"observations", "traces", "sessions">>
        BY <2>1 DEF Statements
      <3> QED BY <3>1
    <2>2. CASE kind = "sessionless"
      <3>1. Statements(kind) = <<"observations", "traces">>
        BY <2>2 DEF Statements
      <3> QED BY <3>1
    <2> QED BY <2>1, <2>2
  <1>2. /\ Before(kind, 1) = {}
        /\ Before(kind, n + 1) = Before(kind, n) \cup {Statements(kind)[n]}
    BY <1>1 DEF Before
  <1>3. Before(kind, Len(Statements(kind)) + 1) = ToSet(Statements(kind))
    BY <1>1 DEF Before, ToSet
  <1>4. /\ Statements(kind)[1] = "observations" /\ Statements(kind)[2] = "traces"
        /\ n = 3 => Statements(kind)[3] = "sessions"
    BY DEF Statements
  <1>5. /\ "traces" \in Before(kind, n + 1) => "observations" \in Before(kind, n + 1)
        /\ "sessions" \in Before(kind, n + 1) => "traces" \in Before(kind, n + 1)
    <2>1. CASE n = 1
      BY <1>4, <2>1 DEF Before
    <2>2. CASE n = 2
      BY <1>4, <2>2 DEF Before
    <2>3. CASE n = 3
      BY <1>4, <2>3 DEF Before
    <2> QED BY <1>1, <2>1, <2>2, <2>3
  <1> QED BY <1>2, <1>3, <1>5 DEF InOrder

\* What Post and PostRaises do to the tables an ingest has filled.
LEMMA StoredStep ==
  ASSUME TInv, IngestFit, FilledInOrder, NEW t \in Threads, pc[t] = "post",
         Executed(t, Statements(job[t].kind)[k[t]])
  PROVE  /\ \A i \in 1..MaxRequests : i # job[t].id => Filled'[i] = Filled[i]
         /\ job[t].kind \notin {"ingest", "sessionless"} => Filled' = Filled
         /\ job[t].kind \in {"ingest", "sessionless"} =>
              Filled'[job[t].id] = Before(job[t].kind, k[t] + 1)
         /\ \A i \in 1..MaxRequests : InOrder(Filled'[i])
  <1>1. /\ job[t] \in Jobs /\ job[t].id \in 1..MaxRequests
        /\ k[t] \in 1..Len(Statements(job[t].kind))
    <2>1. job[t] \in Jobs /\ k[t] \in 1..3 /\ k[t] <= Len(Statements(job[t].kind))
      BY DEF TInv, JobsFit, TypeOK
    <2>2. job[t].kind \in Kinds /\ job[t].id \in 1..MaxRequests
      BY <2>1 DEF Jobs
    <2> QED BY <2>1, <2>2, StatementsLen
  <1>2. job[t].kind \notin {"ingest", "sessionless"} => Filled' = Filled
    BY DEF Executed, Filled
  <1>3. ASSUME job[t].kind \in {"ingest", "sessionless"}
        PROVE  /\ \A i \in 1..MaxRequests : i # job[t].id => Filled'[i] = Filled[i]
               /\ Filled'[job[t].id] = Before(job[t].kind, k[t] + 1)
    <2>1. PICK tab : tab = Statements(job[t].kind)[k[t]]
      OBVIOUS
    <2>2. stored' = [stored EXCEPT ![job[t].id][url] = @ \cup {tab}] /\ url \in Dbs
      BY <1>3, <2>1 DEF Executed, TInv, TypeOK
    <2>3. \A i \in 1..MaxRequests, d \in Dbs :
            stored'[i][d] = IF i = job[t].id /\ d = url THEN stored[i][d] \cup {tab}
                                                        ELSE stored[i][d]
      BY <1>1, <2>2 DEF TInv, TypeOK
    <2>4. \A i \in 1..MaxRequests : i # job[t].id => Filled'[i] = Filled[i]
      <3> SUFFICES ASSUME NEW i \in 1..MaxRequests, i # job[t].id PROVE Filled'[i] = Filled[i]
        OBVIOUS
      <3>1. \A d \in Dbs : stored'[i][d] = stored[i][d]
        BY <2>3
      <3>2. UNION {stored'[i][d] : d \in Dbs} = UNION {stored[i][d] : d \in Dbs}
        BY <3>1
      <3> QED BY <3>2 DEF Filled
    <2>5. Filled'[job[t].id] = Filled[job[t].id] \cup {tab}
      <3>1. \A x : x \in Filled'[job[t].id] <=> \E d \in Dbs : x \in stored'[job[t].id][d]
        BY <1>1 DEF Filled
      <3>2. \A x : x \in Filled[job[t].id] <=> \E d \in Dbs : x \in stored[job[t].id][d]
        BY <1>1 DEF Filled
      <3>3. \A x : x \in Filled'[job[t].id] <=> x \in Filled[job[t].id] \/ x = tab
        <4>1. \A d \in Dbs \ {url} : stored'[job[t].id][d] = stored[job[t].id][d]
          BY <1>1, <2>3
        <4>2. stored'[job[t].id][url] = stored[job[t].id][url] \cup {tab}
          BY <1>1, <2>2, <2>3
        <4> QED BY <2>2, <3>1, <3>2, <4>1, <4>2
      <3> QED BY <3>3
    <2>6. Filled[job[t].id] = Before(job[t].kind, k[t])
      BY <1>3 DEF IngestFit
    <2> QED BY <1>1, <1>3, <2>1, <2>4, <2>5, <2>6, IngestStatements
  <1>4. ASSUME NEW i \in 1..MaxRequests PROVE InOrder(Filled'[i])
    <2>1. CASE job[t].kind \in {"ingest", "sessionless"} /\ i = job[t].id
      BY <1>1, <1>3, <2>1, IngestStatements
    <2>2. CASE ~(job[t].kind \in {"ingest", "sessionless"} /\ i = job[t].id)
      BY <1>2, <1>3, <2>2 DEF FilledInOrder
    <2> QED BY <2>1, <2>2
  <1> QED BY <1>2, <1>3, <1>4

\* A thread moves on with its request, and nothing is stored.
LEMMA QuietIngest ==
  ASSUME TInv, IngestFit, FilledInOrder, NEW t \in Threads, NEW next,
         pc' = [pc EXCEPT ![t] = next], Filled' = Filled, requests' = requests,
         pc[t] # "idle",
         \A s \in Threads \ {t} : job'[s] = job[s] /\ k'[s] = k[s],
         job'[t].id = job[t].id /\ job'[t].kind = job[t].kind /\ k'[t] = k[t],
         next \in {"set", "post"} => pc[t] \in {"save", "set"},
         next = "save" => job[t].kind = "create",
         next = "reply" => job[t].kind = "silent"
  PROVE  IngestFit' /\ FilledInOrder'
  <1>1. \A s \in Threads : /\ pc'[s] = (IF s = t THEN next ELSE pc[s])
                           /\ job'[s].id = job[s].id /\ job'[s].kind = job[s].kind /\ k'[s] = k[s]
    BY DEF TInv, TypeOK
  <1>2. IngestFit'
    BY <1>1 DEF IngestFit
  <1>3. FilledInOrder'
    BY <1>1 DEF FilledInOrder
  <1> QED BY <1>2, <1>3

\* Every step keeps what ingests have stored in order.
LEMMA StepIngest ==
  ASSUME TInv, IngestFit, FilledInOrder, NEW t \in Threads, Step(t)
  PROVE  IngestFit' /\ FilledInOrder'
  <1>1. CASE Arrives(t)
    <2>1. PICK kind \in Kinds, db \in Dbs \cup {None}, user \in Users \cup {None},
               next \in {"save", "post", "insert", "ensure"} :
            /\ Accept(t, kind, db, user, next)
            /\ next = "post" => kind = "unscoped"
      BY <1>1, ArrivesAccept
    <2>2. PICK rec : rec = [kind |-> kind, id |-> requests + 1, db |-> db, user |-> user]
      OBVIOUS
    <2>3. /\ pc[t] = "idle" /\ requests' = requests + 1 /\ Filled' = Filled
          /\ requests \in Nat /\ requests + 1 \in 1..MaxRequests
      BY <2>1, BackendAssumption DEF Accept, histVars, logVars, TInv, TypeOK, Filled
    <2>4. /\ job'[t] = rec /\ rec.kind = kind /\ rec.id = requests + 1
          /\ pc'[t] = next /\ k'[t] = 1
          /\ \A s \in Threads \ {t} : job'[s] = job[s] /\ pc'[s] = pc[s] /\ k'[s] = k[s]
      BY <2>1, <2>2 DEF Accept, Go, TInv, TypeOK
    <2>5. \A s \in Threads : pc[s] # "idle" => job[s].id \in 1..MaxRequests /\ job[s].id <= requests
      BY DEF TInv, TypeOK, JobsFit, IngestFit, Jobs
    <2>6. Filled[requests + 1] = {}
      BY <2>3 DEF IngestFit
    <2>7. \A i \in 1..MaxRequests : i > requests' => Filled'[i] = {}
      BY <2>3 DEF IngestFit
    <2>8. \A s \in Threads : pc'[s] # "idle" => job'[s].id <= requests'
      BY <2>3, <2>4, <2>5
    <2>9. \A r, s \in Threads : r # s /\ pc'[r] # "idle" /\ pc'[s] # "idle" => job'[r].id # job'[s].id
      BY <2>3, <2>4, <2>5 DEF IngestFit
    <2>10. \A s \in Threads :
             pc'[s] \in {"save", "set", "post"} /\ job'[s].kind \in {"ingest", "sessionless"} =>
               Filled'[job'[s].id] = Before(job'[s].kind, k'[s])
      <3> TAKE s \in Threads
      <3>1. CASE s = t
        <4>1. Before(kind, 1) = {}
          BY DEF Before
        <4> QED BY <2>3, <2>4, <2>6, <3>1, <4>1
      <3>2. CASE s # t
        BY <2>3, <2>4, <3>2 DEF IngestFit
      <3> QED BY <3>1, <3>2
    <2>11. IngestFit'
      BY <2>7, <2>8, <2>9, <2>10 DEF IngestFit
    <2>12. FilledInOrder'
      BY <2>3, <2>4 DEF FilledInOrder
    <2> QED BY <2>11, <2>12
  <1>2. CASE SaveUrl(t)
    BY <1>2, QuietIngest DEF SaveUrl, Go, logVars, Filled
  <1>3. CASE SetUrl(t)
    <2>1. Filled' = Filled
      BY <1>3 DEF SetUrl, histVars, logVars, Filled
    <2> QED BY <1>3, <2>1, QuietIngest DEF SetUrl, Go
  <1>4. CASE Post(t)
    <2>1. /\ pc[t] = "post" /\ Executed(t, Statements(job[t].kind)[k[t]])
          /\ requests' = requests /\ job' = job
      BY <1>4 DEF Post
    <2>2. PICK n : n = Len(Statements(job[t].kind))
      OBVIOUS
    <2>3. /\ job[t] \in Jobs /\ job[t].id \in 1..MaxRequests /\ k[t] \in 1..n /\ n \in Nat
          /\ job[t].kind \in Kinds
      BY <2>1, <2>2, StatementsLen DEF TInv, JobsFit, TypeOK, Jobs
    <2>4. /\ pc'[t] = (IF k[t] = n THEN After(job[t].kind) ELSE "post")
          /\ k'[t] = (IF k[t] = n THEN 1 ELSE k[t] + 1)
          /\ \A s \in Threads \ {t} : pc'[s] = pc[s] /\ k'[s] = k[s]
      BY <1>4, <2>2 DEF Post, Go, TInv, TypeOK
    <2>5. /\ \A i \in 1..MaxRequests : i # job[t].id => Filled'[i] = Filled[i]
          /\ job[t].kind \notin {"ingest", "sessionless"} => Filled' = Filled
          /\ job[t].kind \in {"ingest", "sessionless"} =>
               Filled'[job[t].id] = Before(job[t].kind, k[t] + 1)
          /\ \A i \in 1..MaxRequests : InOrder(Filled'[i])
      BY <2>1, StoredStep
    <2>6. pc'[t] \in {"post", "reply", "restore", "idle"} /\ (pc'[t] = "post" => k[t] # n)
      BY <2>4 DEF After
    <2>7. job[t].id <= requests /\ \A s \in Threads : pc[s] # "idle" => job[s].id \in 1..MaxRequests
      BY <2>1 DEF IngestFit, TInv, JobsFit, TypeOK, Jobs
    <2>8. \A i \in 1..MaxRequests : i > requests' => Filled'[i] = {}
      BY <2>1, <2>3, <2>5, <2>7 DEF IngestFit, TInv, TypeOK
    <2>9. \A s \in Threads : pc'[s] # "idle" => job'[s].id <= requests'
      BY <2>1, <2>4, <2>7 DEF IngestFit
    <2>10. \A r, s \in Threads : r # s /\ pc'[r] # "idle" /\ pc'[s] # "idle" => job'[r].id # job'[s].id
      BY <2>1, <2>4 DEF IngestFit
    <2>11. \A s \in Threads \ {t} : pc[s] # "idle" => Filled'[job[s].id] = Filled[job[s].id]
      BY <2>1, <2>5, <2>7 DEF IngestFit
    <2>12. \A s \in Threads :
             pc'[s] \in {"save", "set", "post"} /\ job'[s].kind \in {"ingest", "sessionless"} =>
               Filled'[job'[s].id] = Before(job'[s].kind, k'[s])
      <3> TAKE s \in Threads
      <3>1. CASE s = t
        BY <2>1, <2>4, <2>5, <2>6, <3>1
      <3>2. CASE s # t
        BY <2>1, <2>4, <2>11, <3>2 DEF IngestFit
      <3> QED BY <3>1, <3>2
    <2>13. IngestFit'
      BY <2>8, <2>9, <2>10, <2>12 DEF IngestFit
    <2>14. \A s \in Threads :
             pc'[s] = "reply" /\ job'[s].kind \in {"ingest", "sessionless"} =>
               Filled'[job'[s].id] = ToSet(Statements(job'[s].kind))
      <3> TAKE s \in Threads
      <3>1. CASE s = t
        <4>1. pc'[t] = "reply" => k[t] = n
          BY <2>4
        <4>2. job[t].kind \in {"ingest", "sessionless"} =>
                Before(job[t].kind, n + 1) = ToSet(Statements(job[t].kind))
          BY <2>2, <2>3, IngestStatements
        <4> QED BY <2>1, <2>5, <3>1, <4>1, <4>2
      <3>2. CASE s # t
        BY <2>1, <2>4, <2>11, <3>2 DEF FilledInOrder
      <3> QED BY <3>1, <3>2
    <2>15. FilledInOrder'
      BY <2>5, <2>14 DEF FilledInOrder
    <2> QED BY <2>13, <2>15
  <1>5. CASE PostRaises(t)
    <2>1. /\ pc[t] = "post" /\ requests' = requests /\ job' = job /\ k' = k
          /\ \/ Filled' = Filled
             \/ Executed(t, Statements(job[t].kind)[k[t]])
      BY <1>5 DEF PostRaises, logVars, Filled
    <2>2. pc'[t] \in {"idle", "restore"} /\ \A s \in Threads \ {t} : pc'[s] = pc[s]
      BY <1>5 DEF PostRaises, Go, TInv, TypeOK
    <2>3. /\ \A i \in 1..MaxRequests : i # job[t].id => Filled'[i] = Filled[i]
          /\ \A i \in 1..MaxRequests : InOrder(Filled'[i])
      BY <2>1, StoredStep DEF FilledInOrder
    <2>4. job[t].id <= requests /\ \A s \in Threads : pc[s] # "idle" => job[s].id \in 1..MaxRequests
      BY <2>1 DEF IngestFit, TInv, JobsFit, TypeOK, Jobs
    <2>5. \A s \in Threads \ {t} : pc[s] # "idle" => Filled'[job[s].id] = Filled[job[s].id]
      BY <2>1, <2>3, <2>4 DEF IngestFit
    <2>6. \A i \in 1..MaxRequests : i > requests' => Filled'[i] = {}
      BY <2>1, <2>3, <2>4 DEF IngestFit, TInv, TypeOK
    <2>7. IngestFit'
      BY <2>1, <2>2, <2>5, <2>6 DEF IngestFit
    <2>8. FilledInOrder'
      BY <2>1, <2>2, <2>3, <2>5 DEF FilledInOrder
    <2> QED BY <2>7, <2>8
  <1>6. CASE Reply(t) \/ Restore(t)
    <2>1. /\ pc[t] \in {"reply", "restore"} /\ Filled' = Filled /\ requests' = requests
          /\ job' = job /\ k' = k
          /\ \E next \in {"restore", "key", "idle"} : pc' = [pc EXCEPT ![t] = next]
      BY <1>6 DEF Reply, Restore, Go, histVars, logVars, Filled
    <2> QED BY <2>1, QuietIngest
  <1>7. CASE InsertProject(t) \/ CreateDatabase(t) \/ CreateKey(t) \/ EnsureAgents(t) \/ MetaRaises(t)
    <2>1. /\ pc[t] \in {"insert", "database", "key", "ensure"}
          /\ Filled' = Filled /\ requests' = requests /\ k' = k
          /\ \E next \in {"database", "save", "idle"} :
               /\ pc' = [pc EXCEPT ![t] = next]
               /\ next = "save" => pc[t] = "database"
      BY <1>7 DEF InsertProject, CreateDatabase, CreateKey, EnsureAgents, MetaRaises, Go, logVars, Filled
    <2>2. job[t] \in Jobs /\ (pc[t] = "database" => job[t].kind = "create")
      BY <2>1 DEF TInv, JobsFit
    <2>3. /\ \A s \in Threads \ {t} : job'[s] = job[s]
          /\ job'[t].id = job[t].id /\ job'[t].kind = job[t].kind
      <3>1. CASE job' = job
        BY <3>1
      <3>2. CASE ProjectRow(t)
        BY <2>2, <3>2, ProjectRowTypes DEF TInv
      <3> QED BY <1>7, <3>1, <3>2 DEF InsertProject, CreateDatabase, CreateKey, EnsureAgents,
        MetaRaises, DatabaseMade, KeyRows
    <2> QED BY <2>1, <2>2, <2>3, QuietIngest
  <1> QED BY <1>1, <1>2, <1>3, <1>4, <1>5, <1>6, <1>7 DEF Step, Arrives

\* Unless blocks have overlapped, what an ingest has stored is in one database,
\* and while its thread is at work that is the database of its project.
HomeFit ==
  /\ \A i \in 1..MaxRequests : Together(i)
  /\ \A t \in Threads :
       pc[t] # "idle" /\ job[t].kind \in {"ingest", "sessionless"} =>
         \A d \in Dbs \ {job[t].db} : stored[job[t].id][d] = {}

\* A thread moves on with its request, and nothing is stored.
LEMMA QuietHome ==
  ASSUME HomeFit, NEW t \in Threads, stored' = stored, pc[t] # "idle",
         \A s \in Threads \ {t} : job'[s] = job[s] /\ pc'[s] = pc[s],
         job'[t].id = job[t].id /\ job'[t].kind = job[t].kind,
         job[t].kind = "create" \/ job'[t].db = job[t].db
  PROVE  HomeFit'
  <1>1. \A i \in 1..MaxRequests : Together(i)'
    BY DEF HomeFit, Together
  <1>2. ASSUME NEW s \in Threads, pc'[s] # "idle", job'[s].kind \in {"ingest", "sessionless"}
        PROVE  \A d \in Dbs \ {job'[s].db} : stored'[job'[s].id][d] = {}
    <2>1. job'[s].id = job[s].id /\ job'[s].kind = job[s].kind /\ job'[s].db = job[s].db /\ pc[s] # "idle"
      BY <1>2
    <2> QED BY <1>2, <2>1 DEF HomeFit
  <1> QED BY <1>1, <1>2 DEF HomeFit

\* A statement stores in the database of its request.
LEMMA PostHome ==
  ASSUME IInv, IngestFit, HomeFit, NEW t \in Threads, Post(t) \/ PostRaises(t), ~overlap'
  PROVE  HomeFit'
  <1>1. /\ pc[t] = "post" /\ job' = job /\ job[t] \in Jobs
        /\ \A s \in Threads \ {t} : pc'[s] = pc[s]
    BY DEF Post, PostRaises, Go, IInv, TInv, TypeOK, JobsFit
  <1>2. CASE stored' = stored
    BY <1>1, <1>2, QuietHome
  <1>3. CASE stored' # stored
    <2>1. Executed(t, Statements(job[t].kind)[k[t]])
      BY <1>3 DEF Post, PostRaises, logVars
    <2>2. PICK tab : /\ stored' = [stored EXCEPT ![job[t].id][url] = @ \cup {tab}]
                     /\ job[t].kind \in {"ingest", "sessionless"}
      BY <1>3, <2>1 DEF Executed
    <2>3. url = job[t].db /\ url \in Dbs /\ job[t].id \in 1..MaxRequests
      BY <1>1, PostAtHome DEF IInv, TInv, TypeOK, Jobs
    <2>4. \A i \in 1..MaxRequests, d \in Dbs :
            i # job[t].id \/ d # url => stored'[i][d] = stored[i][d]
      BY <2>2, <2>3 DEF IInv, TInv, TypeOK
    <2>5. \A d \in Dbs \ {url} : stored'[job[t].id][d] = {}
      BY <1>1, <2>2, <2>3, <2>4 DEF HomeFit
    <2>6. \A i \in 1..MaxRequests : Together(i)'
      <3> SUFFICES ASSUME NEW i \in 1..MaxRequests PROVE Together(i)'
        OBVIOUS
      <3>1. CASE i = job[t].id
        BY <2>3, <2>5, <3>1 DEF Together
      <3>2. CASE i # job[t].id
        BY <2>4, <3>2 DEF HomeFit, Together
      <3> QED BY <3>1, <3>2
    <2>7. ASSUME NEW s \in Threads, pc'[s] # "idle", job'[s].kind \in {"ingest", "sessionless"}
          PROVE  \A d \in Dbs \ {job'[s].db} : stored'[job'[s].id][d] = {}
      <3>1. CASE s = t
        BY <1>1, <2>3, <2>5, <3>1
      <3>2. CASE s # t
        <4>1. /\ pc[s] # "idle" /\ job'[s] = job[s] /\ job[s].id # job[t].id
              /\ job[s].id \in 1..MaxRequests
          BY <1>1, <2>7, <3>2 DEF IngestFit, IInv, TInv, TypeOK, JobsFit, Jobs
        <4> QED BY <2>4, <2>7, <4>1 DEF HomeFit
      <3> QED BY <3>1, <3>2
    <2> QED BY <2>6, <2>7 DEF HomeFit
  <1> QED BY <1>2, <1>3

\* Every step that overlaps nothing keeps the rows of an ingest together.
LEMMA StepHome ==
  ASSUME IInv, IngestFit, overlap \/ HomeFit, NEW t \in Threads, Step(t)
  PROVE  (overlap \/ HomeFit)'
  <1>1. CASE overlap'
    BY <1>1
  <1>2. CASE ~overlap'
    <2>1. HomeFit
      BY <1>2 DEF Step, Ingest, ProjectQuery, UnscopedQuery, CreateProject, Login, Accept,
        SaveUrl, SetUrl, Post, PostRaises, Reply, Restore, InsertProject, CreateDatabase,
        CreateKey, EnsureAgents, MetaRaises, histVars
    <2>2. CASE Arrives(t)
      <3>1. PICK kind \in Kinds, db \in Dbs \cup {None}, user \in Users \cup {None},
                 next \in {"save", "post", "insert", "ensure"} : Accept(t, kind, db, user, next)
        BY <2>2, ArrivesAccept DEF IInv
      <3>2. /\ stored' = stored /\ requests + 1 \in 1..MaxRequests /\ requests \in Nat
            /\ job'[t].id = requests + 1
            /\ \A s \in Threads \ {t} : job'[s] = job[s] /\ pc'[s] = pc[s]
        BY <3>1, BackendAssumption DEF Accept, Go, histVars, logVars, IInv, TInv, TypeOK
      <3>3. \A d \in Dbs : stored[requests + 1][d] = {}
        <4>1. Filled[requests + 1] = {}
          BY <3>2 DEF IngestFit
        <4>2. Filled[requests + 1] = UNION {stored[requests + 1][d] : d \in Dbs}
          BY <3>2 DEF Filled
        <4> QED BY <4>1, <4>2
      <3>4. \A i \in 1..MaxRequests : Together(i)'
        BY <2>1, <3>2 DEF HomeFit, Together
      <3>5. ASSUME NEW s \in Threads, pc'[s] # "idle", job'[s].kind \in {"ingest", "sessionless"}
            PROVE  \A d \in Dbs \ {job'[s].db} : stored'[job'[s].id][d] = {}
        <4>1. CASE s = t
          BY <3>2, <3>3, <4>1
        <4>2. CASE s # t
          BY <2>1, <3>2, <3>5, <4>2 DEF HomeFit
        <4> QED BY <4>1, <4>2
      <3> QED BY <3>4, <3>5 DEF HomeFit
    <2>3. CASE Post(t) \/ PostRaises(t)
      BY <1>2, <2>1, <2>3, PostHome
    <2>4. CASE SaveUrl(t) \/ SetUrl(t) \/ Reply(t) \/ Restore(t)
      <3>1. /\ pc[t] # "idle" /\ stored' = stored /\ job' = job
            /\ \A s \in Threads \ {t} : pc'[s] = pc[s]
        BY <2>4 DEF SaveUrl, SetUrl, Reply, Restore, Go, histVars, logVars, IInv, TInv, TypeOK
      <3> QED BY <2>1, <3>1, QuietHome
    <2>5. CASE InsertProject(t) \/ CreateDatabase(t) \/ CreateKey(t) \/ EnsureAgents(t) \/ MetaRaises(t)
      <3>1. /\ pc[t] \in {"insert", "database", "key", "ensure"} /\ stored' = stored
            /\ \A s \in Threads \ {t} : pc'[s] = pc[s]
        BY <2>5 DEF InsertProject, CreateDatabase, CreateKey, EnsureAgents, MetaRaises, Go,
          logVars, IInv, TInv, TypeOK
      <3>2. \/ job' = job
            \/ pc[t] = "insert" /\ ProjectRow(t)
        BY <2>5 DEF InsertProject, CreateDatabase, CreateKey, EnsureAgents, MetaRaises,
          DatabaseMade, KeyRows
      <3>3. job[t] \in Jobs /\ (pc[t] = "insert" => job[t].kind = "create")
        BY <3>1 DEF IInv, TInv, JobsFit
      <3>4. /\ \A s \in Threads \ {t} : job'[s] = job[s]
            /\ job'[t].id = job[t].id /\ job'[t].kind = job[t].kind
            /\ job[t].kind = "create" \/ job'[t].db = job[t].db
        BY <3>2, <3>3, ProjectRowTypes DEF IInv, TInv
      <3> QED BY <2>1, <3>1, <3>4, QuietHome
    <2> QED BY <2>2, <2>3, <2>4, <2>5 DEF Step, Arrives
  <1> QED BY <1>1, <1>2

-----------------------------------------------------------------------------
(* The tables of a project *)

\* A thread is at work on the tables of p.
Making(p) ==
  \E t \in Threads : /\ pc[t] \in {"database", "save", "set", "post"}
                     /\ job[t].kind = "create" /\ job[t].db = p

\* A project that has a row or a key has its tables, or its creator is at work;
\* how far the creator is.
SetUp ==
  /\ DefaultDb \in databases
  /\ \A p \in Projects : p \in keyed \/ owner[p] # None => tables[p] = Tables \/ Making(p)
  /\ \A t \in Threads : job[t].kind = "create" =>
       /\ pc[t] \in {"save", "set", "post"} => job[t].db \in databases
       /\ pc[t] = "post" => Before("create", k[t]) \subseteq tables[job[t].db]
       /\ (pc[t] = "restore" /\ ok[t]) \/ pc[t] = "key" => tables[job[t].db] = Tables

Clean == ~overlap /\ ~(faults > 0)

SetUpInv == Clean => SetUp

\* A step that moves thread t outside the creation of tables.
LEMMA QuietSetUp ==
  ASSUME TInv, SetUp, NEW t \in Threads, NEW next,
         pc' = [pc EXCEPT ![t] = next], tables' = tables, databases \subseteq databases',
         \A s \in Threads \ {t} : job'[s] = job[s] /\ k'[s] = k[s] /\ ok'[s] = ok[s],
         \A p \in Projects :
           \/ p \in keyed' \/ owner'[p] # None => p \in keyed \/ owner[p] # None
           \/ tables[p] = Tables
           \/ next \in {"database", "save", "set", "post"} /\ job'[t].kind = "create" /\ job'[t].db = p,
         \A p \in Projects :
           pc[t] \in {"database", "save", "set", "post"} /\ job[t].kind = "create" /\ job[t].db = p =>
             next \in {"database", "save", "set", "post"} /\ job'[t].kind = "create" /\ job'[t].db = p,
         job'[t].kind = "create" =>
           /\ next \in {"save", "set", "post"} => job'[t].db \in databases'
           /\ next = "post" => k'[t] = 1
           /\ (next = "restore" /\ ok'[t]) \/ next = "key" => tables[job'[t].db] = Tables
  PROVE  SetUp'
  <1>1. \A s \in Threads : pc'[s] = (IF s = t THEN next ELSE pc[s])
    BY DEF TInv, TypeOK
  <1>2. \A p \in Projects : Making(p) => Making(p)'
    <2> SUFFICES ASSUME NEW p \in Projects, Making(p) PROVE Making(p)'
      OBVIOUS
    <2>1. PICK s \in Threads : /\ pc[s] \in {"database", "save", "set", "post"}
                               /\ job[s].kind = "create" /\ job[s].db = p
      BY DEF Making
    <2>2. /\ pc'[s] \in {"database", "save", "set", "post"}
          /\ job'[s].kind = "create" /\ job'[s].db = p
      BY <1>1, <2>1
    <2> QED BY <2>2 DEF Making
  <1>3. ASSUME NEW p \in Projects, p \in keyed' \/ owner'[p] # None
        PROVE  tables'[p] = Tables \/ Making(p)'
    <2>1. CASE p \in keyed \/ owner[p] # None
      BY <1>2, <2>1 DEF SetUp
    <2>2. CASE next \in {"database", "save", "set", "post"} /\ job'[t].kind = "create" /\ job'[t].db = p
      BY <1>1, <2>2 DEF Making
    <2> QED BY <1>3, <2>1, <2>2
  <1>4. ASSUME NEW s \in Threads, job'[s].kind = "create"
        PROVE  /\ pc'[s] \in {"save", "set", "post"} => job'[s].db \in databases'
               /\ pc'[s] = "post" => Before("create", k'[s]) \subseteq tables'[job'[s].db]
               /\ (pc'[s] = "restore" /\ ok'[s]) \/ pc'[s] = "key" => tables'[job'[s].db] = Tables
    <2>1. CASE s = t
      <3>1. Before("create", 1) = {}
        BY DEF Before
      <3> QED BY <1>1, <1>4, <2>1, <3>1
    <2>2. CASE s # t
      BY <1>1, <1>4, <2>2 DEF SetUp
    <2> QED BY <2>1, <2>2
  <1> QED BY <1>3, <1>4 DEF SetUp

\* Inside project_database a statement of create_project works on the project's
\* own database, which is there, and adds a table to it.
LEMMA PostSetUp ==
  ASSUME IInv, SetUp, NEW t \in Threads, Post(t), ~overlap'
  PROVE  SetUp'
  <1>1. /\ pc[t] = "post" /\ ~overlap /\ Inside \subseteq {t}
        /\ Executed(t, Statements(job[t].kind)[k[t]])
        /\ UNCHANGED <<databases, owner, keyed, job, ok>>
    BY DEF Post, metaVars
  <1>2. PICK n : n = Len(Statements(job[t].kind))
    OBVIOUS
  <1>3. /\ job[t] \in Jobs /\ job[t].kind \in Kinds /\ k[t] \in 1..n /\ n \in Nat
        /\ job[t].db \in Dbs
    <2>1. job[t] \in Jobs /\ (job[t].db \in Projects \/ job[t].kind = "unscoped")
      BY <1>1 DEF IInv, TInv, JobsFit
    <2>2. job[t].kind = "unscoped" => job[t].db = DefaultDb
      BY <1>1 DEF IInv, TInv, JobsFit
    <2>3. k[t] \in 1..3 /\ k[t] <= Len(Statements(job[t].kind)) /\ job[t].kind \in Kinds
      BY <1>1, <2>1 DEF IInv, TInv, JobsFit, TypeOK, Jobs
    <2> QED BY <1>2, <2>1, <2>2, <2>3, StatementsLen DEF Dbs
  <1>4. /\ pc'[t] = (IF k[t] = n THEN After(job[t].kind) ELSE "post")
        /\ k'[t] = (IF k[t] = n THEN 1 ELSE k[t] + 1)
        /\ \A s \in Threads \ {t} : pc'[s] = pc[s] /\ k'[s] = k[s]
    BY <1>2 DEF Post, Go, IInv, TInv, TypeOK
  <1>5. \A d \in Dbs : tables[d] \subseteq tables'[d] /\ tables'[d] \subseteq Tables
    <2>1. TInv'
      BY StepTInv DEF IInv, Step
    <2> QED BY <1>1, <2>1 DEF Executed, IInv, TInv, TypeOK
  <1>6. CASE job[t].kind # "create"
    <2>1. pc'[t] \in {"post", "reply", "idle"} /\ tables' = tables
      BY <1>1, <1>4, <1>6 DEF After, Executed
    <2>2. \A p \in Projects : Making(p) => Making(p)'
      BY <1>1, <1>4, <1>6 DEF Making
    <2>3. \A s \in Threads : job'[s].kind = "create" => s # t /\ job[s].kind = "create"
      BY <1>1, <1>6
    <2> QED BY <1>1, <1>4, <2>1, <2>2, <2>3 DEF SetUp
  <1>7. CASE job[t].kind = "create"
    <2>1. t \in Inside /\ url = job[t].db /\ job[t].db \in Projects
      <3>1. t \in Inside
        BY <1>1, <1>7 DEF Inside
      <3> QED BY <1>1, <1>7, <3>1 DEF IInv, UrlOwned, TInv, JobsFit
    <2>2. tables'[job[t].db] = tables[job[t].db] \cup {Statements("create")[k[t]]}
      BY <1>1, <1>3, <1>7, <2>1 DEF Executed, IInv, TInv, TypeOK
    <2>3. Before("create", k[t]) \cup {Statements("create")[k[t]]} \subseteq tables'[job[t].db]
      BY <1>1, <1>3, <1>5, <1>7, <2>2 DEF SetUp
    <2>4. n = 3 /\ Before("create", 4) = Tables
      <3>1. n = 3 /\ Statements("create") = <<"sessions", "traces", "observations">>
        BY <1>2, <1>7 DEF Statements
      <3> QED BY <3>1 DEF Before, Tables
    <2>5. Before("create", k[t] + 1) \subseteq tables'[job[t].db]
      <3>1. Before("create", k[t] + 1) = Before("create", k[t]) \cup {Statements("create")[k[t]]}
        BY <1>3, <2>4 DEF Before
      <3> QED BY <2>3, <3>1
    <2>6. k[t] = n => tables'[job[t].db] = Tables
      <3>1. n + 1 = 4
        BY <2>4
      <3>2. k[t] = n => Tables \subseteq tables'[job[t].db]
        BY <2>4, <2>5, <3>1
      <3>3. tables'[job[t].db] \subseteq Tables
        BY <1>3, <1>5
      <3> QED BY <3>2, <3>3
    <2>7. pc'[t] = (IF k[t] = n THEN "restore" ELSE "post")
      BY <1>4, <1>7 DEF After
    <2>8. \A s \in Threads \ {t} : pc[s] \notin {"post", "set", "restore"} \/ job[s].kind = "unscoped"
      BY <1>1 DEF Inside
    <2>9. ASSUME NEW p \in Projects, p \in keyed' \/ owner'[p] # None
          PROVE  tables'[p] = Tables \/ Making(p)'
      <3>1. CASE tables[p] = Tables
        <4>1. Tables \subseteq tables'[p] /\ tables'[p] \subseteq Tables
          BY <1>5, <3>1 DEF Dbs
        <4> QED BY <4>1
      <3>2. CASE Making(p)
        <4>1. PICK s \in Threads : /\ pc[s] \in {"database", "save", "set", "post"}
                                   /\ job[s].kind = "create" /\ job[s].db = p
          BY <3>2 DEF Making
        <4>2. CASE s # t
          BY <1>1, <1>4, <4>1, <4>2 DEF Making
        <4>3. CASE s = t /\ k[t] # n
          BY <1>1, <2>7, <4>1, <4>3 DEF Making
        <4>4. CASE s = t /\ k[t] = n
          BY <2>6, <4>1, <4>4
        <4> QED BY <4>2, <4>3, <4>4
      <3> QED BY <1>1, <2>9, <3>1, <3>2 DEF SetUp
    <2>10. ASSUME NEW s \in Threads, job'[s].kind = "create"
           PROVE  /\ pc'[s] \in {"save", "set", "post"} => job'[s].db \in databases'
                  /\ pc'[s] = "post" => Before("create", k'[s]) \subseteq tables'[job'[s].db]
                  /\ (pc'[s] = "restore" /\ ok'[s]) \/ pc'[s] = "key" => tables'[job'[s].db] = Tables
      <3>1. CASE s = t
        BY <1>1, <1>4, <1>7, <2>5, <2>6, <2>7, <3>1 DEF SetUp
      <3>2. CASE s # t
        <4>1. /\ pc'[s] = pc[s] /\ k'[s] = k[s] /\ job'[s] = job[s] /\ ok'[s] = ok[s]
              /\ pc[s] # "post" /\ pc[s] # "restore"
          BY <1>1, <1>4, <2>8, <2>10, <3>2
        <4>2. pc[s] = "key" => job[s].db \in Dbs
          BY DEF IInv, TInv, JobsFit, Dbs
        <4>3. pc[s] = "key" => tables[job[s].db] = Tables
          BY <2>10, <4>1 DEF SetUp
        <4> QED BY <1>1, <1>5, <2>10, <4>1, <4>2, <4>3 DEF SetUp
      <3> QED BY <3>1, <3>2
    <2> QED BY <1>1, <2>9, <2>10 DEF SetUp
  <1> QED BY <1>6, <1>7

\* Every step keeps the tables of projects complete, as long as nothing failed
\* and no request ran inside the with block of another.
LEMMA StepSetUp ==
  ASSUME IInv, SetUpInv, NEW t \in Threads, Step(t)
  PROVE  SetUpInv'
  <1> SUFFICES ASSUME Clean' PROVE SetUp'
    BY DEF SetUpInv
  <1>1. Clean /\ SetUp /\ TInv
    <2>1. overlap => overlap'
      BY DEF Step, Ingest, ProjectQuery, UnscopedQuery, CreateProject, Login, Accept, SaveUrl, SetUrl,
        Post, PostRaises, Reply, Restore, InsertProject, CreateDatabase, CreateKey, EnsureAgents,
        MetaRaises, histVars
    <2>2. faults > 0 => faults' > 0
      <3>1. faults' = faults \/ faults' = faults + 1
        BY DEF Step, Ingest, ProjectQuery, UnscopedQuery, CreateProject, Login, Accept, SaveUrl, SetUrl,
          Post, PostRaises, Reply, Restore, InsertProject, CreateDatabase, CreateKey, EnsureAgents,
          MetaRaises
      <3> QED BY <3>1, BackendAssumption DEF IInv, TInv, TypeOK
    <2> QED BY <2>1, <2>2 DEF Clean, SetUpInv, IInv
  <1>2. Inside = {} => url = DefaultDb /\ url \in databases
    BY <1>1 DEF IInv, UrlRestored, Clean, SetUp
  <1>3. ~(faults < MaxFaults /\ faults' = faults + 1)
    BY BackendAssumption DEF Clean, IInv, TInv, TypeOK
  <1>4. CASE Arrives(t)
    <2>1. PICK kind \in Kinds, db \in Dbs \cup {None}, user \in Users \cup {None},
               next \in {"save", "post", "insert", "ensure"} :
            /\ Accept(t, kind, db, user, next)
            /\ next = "post" => kind = "unscoped"
            /\ next = "save" => kind # "create"
      BY <1>1, <1>4, ArrivesAccept
    <2>2. /\ pc[t] = "idle" /\ pc' = [pc EXCEPT ![t] = next]
          /\ UNCHANGED <<tables, databases, owner, keyed>> /\ job'[t].kind = kind
          /\ \A s \in Threads \ {t} : job'[s] = job[s] /\ k'[s] = k[s] /\ ok'[s] = ok[s]
      BY <1>1, <2>1 DEF Accept, Go, metaVars, TInv, TypeOK
    <2> QED BY <1>1, <2>1, <2>2, QuietSetUp
  <1>5. CASE SaveUrl(t)
    BY <1>1, <1>5, QuietSetUp DEF SaveUrl, Go, metaVars, SetUp
  <1>6. CASE SetUrl(t)
    <2>1. pc[t] = "set" /\ k[t] = 1
      BY <1>1, <1>6 DEF SetUrl, TInv, JobsFit
    <2>2. UNCHANGED <<tables, databases, owner, keyed, job, k, ok>>
      BY <1>6 DEF SetUrl, metaVars
    <2>4. PICK next \in {"reply", "post"} : /\ pc' = [pc EXCEPT ![t] = next]
                                            /\ job[t].kind = "create" => next = "post"
      BY <1>6 DEF SetUrl, Go
    <2>3. job[t].kind = "create" => job[t].db \in databases
      BY <1>1, <2>1 DEF SetUp
    <2>5. \A p \in Projects :
            pc[t] \in {"database", "save", "set", "post"} /\ job[t].kind = "create" /\ job[t].db = p =>
              next \in {"database", "save", "set", "post"} /\ job'[t].kind = "create" /\ job'[t].db = p
      BY <2>2, <2>4
    <2>6. job'[t].kind = "create" =>
            /\ next \in {"save", "set", "post"} => job'[t].db \in databases'
            /\ next = "post" => k'[t] = 1
            /\ (next = "restore" /\ ok'[t]) \/ next = "key" => tables[job'[t].db] = Tables
      BY <2>1, <2>2, <2>3
    <2> QED BY <1>1, <2>2, <2>4, <2>5, <2>6, QuietSetUp
  <1>7. CASE Post(t)
    BY <1>1, <1>7, PostSetUp DEF Clean
  <1>8. CASE PostRaises(t)
    <2>1. /\ pc[t] = "post" /\ ~Accepted(t, Statements(job[t].kind)[k[t]]) /\ ~overlap
          /\ Inside \subseteq {t} /\ UNCHANGED <<tables, databases, owner, keyed, job, k>>
          /\ \A s \in Threads \ {t} : ok'[s] = ok[s]
          /\ ok'[t] = FALSE
          /\ \E next \in {"idle", "restore"} : pc' = [pc EXCEPT ![t] = next]
      BY <1>1, <1>3, <1>8 DEF PostRaises, Clean, Go, metaVars, TInv, TypeOK
    <2>2. job[t].kind # "create"
      <3> SUFFICES ASSUME job[t].kind = "create" PROVE FALSE
        OBVIOUS
      <3>1. t \in Inside
        BY <2>1 DEF Inside
      <3>2. url = job[t].db
        BY <2>1, <3>1 DEF IInv, UrlOwned
      <3>3. job[t].db \in databases
        BY <1>1, <2>1 DEF SetUp
      <3> QED BY <2>1, <3>2, <3>3 DEF Accepted
    <2> QED BY <1>1, <2>1, <2>2, QuietSetUp
  <1>9. CASE Reply(t)
    <2>1. /\ pc[t] = "reply" /\ UNCHANGED <<tables, databases, owner, keyed, job, k, ok>>
          /\ pc' = [pc EXCEPT ![t] = "restore"]
      BY <1>9 DEF Reply, Go, metaVars
    <2>2. job[t].kind # "create"
      BY <1>1, <2>1 DEF TInv, JobsFit
    <2> QED BY <1>1, <2>1, <2>2, QuietSetUp
  <1>10. CASE Restore(t)
    <2>1. pc[t] = "restore" /\ UNCHANGED <<tables, databases, owner, keyed, job, k, ok>>
      BY <1>10 DEF Restore, metaVars
    <2>3. PICK next \in {"key", "idle"} : /\ pc' = [pc EXCEPT ![t] = next]
                                          /\ next = "key" => ok[t] /\ job[t].kind = "create"
      BY <1>10 DEF Restore, Go
    <2>2. job[t].kind = "create" /\ ok[t] => tables[job[t].db] = Tables
      BY <1>1, <2>1 DEF SetUp
    <2>4. job'[t].kind = "create" =>
            /\ next \in {"save", "set", "post"} => job'[t].db \in databases'
            /\ next = "post" => k'[t] = 1
            /\ (next = "restore" /\ ok'[t]) \/ next = "key" => tables[job'[t].db] = Tables
      BY <2>1, <2>2, <2>3
    <2> QED BY <1>1, <2>1, <2>3, <2>4, QuietSetUp
  <1>11. CASE InsertProject(t)
    <2>1. /\ pc[t] = "insert" /\ ProjectRow(t) /\ pc' = [pc EXCEPT ![t] = "database"]
          /\ UNCHANGED <<tables, databases, keyed, k, ok>>
      BY <1>11 DEF InsertProject, ProjectRow, Go
    <2>2. job[t] \in Jobs /\ job[t].kind = "create"
      BY <1>1, <2>1 DEF TInv, JobsFit
    <2>3. job'[t].kind = "create" /\ \A s \in Threads \ {t} : job'[s] = job[s]
      BY <1>1, <2>1, <2>2, ProjectRowTypes DEF TInv
    <2>4. \A p \in Projects : owner'[p] # None => owner[p] # None \/ job'[t].db = p
      <3>1. PICK p \in Projects :
              owner' = [owner EXCEPT ![p] = job[t].user] /\ job' = [job EXCEPT ![t].db = p]
        BY <2>1 DEF ProjectRow
      <3>2. job'[t].db = p
        BY <1>1, <2>2, <3>1 DEF TInv, TypeOK, Jobs
      <3> QED BY <1>1, <3>1, <3>2 DEF TInv, TypeOK
    <2> QED BY <1>1, <2>1, <2>3, <2>4, QuietSetUp
  <1>12. CASE CreateDatabase(t)
    <2>1. /\ pc[t] = "database" /\ databases' = databases \cup {job[t].db}
          /\ pc' = [pc EXCEPT ![t] = "save"]
          /\ UNCHANGED <<tables, owner, keyed, job, k, ok>>
      BY <1>12 DEF CreateDatabase, DatabaseMade, Go
    <2> QED BY <1>1, <2>1, QuietSetUp
  <1>13. CASE CreateKey(t)
    <2>1. /\ pc[t] = "key" /\ keyed' = keyed \cup {job[t].db} /\ pc' = [pc EXCEPT ![t] = "idle"]
          /\ UNCHANGED <<tables, databases, owner, job, k, ok>>
      BY <1>13 DEF CreateKey, KeyRows, Go
    <2>2. tables[job[t].db] = Tables
      BY <1>1, <2>1 DEF SetUp, TInv, JobsFit
    <2> QED BY <1>1, <2>1, <2>2, QuietSetUp
  <1>14. CASE EnsureAgents(t)
    <2>1. /\ pc[t] = "ensure" /\ keyed' = keyed \cup Owned(job[t].user)
          /\ pc' = [pc EXCEPT ![t] = "idle"]
          /\ UNCHANGED <<tables, databases, owner, job, k, ok>>
      BY <1>14 DEF EnsureAgents, KeyRows, Go
    <2>2. \A p \in Owned(job[t].user) : p \in keyed \/ owner[p] # None \/ tables[p] = Tables
      <3>1. job[t].user \in Users
        BY <1>1, <2>1 DEF TInv, JobsFit
      <3> QED BY <3>1, BackendAssumption DEF Owned
    <2> QED BY <1>1, <2>1, <2>2, QuietSetUp
  <1>15. CASE MetaRaises(t)
    <2>1. Inside = {} /\ url \notin databases
      BY <1>3, <1>15 DEF MetaRaises, Clean
    <2> QED BY <1>2, <2>1
  <1> QED BY <1>4, <1>5, <1>6, <1>7, <1>8, <1>9, <1>10, <1>11, <1>12, <1>13, <1>14, <1>15
      DEF Step, Arrives

-----------------------------------------------------------------------------
\* No trace row without its observations, no session row without its traces,
\* also after a failure half way, and an ingest answers 200 when every table has
\* its rows.  That an ingest has filled the tables in this order no interleaving
\* of requests disturbs; that it has filled them in one database, its project's
\* when it answers, holds until a with block is entered while another is open.
THEOREM BackendIngestInOrder == Spec => []IngestInOrder
  <1>1. Init => IngestFit /\ FilledInOrder /\ HomeFit
    <2> SUFFICES ASSUME Init PROVE IngestFit /\ FilledInOrder /\ HomeFit
      OBVIOUS
    <2>1. \A i \in 1..MaxRequests, d \in Dbs : stored[i][d] = {}
      BY DEF Init
    <2>2. \A i \in 1..MaxRequests : Filled[i] = {}
      BY <2>1 DEF Filled
    <2>3. \A i \in 1..MaxRequests : Together(i)
      BY <2>1 DEF Together, Dbs
    <2>4. \A t \in Threads : pc[t] = "idle"
      BY DEF Init
    <2> QED BY <2>2, <2>3, <2>4 DEF IngestFit, FilledInOrder, HomeFit, InOrder
  <1>2. /\ IInv /\ IngestFit /\ FilledInOrder /\ (overlap \/ HomeFit)
        /\ [Next]_vars
        => IngestFit' /\ FilledInOrder' /\ (overlap \/ HomeFit)'
    <2> SUFFICES ASSUME IInv, IngestFit, FilledInOrder, overlap \/ HomeFit, [Next]_vars
                 PROVE  IngestFit' /\ FilledInOrder' /\ (overlap \/ HomeFit)'
      OBVIOUS
    <2>1. CASE Next
      BY <2>1, StepIngest, StepHome DEF Next, IInv
    <2>2. CASE UNCHANGED vars
      <3>1. stored' = stored /\ pc' = pc /\ job' = job /\ k' = k /\ requests' = requests
            /\ overlap' = overlap
        BY <2>2 DEF vars, threadVars, histVars, logVars
      <3>2. Filled' = Filled
        BY <3>1 DEF Filled
      <3> QED BY <3>1, <3>2 DEF IngestFit, FilledInOrder, HomeFit, Together
    <2> QED BY <2>1, <2>2
  <1>3. IInv /\ IngestFit /\ FilledInOrder /\ (overlap \/ HomeFit) => IngestInOrder
    <2> SUFFICES ASSUME IInv, FilledInOrder, overlap \/ HomeFit PROVE IngestInOrder
      OBVIOUS
    <2>1. \A i \in 1..MaxRequests : InOrder(Filled[i]) /\ (overlap \/ Together(i))
      BY DEF FilledInOrder, HomeFit
    <2>2. ASSUME NEW t \in Threads, pc[t] = "reply", job[t].kind \in {"ingest", "sessionless"}, ~overlap
          PROVE  stored[job[t].id][job[t].db] = Filled[job[t].id]
      <3>1. job[t].id \in 1..MaxRequests /\ job[t].db \in Dbs
        BY <2>2 DEF IInv, TInv, JobsFit, Jobs, Dbs
      <3>2. \A d \in Dbs \ {job[t].db} : stored[job[t].id][d] = {}
        BY <2>2 DEF HomeFit
      <3>3. \A x : x \in Filled[job[t].id] <=> \E d \in Dbs : x \in stored[job[t].id][d]
        BY <3>1 DEF Filled
      <3>4. \A x : x \in Filled[job[t].id] <=> x \in stored[job[t].id][job[t].db]
        BY <3>1, <3>2, <3>3
      <3> QED BY <3>4
    <2> QED BY <2>1, <2>2 DEF IngestInOrder, FilledInOrder
  <1> QED BY <1>1, <1>2, <1>3, BackendInvariant, PTL DEF Spec

\* A project that accepts telemetry has the tables for it.
THEOREM BackendKeyMeansTables == Spec => []KeyMeansTables
  <1>1. Init => SetUpInv
    BY DEF Init, SetUpInv, SetUp, Clean, Dbs
  <1>2. IInv /\ SetUpInv /\ [Next]_vars => SetUpInv'
    <2> SUFFICES ASSUME IInv, SetUpInv, [Next]_vars PROVE SetUpInv'
      OBVIOUS
    <2>1. CASE Next
      BY <2>1, StepSetUp DEF Next
    <2>2. CASE UNCHANGED vars
      BY <2>2 DEF vars, threadVars, metaVars, histVars, SetUpInv, Clean, SetUp, Making
    <2> QED BY <2>1, <2>2
  <1>3. IInv /\ SetUpInv => KeyMeansTables
    <2> SUFFICES ASSUME IInv, SetUp, NEW p \in keyed PROVE tables[p] = Tables \/ Making(p)
      BY DEF KeyMeansTables, SetUpInv, Clean, Making
    <2> QED BY DEF SetUp, IInv, TInv, TypeOK
  <1> QED BY <1>1, <1>2, <1>3, BackendInvariant, PTL DEF Spec

-----------------------------------------------------------------------------
(* The accounts: what a thread holds, and what its tables hold *)

\* Where a request can be.
JobPlaces ==
  {"idle", "done", "find", "dup", "insert", "rename", "count", "mark", "revokeAgent", "issue",
   "ensure", "insertDefault", "ensureKey", "rows", "listKey", "revokeProject", "revokeKey",
   "authKey", "authAgent", "recent", "limit", "insertCode", "sms", "readCode", "wrong",
   "consume", "user", "insertUser", "projects", "insertProject"}

\* A name a client has asked for, or none.
JobNames == Names \cup {""}

\* The local variables of a request.
JobRows ==
  [kind : AccountKinds \cup {"none"}, pc : JobPlaces, proj : Nat, agent : Nat,
   name : JobNames, key : Nat, code : Nat, rows : SUBSET Nat, listed : SUBSET Nat,
   then : {"done", "listKey", "ensured", "firstAgent", "ensureFirst"}, answer : Nat]

\* The kinds of request that come to each place.
KindFits(j) ==
  /\ j.pc \in {"mark", "count"} => j.kind = "delete"
  /\ j.pc = "rename" => j.kind = "rename"
  /\ j.pc = "find" => j.kind \in {"rename", "delete", "regen", "list"}
  /\ j.pc = "dup" => j.kind \in {"create", "rename", "login"}
  /\ j.pc = "insert" => j.kind \in {"create", "login"}
  /\ j.pc = "revokeAgent" => j.kind \in {"delete", "regen", "list"}
  /\ j.pc = "issue" => j.kind \in {"create", "regen", "list", "project", "auth", "login"}
  /\ j.pc \in {"ensure", "insertDefault", "ensureKey"} => j.kind \in {"list", "auth", "login"}
  /\ j.pc \in {"rows", "listKey"} => j.kind = "list"
  /\ j.pc = "revokeProject" => j.kind = "project"
  /\ j.pc = "revokeKey" => j.kind = "revoke"
  /\ j.pc \in {"authKey", "authAgent"} => j.kind = "auth"
  /\ j.pc \in {"recent", "limit", "insertCode", "sms"} => j.kind = "code"
  /\ j.pc \in {"readCode", "wrong", "consume", "user", "insertUser", "projects", "insertProject"} =>
       j.kind = "login"

\* Where create_api_key returns to.
ThenFits(j) ==
  /\ j.kind \in {"create", "regen", "project"} => j.then = "done"
  /\ j.kind = "list" /\ j.pc \in {"find", "revokeAgent"} => j.then = "listKey"
  /\ j.kind = "list" /\ j.pc = "issue" => j.then \in {"ensured", "listKey"}
  /\ j.kind = "auth" /\ j.pc = "issue" => j.then = "ensured"
  /\ j.kind = "login" /\ j.pc \in {"dup", "insert"} => j.then = "ensureFirst"
  /\ j.kind = "login" /\ j.pc = "issue" => j.then \in {"firstAgent", "ensureFirst", "ensured"}

\* In the loop of list_agents.
Listing(j) ==
  j.kind = "list" /\ (j.pc \in {"listKey", "find", "revokeAgent"} \/ (j.pc = "issue" /\ j.then = "listKey"))

\* The places at which a request has a project.
HasProject == {"find", "dup", "insert", "rename", "count", "mark", "revokeAgent", "issue", "ensure",
               "insertDefault", "ensureKey", "rows", "listKey", "revokeProject", "revokeKey", "authAgent"}

\* The agent of a request is one of its project.
OwnAgent(j) == j.agent \in DOMAIN agents /\ agents[j.agent].proj = j.proj

\* The rows a request refers to are there.
RefersTo(j) ==
  /\ j.pc \in HasProject => j.proj \in DOMAIN projects
  /\ j.pc = "find" => j.agent \in DOMAIN agents
  /\ j.pc = "revokeProject" => j.agent = 0
  /\ j.pc \in {"rename", "count", "mark", "revokeAgent", "listKey", "ensureKey"} => OwnAgent(j)
  /\ j.pc = "dup" /\ j.kind = "rename" => OwnAgent(j)
  /\ j.pc \in {"dup", "insert"} /\ j.kind # "rename" => j.agent = 0
  /\ j.pc = "issue" /\ (j.kind = "project" \/ j.then = "firstAgent") => j.agent = 0
  /\ j.pc = "issue" /\ ~(j.kind = "project" \/ j.then = "firstAgent") => OwnAgent(j)
  /\ j.pc \in {"dup", "insert", "insertDefault", "rename"} => j.name \in Names
  /\ j.pc = "find" /\ j.kind = "rename" => j.name \in Names
  /\ j.pc \in {"authKey", "authAgent", "revokeKey"} => j.key \in DOMAIN keys
  /\ j.pc = "authAgent" => keys[j.key].proj = j.proj
  /\ j.pc \in {"wrong", "consume"} => j.code \in DOMAIN codes
  /\ j.pc \in {"projects", "insertProject"} => j.key \in 1..users
  /\ Listing(j) => j.agent \in j.rows /\ \A a \in j.rows : a \in DOMAIN agents /\ agents[a].proj = j.proj
  /\ j.kind = "login" => j.rows \subseteq DOMAIN projects
  /\ j.listed \subseteq DOMAIN keys

\* The rows of project_agents, project_api_keys and phone_login_codes, and the
\* mutations of the last on their way.
AgentRows == [proj : Nat, name : Names, st : {"active", "deleted"}]
ApiKeyRows == [proj : Nat, agent : Nat, st : {"active", "revoked"}, plain : BOOLEAN]
CodeRows == [st : {"active", "consumed"}, age : 0..2, tries : Nat, logins : Nat, guesses : Nat]
CodeMutRows == [code : Nat, op : {"attempt", "consume"}]

\* The tables hold rows, and the counters count.
RowTypes ==
  /\ users \in Nat /\ projects \in Seq(Nat) /\ agents \in Seq(AgentRows) /\ keys \in Seq(ApiKeyRows)
  /\ codes \in Seq(CodeRows) /\ codeMuts \in Seq(CodeMutRows)
  /\ requests \in Nat /\ faults \in Nat /\ clients \in {AgentKinds, LoginKinds}

\* Rows refer to rows.
RowRefs ==
  /\ \A p \in DOMAIN projects : projects[p] \in 1..users
  /\ \A a \in DOMAIN agents : agents[a].proj \in DOMAIN projects
  /\ \A x \in DOMAIN keys :
       /\ keys[x].proj \in DOMAIN projects /\ keys[x].agent \in 0..Len(agents)
       /\ keys[x].agent # 0 => agents[keys[x].agent].proj = keys[x].proj
  /\ revoking \subseteq DOMAIN keys
  /\ \A i \in DOMAIN codeMuts : codeMuts[i].code \in DOMAIN codes

\* Requests in flight together are on record.
Overlaps ==
  \A t, u \in Threads : t # u /\ Busy(t) /\ Busy(u) => {job[t].kind, job[u].kind} \in raced

\* What all six properties rest on: types, places, references, and the record
\* of the requests that overlapped.
FInv == /\ RowTypes /\ RowRefs /\ raced \subseteq SUBSET AccountKinds /\ lagged \in BOOLEAN
        /\ job \in [Threads -> JobRows]
        /\ (\A t \in Threads : KindFits(job[t]) /\ ThenFits(job[t]) /\ RefersTo(job[t]))
        /\ Overlaps

(* agents *)

\* A delete that has counted marks an agent that is not the last, unless another
\* delete overlapped: its count would be of agents the other one takes.
MarkSafe ==
  Raced({"delete"}, {"delete"}) \/
  \A t \in Threads : job[t].pc = "mark" => Active(job[t].proj) \ {job[t].agent} # {}

\* A name found free is still free when it is written, unless two requests that
\* name agents overlapped.
NameSafe ==
  Raced(Namers, Namers) \/
  \A t \in Threads :
    /\ job[t].pc \in {"insert", "rename"} => Taken(t) = {}
    /\ job[t].pc = "insertDefault" => Active(job[t].proj) = {}

(* keys *)

\* The agent a key is being made for is active, unless a delete overlapped with
\* a request that issues keys.
HolderActive ==
  Raced({"delete"}, Issuers) \/
  \A t \in Threads :
    job[t].agent # 0 /\ job[t].kind \in Issuers /\ job[t].pc \in {"issue", "ensureKey", "revokeAgent"} =>
      agents[job[t].agent].st = "active"

\* The keys of an agent, or of a project, that no mutation is about to revoke.
Live(p, a) == KeysOf(p, a) \ revoking

\* The keys before are gone where one is about to be issued, and there is at most
\* one, unless two requests that issue keys overlapped.
KeyRoom ==
  Raced(Issuers \cup {"project"}, Issuers \cup {"project"}) \/
  /\ \A t \in Threads : job[t].pc = "issue" => Live(job[t].proj, job[t].agent) = {}
  /\ \A p \in DOMAIN projects, a \in 0..Len(agents) : \A x, y \in Live(p, a) : x = y

(* codes *)

\* A request for a code that has seen there is room for one.
RoomFor(t) ==
  /\ job[t].pc \in {"limit", "insertCode"} => \A c \in DOMAIN codes : codes[c].age # 0
  /\ job[t].pc = "insertCode" => Len(codes) < CodeLimit

\* One code of the resend interval, and CodeLimit in all.
FewCodes == /\ \A c, d \in DOMAIN codes : codes[c].age = 0 /\ codes[d].age = 0 => c = d
            /\ Len(codes) <= CodeLimit

\* Codes are few, unless two requests for one overlapped.
CodeRoom == Raced({"code"}, {"code"}) \/ (FewCodes /\ \A t \in Threads : RoomFor(t))

\* A mutation of this kind is on its way to a code.
Queued(c, op) == \E i \in DOMAIN codeMuts : codeMuts[i].code = c /\ codeMuts[i].op = op

\* A code has at most one mutation on its way; with it, attempts and
\* consumed_at say how often the code was guessed at and accepted.
OneMutation == \A i, j \in DOMAIN codeMuts : codeMuts[i].code = codeMuts[j].code => i = j
CodeBook(c) ==
  /\ codes[c].guesses = codes[c].tries + (IF Queued(c, "attempt") THEN 1 ELSE 0)
  /\ codes[c].guesses <= MaxTries /\ codes[c].logins <= 1
  /\ codes[c].logins = 1 => codes[c].st = "consumed" \/ Queued(c, "consume")

\* What a login has read of a code is still so.
CodeFresh(t) ==
  job[t].pc \in {"wrong", "consume"} =>
    /\ ~Pending(job[t].code) /\ codes[job[t].code].st = "active"
    /\ codes[job[t].code].tries < MaxTries

\* The books of all codes; they are off once a mutation was late for a login or
\* two logins overlapped.
Books == OneMutation /\ (\A c \in DOMAIN codes : CodeBook(c)) /\ \A t \in Threads : CodeFresh(t)
CodeBooks == lagged \/ Raced({"login"}, {"login"}) \/ Books

(* list *)

\* The agents list_agents has still to do, and those whose key it has got, are
\* the active ones; and those keys are good.
ListParts(t) ==
  /\ \A x \in job[t].listed : /\ keys[x].st = "active" /\ keys[x].agent \in Active(job[t].proj)
                              /\ keys[x].agent \notin job[t].rows
  /\ \A a \in job[t].rows : a \in Active(job[t].proj)
  /\ \A a \in Active(job[t].proj) : a \in job[t].rows \/ \E x \in job[t].listed : keys[x].agent = a

\* list_agents answers with nothing before its loop, and with good keys from there.
ListSafe(t) ==
  /\ Listing(job[t]) => ListParts(t)
  /\ job[t].kind = "list" /\ Busy(t) /\ ~Listing(job[t]) => job[t].listed = {}
ListsSafe == lagged \/ Raced({"list"}, AccountKinds) \/ \A t \in Threads : ListSafe(t)

\* Nothing named or deleted agents while a request with a key ran, and every
\* delete went through.
IngestClean ==
  ~(Raced({"auth"}, Namers \cup {"delete"}) \/ Raced({"delete"}, Issuers) \/ faults > 0)

(* auth *)

\* The agent of the key is active; a key without one leads to the default agent,
\* under that agent's name.
AuthSafe(t) ==
  job[t].kind = "auth" =>
    /\ job[t].pc = "authAgent" /\ keys[job[t].key].agent # 0 => agents[keys[job[t].key].agent].st = "active"
    /\ job[t].pc \in {"ensure", "insertDefault", "ensureKey", "issue"} =>
          job[t].key \in DOMAIN keys /\ keys[job[t].key].agent = 0
    /\ job[t].pc \in {"ensureKey", "issue"} =>
          agents[job[t].agent].st = "active" /\ agents[job[t].agent].name = job[t].name
AuthsSafe == IngestClean => \A t \in Threads : AuthSafe(t)

(* login *)

\* The requests are of the kinds the clients send.  Where these log in and ask
\* for codes only, nobody deletes agents or revokes keys.
LoginSide ==
  /\ \A t \in Threads : job[t].kind \in clients \cup {"none"}
  /\ clients = LoginKinds =>
       /\ revoking = {}
       /\ \A x \in DOMAIN keys : keys[x].st = "active"
       /\ \A a \in DOMAIN agents : agents[a].st = "active"

\* What a login has found out about its user and project is still so.
LoginSafe(t) ==
  /\ job[t].pc = "insertUser" => users = 0
  /\ job[t].pc \in {"projects", "insertProject"} => users = 1
  /\ job[t].pc = "insertProject" => projects = <<>>
  /\ job[t].pc \in HasProject => users = 1 /\ Len(projects) = 1

\* One user and one project, unless two logins overlapped.
LoginsSafe ==
  clients = LoginKinds =>
    \/ Raced({"login"}, {"login"})
    \/ users <= 1 /\ Len(projects) <= 1 /\ \A t \in Threads : LoginSafe(t)
\* It goes on elsewhere.
Turned(j, p) == [j EXCEPT !.pc = p]

\* The fields of such a record.
LEMMA TurnedFields ==
  ASSUME NEW j \in JobRows, NEW p \in JobPlaces
  PROVE  /\ Turned(j, p) \in JobRows
         /\ Turned(j, p).pc = p
         /\ \A f \in {"kind", "proj", "agent", "name", "key", "code", "rows", "listed", "then"} :
              Turned(j, p)[f] = j[f]
  BY DEF JobRows, Turned

\* It answers.
Answered(j, n) == [j EXCEPT !.pc = "done", !.answer = n]

\* The fields of such a record.
LEMMA AnsweredFields ==
  ASSUME NEW j \in JobRows, NEW n \in Nat
  PROVE  /\ Answered(j, n) \in JobRows
         /\ Answered(j, n).pc = "done" /\ Answered(j, n).answer = n
         /\ \A f \in {"kind", "proj", "agent", "name", "key", "code", "rows", "listed", "then"} :
              Answered(j, n)[f] = j[f]
  <1>1. "done" \in JobPlaces
    BY DEF JobPlaces
  <1> QED BY <1>1 DEF JobRows, Answered

\* It has made an agent.
WithAgent(j, a, p) == [j EXCEPT !.agent = a, !.pc = p]

\* The fields of such a record.
LEMMA WithAgentFields ==
  ASSUME NEW j \in JobRows, NEW a \in Nat, NEW p \in JobPlaces
  PROVE  /\ WithAgent(j, a, p) \in JobRows
         /\ WithAgent(j, a, p).agent = a /\ WithAgent(j, a, p).pc = p
         /\ \A f \in {"kind", "proj", "name", "key", "code", "rows", "listed", "then"} :
              WithAgent(j, a, p)[f] = j[f]
  BY DEF JobRows, WithAgent

\* It has listed an agent.
Advanced(j, ls, rest, a, p, n) == [j EXCEPT !.listed = ls, !.rows = rest, !.agent = a, !.pc = p, !.answer = n]

\* The fields of such a record.
LEMMA AdvancedFields ==
  ASSUME NEW j \in JobRows, NEW ls \in SUBSET Nat, NEW rest \in SUBSET Nat, NEW a \in Nat,
         NEW p \in JobPlaces, NEW n \in Nat
  PROVE  /\ Advanced(j, ls, rest, a, p, n) \in JobRows
         /\ Advanced(j, ls, rest, a, p, n).listed = ls /\ Advanced(j, ls, rest, a, p, n).rows = rest
         /\ Advanced(j, ls, rest, a, p, n).agent = a /\ Advanced(j, ls, rest, a, p, n).pc = p
         /\ Advanced(j, ls, rest, a, p, n).answer = n
         /\ \A f \in {"kind", "proj", "name", "key", "code", "then"} :
              Advanced(j, ls, rest, a, p, n)[f] = j[f]
  BY DEF JobRows, Advanced

\* It comes to one of several projects.
OnProject(j, ps, pr) == [j EXCEPT !.pc = "ensure", !.rows = ps, !.proj = pr]

\* The fields of such a record.
LEMMA OnProjectFields ==
  ASSUME NEW j \in JobRows, NEW ps \in SUBSET Nat, NEW pr \in Nat
  PROVE  /\ OnProject(j, ps, pr) \in JobRows
         /\ OnProject(j, ps, pr).pc = "ensure" /\ OnProject(j, ps, pr).rows = ps
         /\ OnProject(j, ps, pr).proj = pr
         /\ \A f \in {"kind", "agent", "name", "key", "code", "listed", "then"} :
              OnProject(j, ps, pr)[f] = j[f]
  <1>1. "ensure" \in JobPlaces
    BY DEF JobPlaces
  <1> QED BY <1>1 DEF JobRows, OnProject

\* It goes on to the first agent of a project.
ForFirstAgent(j) == [j EXCEPT !.pc = "dup", !.name = "default", !.then = "ensureFirst"]

\* The fields of such a record.
LEMMA ForFirstAgentFields ==
  ASSUME NEW j \in JobRows, "default" \in Names
  PROVE  /\ ForFirstAgent(j) \in JobRows
         /\ ForFirstAgent(j).pc = "dup" /\ ForFirstAgent(j).name = "default"
         /\ ForFirstAgent(j).then = "ensureFirst"
         /\ \A f \in {"kind", "proj", "agent", "key", "code", "rows", "listed"} :
              ForFirstAgent(j)[f] = j[f]
  <1>1. "dup" \in JobPlaces
    BY DEF JobPlaces
  <1> QED BY <1>1 DEF JobRows, ForFirstAgent, JobNames

\* It goes on to make the default agent.
ForDefault(j) == [j EXCEPT !.pc = "insertDefault", !.name = "default"]

\* The fields of such a record.
LEMMA ForDefaultFields ==
  ASSUME NEW j \in JobRows, "default" \in Names
  PROVE  /\ ForDefault(j) \in JobRows
         /\ ForDefault(j).pc = "insertDefault" /\ ForDefault(j).name = "default"
         /\ \A f \in {"kind", "proj", "agent", "key", "code", "rows", "listed", "then"} :
              ForDefault(j)[f] = j[f]
  <1>1. "insertDefault" \in JobPlaces
    BY DEF JobPlaces
  <1> QED BY <1>1 DEF JobRows, ForDefault, JobNames

\* It has found the default agent.
WithDefault(j, a, n) == [j EXCEPT !.pc = "ensureKey", !.agent = a, !.name = n]

\* The fields of such a record.
LEMMA WithDefaultFields ==
  ASSUME NEW j \in JobRows, NEW a \in Nat, NEW n \in JobNames
  PROVE  /\ WithDefault(j, a, n) \in JobRows
         /\ WithDefault(j, a, n).pc = "ensureKey" /\ WithDefault(j, a, n).agent = a
         /\ WithDefault(j, a, n).name = n
         /\ \A f \in {"kind", "proj", "key", "code", "rows", "listed", "then"} :
              WithDefault(j, a, n)[f] = j[f]
  <1>1. "ensureKey" \in JobPlaces
    BY DEF JobPlaces
  <1> QED BY <1>1 DEF JobRows, WithDefault

\* It goes on to make a key, and back.
Returning(j, p, th) == [j EXCEPT !.pc = p, !.then = th]

\* The fields of such a record.
LEMMA ReturningFields ==
  ASSUME NEW j \in JobRows, NEW p \in JobPlaces,
         NEW th \in {"done", "listKey", "ensured", "firstAgent", "ensureFirst"}
  PROVE  /\ Returning(j, p, th) \in JobRows
         /\ Returning(j, p, th).pc = p /\ Returning(j, p, th).then = th
         /\ \A f \in {"kind", "proj", "agent", "name", "key", "code", "rows", "listed"} :
              Returning(j, p, th)[f] = j[f]
  BY DEF JobRows, Returning

\* It starts to list agents.
OverRows(j, as, a) == [j EXCEPT !.pc = "listKey", !.rows = as, !.agent = a]

\* The fields of such a record.
LEMMA OverRowsFields ==
  ASSUME NEW j \in JobRows, NEW as \in SUBSET Nat, NEW a \in Nat
  PROVE  /\ OverRows(j, as, a) \in JobRows
         /\ OverRows(j, as, a).pc = "listKey" /\ OverRows(j, as, a).rows = as
         /\ OverRows(j, as, a).agent = a
         /\ \A f \in {"kind", "proj", "name", "key", "code", "listed", "then"} :
              OverRows(j, as, a)[f] = j[f]
  <1>1. "listKey" \in JobPlaces
    BY DEF JobPlaces
  <1> QED BY <1>1 DEF JobRows, OverRows

\* It has found the project of the key.
OfKey(j, pr) == [j EXCEPT !.proj = pr, !.pc = "authAgent"]

\* The fields of such a record.
LEMMA OfKeyFields ==
  ASSUME NEW j \in JobRows, NEW pr \in Nat
  PROVE  /\ OfKey(j, pr) \in JobRows
         /\ OfKey(j, pr).proj = pr /\ OfKey(j, pr).pc = "authAgent"
         /\ \A f \in {"kind", "agent", "name", "key", "code", "rows", "listed", "then"} :
              OfKey(j, pr)[f] = j[f]
  <1>1. "authAgent" \in JobPlaces
    BY DEF JobPlaces
  <1> QED BY <1>1 DEF JobRows, OfKey

\* It has found the agent of the key.
Ingesting(j, s, a, n) == [j EXCEPT !.pc = "done", !.answer = s, !.agent = a, !.name = n]

\* The fields of such a record.
LEMMA IngestingFields ==
  ASSUME NEW j \in JobRows, NEW s \in Nat, NEW a \in Nat, NEW n \in JobNames
  PROVE  /\ Ingesting(j, s, a, n) \in JobRows
         /\ Ingesting(j, s, a, n).pc = "done" /\ Ingesting(j, s, a, n).answer = s
         /\ Ingesting(j, s, a, n).agent = a /\ Ingesting(j, s, a, n).name = n
         /\ \A f \in {"kind", "proj", "key", "code", "rows", "listed", "then"} :
              Ingesting(j, s, a, n)[f] = j[f]
  <1>1. "done" \in JobPlaces
    BY DEF JobPlaces
  <1> QED BY <1>1 DEF JobRows, Ingesting

\* It has found the code.
WithCode(j, c, p) == [j EXCEPT !.code = c, !.pc = p]

\* The fields of such a record.
LEMMA WithCodeFields ==
  ASSUME NEW j \in JobRows, NEW c \in Nat, NEW p \in JobPlaces
  PROVE  /\ WithCode(j, c, p) \in JobRows
         /\ WithCode(j, c, p).code = c /\ WithCode(j, c, p).pc = p
         /\ \A f \in {"kind", "proj", "agent", "name", "key", "rows", "listed", "then"} :
              WithCode(j, c, p)[f] = j[f]
  BY DEF JobRows, WithCode

\* It has found the user.
OfUser(j, x) == [j EXCEPT !.pc = "projects", !.key = x]

\* The fields of such a record.
LEMMA OfUserFields ==
  ASSUME NEW j \in JobRows, NEW x \in Nat
  PROVE  /\ OfUser(j, x) \in JobRows
         /\ OfUser(j, x).pc = "projects" /\ OfUser(j, x).key = x
         /\ \A f \in {"kind", "proj", "agent", "name", "code", "rows", "listed", "then"} :
              OfUser(j, x)[f] = j[f]
  <1>1. "projects" \in JobPlaces
    BY DEF JobPlaces
  <1> QED BY <1>1 DEF JobRows, OfUser

\* It has made a project.
WithProject(j, pr) == [j EXCEPT !.pc = "issue", !.proj = pr, !.agent = 0, !.then = "firstAgent"]

\* The fields of such a record.
LEMMA WithProjectFields ==
  ASSUME NEW j \in JobRows, NEW pr \in Nat
  PROVE  /\ WithProject(j, pr) \in JobRows
         /\ WithProject(j, pr).pc = "issue" /\ WithProject(j, pr).proj = pr
         /\ WithProject(j, pr).agent = 0 /\ WithProject(j, pr).then = "firstAgent"
         /\ \A f \in {"kind", "name", "key", "code", "rows", "listed"} :
              WithProject(j, pr)[f] = j[f]
  <1>1. "issue" \in JobPlaces
    BY DEF JobPlaces
  <1> QED BY <1>1 DEF JobRows, WithProject

-----------------------------------------------------------------------------
(* What each step of the accounts does to a thread and the tables *)

\* Only thread t moves; these fields of its request stay as they are.
Holds(t) == job' \in [Threads -> JobRows] /\ \A u \in Threads : u # t => job'[u] = job[u]

\* The fields of its request that a step of a thread leaves alone.
Same(t, fields) == \A f \in fields : job'[t][f] = job[t][f]
RefFields == {"kind", "proj", "agent", "name", "key", "code", "rows", "listed", "then"}

\* Tables, counters and history that a step leaves alone.
QuietLogins == users' = users /\ projects' = projects /\ codes' = codes /\ codeMuts' = codeMuts
QuietKeys == keys' = keys /\ revoking' = revoking
Quiet == QuietLogins /\ QuietKeys /\ agents' = agents
Counts == clients' = clients /\ requests' = requests /\ faults' = faults /\ raced' = raced

\* The oldest row is one of them.
LEMMA OldestIn ==
  ASSUME NEW S \in SUBSET Nat, S # {}
  PROVE  Oldest(S) \in S
  <1> DEFINE N == {n \in Nat : \A m \in 0..n : m \notin S}
  <1>1. CASE \E x \in S : \A y \in S : x <= y
    BY <1>1 DEF Oldest
  <1>2. CASE ~\E x \in S : \A y \in S : x <= y
    <2>1. 0 \in N
      BY <1>2
    <2>2. \A n \in Nat : n \in N => n + 1 \in N
      <3> SUFFICES ASSUME NEW n \in Nat, n \in N PROVE n + 1 \in N
        OBVIOUS
      <3>1. n + 1 \notin S
        <4>1. \A y \in S : y \notin 0..n
          OBVIOUS
        <4>2. \A y \in S : n + 1 <= y
          BY <4>1
        <4> QED BY <4>2, <1>2
      <3>2. \A m \in 0..(n + 1) : m = n + 1 \/ m \in 0..n
        OBVIOUS
      <3> QED BY <3>1, <3>2
    <2>3. Nat \subseteq N
      <3> HIDE DEF N
      <3> QED BY <2>1, <2>2, NumberInduction
    <2>4. PICK x \in S : TRUE
      OBVIOUS
    <2>5. x \in N /\ x \in 0..x
      BY <2>3
    <2> QED BY <2>5
  <1> QED BY <1>1, <1>2

\* The latest of rows of a table is one of them.
LEMMA LatestIn ==
  ASSUME NEW n \in Nat, NEW S \in SUBSET (1..n), S # {}
  PROVE  Latest(S) \in S
  <1>0. IsFiniteSet(1..n)
    BY FS_Interval
  <1>1. IsFiniteSet(S)
    BY <1>0, FS_Subset
  <1>3. S \in SUBSET Nat
    OBVIOUS
  <1>2. Max(S) \in S /\ \A y \in S : y <= Max(S)
    BY <1>1, <1>3, MaxInSet
  <1> QED BY <1>2 DEF Latest

\* A thread that goes on elsewhere.
LEMMA GotoMoves ==
  ASSUME job \in [Threads -> JobRows], NEW t \in Threads, NEW p \in JobPlaces, Goto(t, p)
  PROVE  Holds(t) /\ Same(t, RefFields) /\ job'[t].pc = p
  <1>1. job' = [job EXCEPT ![t] = Turned(job[t], p)] /\ job[t] \in JobRows
    BY DEF Goto, Set, Turned
  <1>2. job'[t] = Turned(job[t], p) /\ Holds(t)
    BY <1>1, TurnedFields DEF Holds
  <1> QED BY <1>1, <1>2, TurnedFields DEF Same, RefFields

\* A thread that answers.
LEMMA AnswerMoves ==
  ASSUME job \in [Threads -> JobRows], NEW t \in Threads, NEW status \in Nat, Answer(t, status)
  PROVE  Holds(t) /\ Same(t, RefFields) /\ job'[t].pc = "done" /\ job'[t].answer = status
  <1>1. job' = [job EXCEPT ![t] = Answered(job[t], status)] /\ job[t] \in JobRows
    BY DEF Answer, Set, Answered
  <1>2. job'[t] = Answered(job[t], status) /\ Holds(t)
    BY <1>1, AnsweredFields DEF Holds
  <1> QED BY <1>1, <1>2, AnsweredFields DEF Same, RefFields

\* A statement that changes no counter, and a SELECT.
LEMMA AtKeeps ==
  ASSUME NEW t, NEW p, At(t, p)
  PROVE  job[t].pc = p /\ Counts
  BY DEF At, Counts, countVars

\* A SELECT leaves every table alone.
LEMMA ReadsKeep ==
  ASSUME NEW t, NEW p, Reads(t, p)
  PROVE  job[t].pc = p /\ Counts /\ Quiet /\ lagged' = lagged
  BY DEF Reads, At, Counts, countVars, tableVars, Quiet, QuietLogins, QuietKeys

\* What a thread holds is of the right form.
LEMMA ThreadFits ==
  ASSUME FInv, NEW t \in Threads
  PROVE  /\ job \in [Threads -> JobRows] /\ job[t] \in JobRows
         /\ KindFits(job[t]) /\ ThenFits(job[t]) /\ RefersTo(job[t])
  BY DEF FInv

\* What agent_for_project does.
LEMMA FindMoves ==
  ASSUME FInv, NEW t \in Threads, Find(t)
  PROVE  /\ job[t].pc = "find" /\ Counts /\ Quiet /\ lagged' = lagged
         /\ Holds(t) /\ Same(t, RefFields)
         /\ \/ /\ job'[t].pc = "done" /\ job'[t].answer = 404
               /\ job[t].agent \notin Active(job[t].proj)
            \/ /\ job[t].agent \in Active(job[t].proj)
               /\ \/ job[t].kind = "rename" /\ job'[t].pc = "dup"
                  \/ job[t].kind = "delete" /\ job'[t].pc = "count"
                  \/ job[t].kind \in {"regen", "list"} /\ job'[t].pc = "revokeAgent"
  <1>1. job[t].pc = "find" /\ Counts /\ Quiet /\ lagged' = lagged
    BY ReadsKeep DEF Find
  <1>2. job \in [Threads -> JobRows] /\ job[t].kind \in {"rename", "delete", "regen", "list"}
    BY <1>1, ThreadFits DEF KindFits
  <1>3. CASE job[t].agent \notin Active(job[t].proj)
    <2>1. Answer(t, 404)
      BY <1>3 DEF Find
    <2> QED BY <1>1, <1>2, <1>3, <2>1, AnswerMoves
  <1>4. CASE job[t].agent \in Active(job[t].proj)
    <2> DEFINE p == AfterFind[job[t].kind]
    <2>1. Goto(t, p)
      BY <1>4 DEF Find
    <2>2. /\ \/ job[t].kind = "rename" /\ p = "dup"
             \/ job[t].kind = "delete" /\ p = "count"
             \/ job[t].kind \in {"regen", "list"} /\ p = "revokeAgent"
          /\ p \in JobPlaces
      BY <1>2 DEF AfterFind, JobPlaces
    <2> HIDE DEF p
    <2>3. Holds(t) /\ Same(t, RefFields) /\ job'[t].pc = p
      BY <1>2, <2>1, <2>2, GotoMoves
    <2> QED BY <1>1, <1>4, <2>2, <2>3
  <1> QED BY <1>3, <1>4

\* What the SELECT for an agent of the same name does.
LEMMA DupMoves ==
  ASSUME FInv, NEW t \in Threads, Dup(t)
  PROVE  /\ job[t].pc = "dup" /\ Counts /\ Quiet /\ lagged' = lagged
         /\ Holds(t) /\ Same(t, RefFields)
         /\ \/ job'[t].pc = "done" /\ job'[t].answer = 400
            \/ /\ Taken(t) = {}
               /\ job'[t].pc = IF job[t].kind = "rename" THEN "rename" ELSE "insert"
  <1>1. job[t].pc = "dup" /\ Counts /\ Quiet /\ lagged' = lagged
    BY ReadsKeep DEF Dup
  <1>2. job \in [Threads -> JobRows] /\ {"rename", "insert"} \subseteq JobPlaces
    BY ThreadFits DEF JobPlaces
  <1>3. CASE Taken(t) # {}
    BY <1>1, <1>2, <1>3, AnswerMoves DEF Dup
  <1>4. CASE Taken(t) = {}
    BY <1>1, <1>2, <1>4, GotoMoves DEF Dup
  <1> QED BY <1>3, <1>4

\* What the INSERT of an agent does.
LEMMA InsertAgentMoves ==
  ASSUME FInv, NEW t \in Threads, InsertAgent(t)
  PROVE  /\ Counts /\ QuietLogins /\ QuietKeys /\ lagged' = lagged
         /\ agents' = Append(agents, AgentRow(job[t].proj, job[t].name))
         /\ Holds(t) /\ Same(t, {"kind", "proj", "name", "key", "code", "rows", "listed", "then"})
         /\ job'[t].agent = Len(agents) + 1
         /\ \/ job[t].pc = "insertDefault" /\ job'[t].pc = "ensureKey"
            \/ job[t].pc = "insert" /\ job'[t].pc = "issue"
  <1>1. Counts /\ job[t].pc \in {"insert", "insertDefault"}
    BY AtKeeps DEF InsertAgent
  <1>2. /\ QuietLogins /\ QuietKeys /\ lagged' = lagged
        /\ agents' = Append(agents, AgentRow(job[t].proj, job[t].name))
    BY DEF InsertAgent, loginVars, QuietLogins, QuietKeys
  <1>3. job \in [Threads -> JobRows] /\ job[t] \in JobRows
    BY ThreadFits
  <1>4. Len(agents) + 1 \in Nat /\ {"ensureKey", "issue"} \subseteq JobPlaces
    BY DEF FInv, RowTypes, JobPlaces
  <1> DEFINE p == IF job[t].pc = "insertDefault" THEN "ensureKey" ELSE "issue"
             n == Len(agents) + 1
  <1>5. job' = [job EXCEPT ![t] = WithAgent(job[t], n, p)]
    BY DEF InsertAgent, Set, WithAgent
  <1>6. p \in JobPlaces /\ n \in Nat
    BY <1>4
  <1>7. \/ job[t].pc = "insertDefault" /\ p = "ensureKey"
        \/ job[t].pc = "insert" /\ p = "issue"
    BY <1>1
  <1> HIDE DEF p
  <1>8. job'[t] = WithAgent(job[t], n, p) /\ Holds(t)
    <2> HIDE DEF n
    <2> QED BY <1>3, <1>5, <1>6, WithAgentFields DEF Holds
  <1>9. /\ job'[t].agent = n /\ job'[t].pc = p
        /\ Same(t, {"kind", "proj", "name", "key", "code", "rows", "listed", "then"})
    <2> HIDE DEF n
    <2> QED BY <1>3, <1>6, <1>8, WithAgentFields DEF Same
  <1> QED BY <1>1, <1>2, <1>7, <1>8, <1>9

\* What the UPDATE of an agent's name does.
LEMMA RenameMoves ==
  ASSUME FInv, NEW t \in Threads, Rename(t)
  PROVE  /\ job[t].pc = "rename" /\ Counts /\ QuietLogins /\ QuietKeys /\ lagged' = lagged
         /\ agents' = [agents EXCEPT ![job[t].agent].name = job[t].name]
         /\ Holds(t) /\ Same(t, RefFields) /\ job'[t].pc = "done" /\ job'[t].answer = 200
  <1>1. job[t].pc = "rename" /\ Counts
    BY AtKeeps DEF Rename
  <1>2. /\ QuietLogins /\ QuietKeys /\ lagged' = lagged /\ Answer(t, 200)
        /\ agents' = [agents EXCEPT ![job[t].agent].name = job[t].name]
    BY DEF Rename, loginVars, QuietLogins, QuietKeys
  <1> QED BY <1>1, <1>2, ThreadFits, AnswerMoves

\* What the count of active agents does.
LEMMA CountMoves ==
  ASSUME FInv, NEW t \in Threads, Count(t)
  PROVE  /\ job[t].pc = "count" /\ Counts /\ Quiet /\ lagged' = lagged
         /\ Holds(t) /\ Same(t, RefFields)
         /\ \/ job'[t].pc = "done" /\ job'[t].answer = 400
            \/ job'[t].pc = "mark" /\ ~(Cardinality(Active(job[t].proj)) <= 1)
  <1>1. job[t].pc = "count" /\ Counts /\ Quiet /\ lagged' = lagged
    BY ReadsKeep DEF Count
  <1>2. job \in [Threads -> JobRows] /\ "mark" \in JobPlaces
    BY ThreadFits DEF JobPlaces
  <1>3. CASE Cardinality(Active(job[t].proj)) <= 1
    BY <1>1, <1>2, <1>3, AnswerMoves DEF Count
  <1>4. CASE ~(Cardinality(Active(job[t].proj)) <= 1)
    BY <1>1, <1>2, <1>4, GotoMoves DEF Count
  <1> QED BY <1>3, <1>4

\* What the UPDATE that marks an agent as deleted does.
LEMMA MarkDeletedMoves ==
  ASSUME FInv, NEW t \in Threads, MarkDeleted(t)
  PROVE  /\ job[t].pc = "mark" /\ Counts /\ QuietLogins /\ QuietKeys /\ lagged' = lagged
         /\ agents' = [agents EXCEPT ![job[t].agent].st = "deleted"]
         /\ Holds(t) /\ Same(t, RefFields) /\ job'[t].pc = "revokeAgent"
  <1>1. job[t].pc = "mark" /\ Counts /\ "revokeAgent" \in JobPlaces
    BY AtKeeps DEF MarkDeleted, JobPlaces
  <1>2. /\ QuietLogins /\ QuietKeys /\ lagged' = lagged /\ Goto(t, "revokeAgent")
        /\ agents' = [agents EXCEPT ![job[t].agent].st = "deleted"]
    BY DEF MarkDeleted, loginVars, QuietLogins, QuietKeys
  <1> QED BY <1>1, <1>2, ThreadFits, GotoMoves

\* What the UPDATE that revokes an agent's keys does.
LEMMA RevokeAgentKeysMoves ==
  ASSUME FInv, NEW t \in Threads, RevokeAgentKeys(t)
  PROVE  /\ job[t].pc = "revokeAgent" /\ Counts /\ QuietLogins /\ agents' = agents
         /\ keys' = Revoked(revoking \cup KeysOf(job[t].proj, job[t].agent)) /\ revoking' = {}
         /\ LateRevoke
         /\ Holds(t) /\ Same(t, RefFields)
         /\ \/ job[t].kind = "delete" /\ job'[t].pc = "done" /\ job'[t].answer = 200
            \/ job[t].kind # "delete" /\ job'[t].pc = "issue"
  <1>1. job[t].pc = "revokeAgent" /\ Counts
    BY AtKeeps DEF RevokeAgentKeys
  <1>2. /\ QuietLogins /\ agents' = agents /\ LateRevoke /\ AfterRevoke(t)
        /\ keys' = Revoked(revoking \cup KeysOf(job[t].proj, job[t].agent)) /\ revoking' = {}
    BY DEF RevokeAgentKeys, QuietLogins
  <1>3. job \in [Threads -> JobRows] /\ "issue" \in JobPlaces
    BY ThreadFits DEF JobPlaces
  <1>4. CASE job[t].kind = "delete"
    BY <1>1, <1>2, <1>3, <1>4, AnswerMoves DEF AfterRevoke
  <1>5. CASE job[t].kind # "delete"
    BY <1>1, <1>2, <1>3, <1>5, GotoMoves DEF AfterRevoke
  <1> QED BY <1>4, <1>5

\* What the UPDATE that revokes a project's own keys does.
LEMMA RevokeProjectKeysMoves ==
  ASSUME FInv, NEW t \in Threads, RevokeProjectKeys(t)
  PROVE  /\ job[t].pc = "revokeProject" /\ Counts /\ QuietLogins /\ agents' = agents /\ lagged' = lagged
         /\ keys' = keys /\ revoking' = revoking \cup KeysOf(job[t].proj, 0)
         /\ Holds(t) /\ Same(t, RefFields) /\ job'[t].pc = "issue"
  <1>1. job[t].pc = "revokeProject" /\ Counts /\ "issue" \in JobPlaces
    BY AtKeeps DEF RevokeProjectKeys, JobPlaces
  <1>2. /\ QuietLogins /\ agents' = agents /\ lagged' = lagged /\ Goto(t, "issue")
        /\ keys' = keys /\ revoking' = revoking \cup KeysOf(job[t].proj, 0)
    BY DEF RevokeProjectKeys, loginVars, QuietLogins
  <1> QED BY <1>1, <1>2, ThreadFits, GotoMoves

\* What the UPDATE that revokes one key does.
LEMMA RevokeKeyMoves ==
  ASSUME FInv, NEW t \in Threads, RevokeKey(t)
  PROVE  /\ job[t].pc = "revokeKey" /\ Counts /\ QuietLogins /\ agents' = agents /\ lagged' = lagged
         /\ keys' = keys /\ revoking \subseteq revoking' /\ revoking' \subseteq revoking \cup {job[t].key}
         /\ Holds(t) /\ Same(t, RefFields) /\ job'[t].pc = "done" /\ job'[t].answer = 200
  <1>1. job[t].pc = "revokeKey" /\ Counts
    BY AtKeeps DEF RevokeKey
  <1>2. /\ QuietLogins /\ agents' = agents /\ lagged' = lagged /\ Answer(t, 200) /\ keys' = keys
        /\ revoking \subseteq revoking' /\ revoking' \subseteq revoking \cup {job[t].key}
    BY DEF RevokeKey, loginVars, QuietLogins
  <1> QED BY <1>1, <1>2, ThreadFits, AnswerMoves

\* list_agents comes to the next agent, or to the end.
LEMMA NextListedMoves ==
  ASSUME FInv, NEW t \in Threads, NEW x \in Nat, NextListed(t, x)
  PROVE  /\ Holds(t) /\ Same(t, {"kind", "proj", "name", "key", "code", "then"})
         /\ job'[t].listed = job[t].listed \cup {x}
         /\ job'[t].rows = job[t].rows \ {job[t].agent}
         /\ \/ job'[t].rows = {} /\ job'[t].pc = "done" /\ job'[t].answer = 200
            \/ job'[t].rows # {} /\ job'[t].pc = "listKey" /\ job'[t].agent \in job'[t].rows
  <1> DEFINE rest == job[t].rows \ {job[t].agent}
             ls == job[t].listed \cup {x}
             a == IF rest = {} THEN 0 ELSE Oldest(rest)
             p == IF rest = {} THEN "done" ELSE "listKey"
             n == IF rest = {} THEN 200 ELSE 0
  <1>1. job \in [Threads -> JobRows] /\ job[t] \in JobRows
    BY ThreadFits
  <1>2. job' = [job EXCEPT ![t] = Advanced(job[t], ls, rest, a, p, n)]
    BY DEF NextListed, Set, Advanced
  <1>3. ls \in SUBSET Nat /\ rest \in SUBSET Nat
    BY <1>1 DEF JobRows
  <1>4. rest # {} => a \in rest
    BY <1>3, OldestIn
  <1>5. a \in Nat /\ p \in JobPlaces /\ n \in Nat
    BY <1>3, <1>4 DEF JobPlaces
  <1>6. \/ rest = {} /\ p = "done" /\ n = 200
        \/ rest # {} /\ p = "listKey" /\ a \in rest
    BY <1>4
  <1>7. rest = job[t].rows \ {job[t].agent} /\ ls = job[t].listed \cup {x}
    OBVIOUS
  <1> HIDE DEF rest, ls, a, p, n
  <1>8. job'[t] = Advanced(job[t], ls, rest, a, p, n) /\ Holds(t)
    BY <1>1, <1>2, <1>3, <1>5, AdvancedFields DEF Holds
  <1>9. /\ job'[t].listed = ls /\ job'[t].rows = rest /\ job'[t].agent = a
        /\ job'[t].pc = p /\ job'[t].answer = n
        /\ Same(t, {"kind", "proj", "name", "key", "code", "then"})
    BY <1>1, <1>3, <1>5, <1>8, AdvancedFields DEF Same
  <1> QED BY <1>6, <1>7, <1>8, <1>9

\* ensure_default_agent ends, for the one project or the last, or for one of more.
LEMMA EnsuredMoves ==
  ASSUME FInv, NEW t \in Threads, job[t].kind \in {"list", "auth", "login"}, Ensured(t, job[t])
  PROVE  /\ Holds(t) /\ Same(t, {"kind", "agent", "name", "key", "code", "listed", "then"})
         /\ \/ job[t].kind = "list" /\ job'[t].pc = "rows" /\ Same(t, {"proj", "rows"})
            \/ /\ job[t].kind = "auth" /\ job'[t].pc = "done" /\ job'[t].answer = 200
               /\ Same(t, {"proj", "rows"})
            \/ /\ job[t].kind = "login" /\ job[t].rows \ {job[t].proj} = {}
               /\ job'[t].pc = "done" /\ job'[t].answer = 200 /\ Same(t, {"proj", "rows"})
            \/ /\ job[t].kind = "login" /\ job[t].rows \ {job[t].proj} # {}
               /\ job'[t].pc = "ensure" /\ job'[t].rows = job[t].rows \ {job[t].proj}
               /\ job'[t].proj \in job'[t].rows
  <1>1. job \in [Threads -> JobRows] /\ job[t] \in JobRows
    BY ThreadFits
  <1>2. {"rows", "done", "ensure"} \subseteq JobPlaces
    BY DEF JobPlaces
  <1>3. CASE job[t].kind = "list"
    <2>1. Goto(t, "rows")
      BY <1>3 DEF Ensured, Goto
    <2>2. Holds(t) /\ Same(t, RefFields) /\ job'[t].pc = "rows"
      BY <1>1, <1>2, <2>1, GotoMoves
    <2> QED BY <1>3, <2>2 DEF Same, RefFields
  <1>4. CASE job[t].kind = "auth" \/ (job[t].kind = "login" /\ job[t].rows \ {job[t].proj} = {})
    <2>1. Answer(t, 200)
      BY <1>4 DEF Ensured, Answer
    <2>2. Holds(t) /\ Same(t, RefFields) /\ job'[t].pc = "done" /\ job'[t].answer = 200
      BY <1>1, <2>1, AnswerMoves
    <2> QED BY <1>4, <2>2 DEF Same, RefFields
  <1>5. CASE job[t].kind = "login" /\ job[t].rows \ {job[t].proj} # {}
    <2> DEFINE rest == job[t].rows \ {job[t].proj}
               pr == Oldest(rest)
    <2>1. job' = [job EXCEPT ![t] = OnProject(job[t], rest, pr)]
      BY <1>5 DEF Ensured, Set, OnProject
    <2>2. rest \in SUBSET Nat /\ pr \in rest
      BY <1>1, <1>5, OldestIn DEF JobRows
    <2>3. rest = job[t].rows \ {job[t].proj} /\ pr \in Nat
      BY <2>2
    <2> HIDE DEF rest, pr
    <2>4. job'[t] = OnProject(job[t], rest, pr) /\ Holds(t)
      BY <1>1, <2>1, <2>2, <2>3, OnProjectFields DEF Holds
    <2>5. /\ job'[t].pc = "ensure" /\ job'[t].rows = rest /\ job'[t].proj = pr
          /\ Same(t, {"kind", "agent", "name", "key", "code", "listed", "then"})
      BY <1>1, <2>2, <2>3, <2>4, OnProjectFields DEF Same
    <2> QED BY <1>5, <2>2, <2>3, <2>4, <2>5
  <1> QED BY <1>3, <1>4, <1>5

\* What create_api_key does.
LEMMA IssueMoves ==
  ASSUME FInv, NEW t \in Threads, Issue(t)
  PROVE  /\ job[t].pc = "issue" /\ Counts /\ QuietLogins /\ agents' = agents /\ lagged' = lagged
         /\ revoking' = revoking
         /\ keys' = Append(keys, KeyRow(job[t].proj, job[t].agent, TRUE))
         /\ Holds(t) /\ Same(t, {"kind", "key", "code"})
         /\ \/ /\ job[t].then = "done" /\ Same(t, RefFields)
               /\ job'[t].pc = "done" /\ job'[t].answer = 200
            \/ job[t].then = "listKey" /\ NextListed(t, Len(keys) + 1)
            \/ job[t].then = "ensured" /\ Ensured(t, job[t])
            \/ /\ job[t].then = "firstAgent" /\ job'[t].pc = "dup" /\ job'[t].name = "default"
               /\ job'[t].then = "ensureFirst" /\ Same(t, {"proj", "agent", "rows", "listed"})
            \/ job[t].then = "ensureFirst" /\ job'[t].pc = "ensure" /\ Same(t, RefFields)
  <1>1. job[t].pc = "issue" /\ Counts
    BY AtKeeps DEF Issue
  <1>2. /\ QuietLogins /\ agents' = agents /\ lagged' = lagged /\ revoking' = revoking
        /\ keys' = Append(keys, KeyRow(job[t].proj, job[t].agent, TRUE))
    BY DEF Issue, loginVars, QuietLogins
  <1>3. job \in [Threads -> JobRows] /\ job[t] \in JobRows
    BY ThreadFits
  <1>4. /\ "ensure" \in JobPlaces /\ "default" \in Names /\ Len(keys) + 1 \in Nat
        /\ job[t].then \in {"done", "listKey", "ensured", "firstAgent", "ensureFirst"}
        /\ job[t].then = "ensured" => job[t].kind \in {"list", "auth", "login"}
    <2>1. "ensure" \in JobPlaces /\ "default" \in Names /\ Len(keys) + 1 \in Nat
      BY AccountsAssumption DEF JobPlaces, FInv, RowTypes
    <2>2. job[t].then \in {"done", "listKey", "ensured", "firstAgent", "ensureFirst"}
      BY <1>3 DEF JobRows
    <2>3. job[t].then = "ensured" => job[t].kind \in {"list", "auth", "login"}
      BY <1>1, ThreadFits DEF KindFits, ThenFits
    <2> QED BY <2>1, <2>2, <2>3
  <1>5. CASE job[t].then = "done"
    <2>1. Answer(t, 200)
      BY <1>5 DEF Issue
    <2>2. Holds(t) /\ Same(t, RefFields) /\ job'[t].pc = "done" /\ job'[t].answer = 200
      BY <1>3, <2>1, AnswerMoves
    <2> QED BY <1>1, <1>2, <1>5, <2>2 DEF Same, RefFields
  <1>6. CASE job[t].then = "listKey"
    <2>1. NextListed(t, Len(keys) + 1)
      BY <1>6 DEF Issue
    <2>2. Holds(t) /\ Same(t, {"kind", "proj", "name", "key", "code", "then"})
      BY <1>4, <2>1, NextListedMoves
    <2> QED BY <1>1, <1>2, <1>6, <2>1, <2>2 DEF Same
  <1>7. CASE job[t].then = "ensured"
    <2>1. Ensured(t, job[t])
      BY <1>7 DEF Issue
    <2>2. Holds(t) /\ Same(t, {"kind", "agent", "name", "key", "code", "listed", "then"})
      BY <1>4, <1>7, <2>1, EnsuredMoves
    <2> QED BY <1>1, <1>2, <1>7, <2>1, <2>2 DEF Same
  <1>8. CASE job[t].then = "firstAgent"
    <2>1. job' = [job EXCEPT ![t] = ForFirstAgent(job[t])]
      BY <1>8 DEF Issue, Set, ForFirstAgent
    <2>2. job'[t] = ForFirstAgent(job[t]) /\ Holds(t)
      BY <1>3, <1>4, <2>1, ForFirstAgentFields DEF Holds
    <2>3. /\ job'[t].pc = "dup" /\ job'[t].name = "default" /\ job'[t].then = "ensureFirst"
          /\ Same(t, {"kind", "proj", "agent", "key", "code", "rows", "listed"})
      BY <1>3, <1>4, <2>2, ForFirstAgentFields DEF Same
    <2> QED BY <1>1, <1>2, <1>8, <2>2, <2>3 DEF Same
  <1>9. CASE job[t].then = "ensureFirst"
    <2>1. Goto(t, "ensure")
      BY <1>9 DEF Issue, Goto
    <2>2. Holds(t) /\ Same(t, RefFields) /\ job'[t].pc = "ensure"
      BY <1>3, <1>4, <2>1, GotoMoves
    <2> QED BY <1>1, <1>2, <1>9, <2>2 DEF Same, RefFields
  <1> QED BY <1>4, <1>5, <1>6, <1>7, <1>8, <1>9

\* What the SELECTs of ensure_default_agent does.
LEMMA EnsureRowsMoves ==
  ASSUME FInv, NEW t \in Threads, EnsureRows(t)
  PROVE  /\ job[t].pc = "ensure" /\ Counts /\ Quiet /\ lagged' = lagged
         /\ Holds(t) /\ Same(t, {"kind", "proj", "key", "code", "rows", "listed", "then"})
         /\ \/ /\ Active(job[t].proj) = {} /\ Same(t, {"agent"})
               /\ job'[t].pc = "insertDefault" /\ job'[t].name = "default"
            \/ /\ job'[t].agent \in Active(job[t].proj)
               /\ job'[t].pc = "ensureKey" /\ job'[t].name = agents[job'[t].agent].name
  <1>1. job[t].pc = "ensure" /\ Counts /\ Quiet /\ lagged' = lagged
    BY ReadsKeep DEF EnsureRows
  <1>2. job \in [Threads -> JobRows] /\ job[t] \in JobRows /\ "default" \in Names
    BY ThreadFits, AccountsAssumption
  <1>3. Active(job[t].proj) \subseteq Nat /\ \A a \in Active(job[t].proj) : agents[a].name \in Names
    <2>1. agents \in Seq(AgentRows)
      BY DEF FInv, RowTypes
    <2>2. \A a \in DOMAIN agents : a \in Nat /\ agents[a] \in AgentRows
      BY <2>1
    <2> QED BY <2>2 DEF Active, AgentRows
  <1>4. CASE Active(job[t].proj) = {}
    <2>1. job' = [job EXCEPT ![t] = ForDefault(job[t])]
      BY <1>4 DEF EnsureRows, Set, ForDefault
    <2>2. job'[t] = ForDefault(job[t]) /\ Holds(t)
      BY <1>2, <2>1, ForDefaultFields DEF Holds
    <2>3. /\ job'[t].pc = "insertDefault" /\ job'[t].name = "default"
          /\ Same(t, {"kind", "proj", "agent", "key", "code", "rows", "listed", "then"})
      BY <1>2, <2>2, ForDefaultFields DEF Same
    <2> QED BY <1>1, <1>4, <2>2, <2>3 DEF Same
  <1>5. CASE Active(job[t].proj) # {}
    <2> DEFINE default == {b \in Active(job[t].proj) : agents[b].name = "default"}
               S == IF default # {} THEN default ELSE Active(job[t].proj)
               a == Oldest(S)
               n == agents[a].name
    <2>1. job' = [job EXCEPT ![t] = WithDefault(job[t], a, n)]
      BY <1>5 DEF EnsureRows, Set, WithDefault
    <2>2. S # {} /\ S \in SUBSET Nat /\ S \subseteq Active(job[t].proj)
      BY <1>3, <1>5
    <2> HIDE DEF S
    <2>3. a \in Active(job[t].proj)
      BY <2>2, OldestIn
    <2>4. a \in Nat /\ n \in JobNames
      BY <1>3, <2>3 DEF JobNames
    <2>8. n = agents[a].name
      OBVIOUS
    <2> HIDE DEF a, n
    <2>5. job'[t] = WithDefault(job[t], a, n) /\ Holds(t)
      BY <1>2, <2>1, <2>4, WithDefaultFields DEF Holds
    <2>6. job'[t].pc = "ensureKey" /\ job'[t].agent = a /\ job'[t].name = n
      BY <1>2, <2>4, <2>5, WithDefaultFields
    <2>7. Same(t, {"kind", "proj", "key", "code", "rows", "listed", "then"})
      BY <1>2, <2>4, <2>5, WithDefaultFields DEF Same
    <2> QED BY <1>1, <2>3, <2>5, <2>6, <2>7, <2>8
  <1> QED BY <1>4, <1>5

\* What the SELECT for a key of the default agent does.
LEMMA EnsureKeyMoves ==
  ASSUME FInv, NEW t \in Threads, EnsureKey(t)
  PROVE  /\ job[t].pc = "ensureKey" /\ Counts /\ Quiet /\ lagged' = lagged
         /\ job[t].kind \in {"list", "auth", "login"}
         /\ Holds(t) /\ Same(t, {"kind", "agent", "name", "key", "code", "listed"})
         /\ \/ KeysOf(job[t].proj, job[t].agent) # {} /\ Ensured(t, job[t])
            \/ /\ KeysOf(job[t].proj, job[t].agent) = {}
               /\ job'[t].pc = "issue" /\ job'[t].then = "ensured" /\ Same(t, {"proj", "rows"})
  <1>1. job[t].pc = "ensureKey" /\ Counts /\ Quiet /\ lagged' = lagged
    BY ReadsKeep DEF EnsureKey
  <1>2. /\ job \in [Threads -> JobRows] /\ job[t] \in JobRows /\ "issue" \in JobPlaces
        /\ job[t].kind \in {"list", "auth", "login"}
    BY <1>1, ThreadFits DEF JobPlaces, KindFits
  <1>3. CASE KeysOf(job[t].proj, job[t].agent) # {}
    <2>1. Ensured(t, job[t])
      BY <1>3 DEF EnsureKey
    <2>2. Holds(t) /\ Same(t, {"kind", "agent", "name", "key", "code", "listed", "then"})
      BY <1>2, <2>1, EnsuredMoves
    <2> QED BY <1>1, <1>2, <1>3, <2>1, <2>2 DEF Same
  <1>4. CASE KeysOf(job[t].proj, job[t].agent) = {}
    <2>1. job' = [job EXCEPT ![t] = Returning(job[t], "issue", "ensured")]
      BY <1>4 DEF EnsureKey, Set, Returning
    <2>2. job'[t] = Returning(job[t], "issue", "ensured") /\ Holds(t)
      BY <1>2, <2>1, ReturningFields DEF Holds
    <2>3. /\ job'[t].pc = "issue" /\ job'[t].then = "ensured"
          /\ Same(t, {"kind", "proj", "agent", "name", "key", "code", "rows", "listed"})
      BY <1>2, <2>2, ReturningFields DEF Same
    <2> QED BY <1>1, <1>2, <1>4, <2>2, <2>3 DEF Same
  <1> QED BY <1>3, <1>4

\* What the SELECT of list_agents does.
LEMMA ListRowsMoves ==
  ASSUME FInv, NEW t \in Threads, ListRows(t)
  PROVE  /\ job[t].pc = "rows" /\ Counts /\ Quiet /\ lagged' = lagged
         /\ Holds(t) /\ Same(t, {"kind", "proj", "name", "key", "code", "listed", "then"})
         /\ \/ Active(job[t].proj) = {} /\ job'[t].pc = "done" /\ job'[t].answer = 200
            \/ /\ job'[t].rows = Active(job[t].proj) /\ job'[t].agent \in job'[t].rows
               /\ job'[t].pc = "listKey"
  <1>1. job[t].pc = "rows" /\ Counts /\ Quiet /\ lagged' = lagged
    BY ReadsKeep DEF ListRows
  <1>2. job \in [Threads -> JobRows] /\ job[t] \in JobRows
    BY ThreadFits
  <1>3. Active(job[t].proj) \in SUBSET Nat
    BY DEF FInv, RowTypes, Active
  <1>4. CASE Active(job[t].proj) = {}
    <2>1. Answer(t, 200)
      BY <1>4 DEF ListRows
    <2>2. Holds(t) /\ Same(t, RefFields) /\ job'[t].pc = "done" /\ job'[t].answer = 200
      BY <1>2, <2>1, AnswerMoves
    <2> QED BY <1>1, <1>4, <2>2 DEF Same, RefFields
  <1>5. CASE Active(job[t].proj) # {}
    <2> DEFINE as == Active(job[t].proj)
               a == Oldest(as)
    <2>1. job' = [job EXCEPT ![t] = OverRows(job[t], as, a)]
      BY <1>5 DEF ListRows, Set, OverRows
    <2>2. a \in as /\ a \in Nat /\ as \in SUBSET Nat /\ as = Active(job[t].proj)
      BY <1>3, <1>5, OldestIn
    <2> HIDE DEF a, as
    <2>3. job'[t] = OverRows(job[t], as, a) /\ Holds(t)
      BY <1>2, <2>1, <2>2, OverRowsFields DEF Holds
    <2>4. /\ job'[t].pc = "listKey" /\ job'[t].rows = as /\ job'[t].agent = a
          /\ Same(t, {"kind", "proj", "name", "key", "code", "listed", "then"})
      BY <1>2, <2>2, <2>3, OverRowsFields DEF Same
    <2> QED BY <1>1, <2>2, <2>3, <2>4
  <1> QED BY <1>4, <1>5

\* What the SELECT for the latest key of a listed agent does.
LEMMA ListKeyMoves ==
  ASSUME FInv, NEW t \in Threads, ListKey(t)
  PROVE  /\ job[t].pc = "listKey" /\ Counts /\ Quiet /\ lagged' = lagged
         /\ Holds(t) /\ Same(t, {"kind", "proj", "name", "key", "code"})
         /\ \/ \E x \in KeysOf(job[t].proj, job[t].agent) : x \in Nat /\ NextListed(t, x)
            \/ job'[t].pc = "find" /\ job'[t].then = "listKey" /\ Same(t, {"agent", "rows", "listed"})
  <1>1. job[t].pc = "listKey" /\ Counts /\ Quiet /\ lagged' = lagged
    BY ReadsKeep DEF ListKey
  <1>2. job \in [Threads -> JobRows] /\ job[t] \in JobRows /\ "find" \in JobPlaces
    BY ThreadFits DEF JobPlaces
  <1> DEFINE found == KeysOf(job[t].proj, job[t].agent)
  <1>3. Len(keys) \in Nat /\ found \in SUBSET (1..Len(keys))
    BY DEF FInv, RowTypes, KeysOf
  <1>4. CASE found # {} /\ keys[Latest(found)].plain
    <2>1. NextListed(t, Latest(found))
      BY <1>4 DEF ListKey
    <2>2. Latest(found) \in found
      <3> HIDE DEF found
      <3> QED BY <1>3, <1>4, LatestIn
    <2>3. Latest(found) \in Nat
      BY <1>3, <2>2
    <2>4. Holds(t) /\ Same(t, {"kind", "proj", "name", "key", "code", "then"})
      BY <2>1, <2>3, NextListedMoves
    <2> QED BY <1>1, <2>1, <2>2, <2>3, <2>4 DEF Same
  <1>5. CASE ~(found # {} /\ keys[Latest(found)].plain)
    <2>1. job' = [job EXCEPT ![t] = Returning(job[t], "find", "listKey")]
      BY <1>5 DEF ListKey, Set, Returning
    <2>2. job'[t] = Returning(job[t], "find", "listKey") /\ Holds(t)
      BY <1>2, <2>1, ReturningFields DEF Holds
    <2>3. /\ job'[t].pc = "find" /\ job'[t].then = "listKey"
          /\ Same(t, {"kind", "proj", "agent", "name", "key", "code", "rows", "listed"})
      BY <1>2, <2>2, ReturningFields DEF Same
    <2> QED BY <1>1, <2>2, <2>3 DEF Same
  <1> QED BY <1>4, <1>5

\* What the SELECT for the key of a request does.
LEMMA AuthKeyMoves ==
  ASSUME FInv, NEW t \in Threads, AuthKey(t)
  PROVE  /\ job[t].pc = "authKey" /\ Counts /\ Quiet /\ lagged' = lagged
         /\ Holds(t) /\ Same(t, {"kind", "agent", "name", "key", "code", "rows", "listed", "then"})
         /\ \/ job'[t].pc = "done" /\ job'[t].answer = 401
            \/ /\ job[t].key \in DOMAIN keys /\ keys[job[t].key].st = "active"
               /\ job'[t].proj = keys[job[t].key].proj /\ job'[t].pc = "authAgent"
  <1>1. job[t].pc = "authKey" /\ Counts /\ Quiet /\ lagged' = lagged
    BY ReadsKeep DEF AuthKey
  <1>2. job \in [Threads -> JobRows] /\ job[t] \in JobRows /\ job[t].key \in DOMAIN keys
    BY <1>1, ThreadFits DEF RefersTo
  <1>3. CASE keys[job[t].key].st # "active"
    <2>1. Answer(t, 401)
      BY <1>3 DEF AuthKey
    <2>2. Holds(t) /\ Same(t, RefFields) /\ job'[t].pc = "done" /\ job'[t].answer = 401
      BY <1>2, <2>1, AnswerMoves
    <2> QED BY <1>1, <2>2 DEF Same, RefFields
  <1>4. CASE keys[job[t].key].st = "active"
    <2> DEFINE pr == keys[job[t].key].proj
    <2>1. job' = [job EXCEPT ![t] = OfKey(job[t], pr)]
      BY <1>4 DEF AuthKey, Set, OfKey
    <2>2. pr \in Nat
      <3>1. keys[job[t].key] \in ApiKeyRows
        BY <1>2 DEF FInv, RowTypes
      <3> QED BY <3>1 DEF ApiKeyRows
    <2>3. pr = keys[job[t].key].proj
      OBVIOUS
    <2> HIDE DEF pr
    <2>4. job'[t] = OfKey(job[t], pr) /\ Holds(t)
      BY <1>2, <2>1, <2>2, OfKeyFields DEF Holds
    <2>5. /\ job'[t].pc = "authAgent" /\ job'[t].proj = pr
          /\ Same(t, {"kind", "agent", "name", "key", "code", "rows", "listed", "then"})
      BY <1>2, <2>2, <2>4, OfKeyFields DEF Same
    <2> QED BY <1>1, <1>2, <1>4, <2>3, <2>4, <2>5
  <1> QED BY <1>3, <1>4

\* What the SELECT for the agent of a key does.
LEMMA AuthAgentMoves ==
  ASSUME FInv, NEW t \in Threads, AuthAgent(t)
  PROVE  /\ job[t].pc = "authAgent" /\ Counts /\ Quiet /\ lagged' = lagged
         /\ Holds(t) /\ Same(t, {"kind", "proj", "key", "code", "rows", "listed", "then"})
         /\ \/ keys[job[t].key].agent = 0 /\ job'[t].pc = "ensure"
            \/ /\ keys[job[t].key].agent # 0 /\ job'[t].pc = "done" /\ job'[t].answer = 200
               /\ job'[t].agent = keys[job[t].key].agent
               /\ job'[t].agent \in Active(job[t].proj) => job'[t].name = agents[job'[t].agent].name
  <1>1. job[t].pc = "authAgent" /\ Counts /\ Quiet /\ lagged' = lagged
    BY ReadsKeep DEF AuthAgent
  <1>2. /\ job \in [Threads -> JobRows] /\ job[t] \in JobRows /\ job[t].key \in DOMAIN keys
        /\ "ensure" \in JobPlaces
    BY <1>1, ThreadFits DEF RefersTo, JobPlaces
  <1>3. CASE keys[job[t].key].agent = 0
    <2>1. Goto(t, "ensure")
      BY <1>3 DEF AuthAgent
    <2>2. Holds(t) /\ Same(t, RefFields) /\ job'[t].pc = "ensure"
      BY <1>2, <2>1, GotoMoves
    <2> QED BY <1>1, <1>3, <2>2 DEF Same, RefFields
  <1>4. CASE keys[job[t].key].agent # 0
    <2> DEFINE a == keys[job[t].key].agent
               n == IF a \in Active(job[t].proj) THEN agents[a].name ELSE "default"
    <2>1. job' = [job EXCEPT ![t] = Ingesting(job[t], 200, a, n)]
      BY <1>4 DEF AuthAgent, Set, Ingesting
    <2>2. a \in Nat
      <3>1. keys[job[t].key] \in ApiKeyRows
        BY <1>2 DEF FInv, RowTypes
      <3> QED BY <3>1 DEF ApiKeyRows
    <2>3. n \in JobNames
      <3>1. \A b \in DOMAIN agents : agents[b] \in AgentRows
        BY DEF FInv, RowTypes
      <3>2. \A b \in Active(job[t].proj) : agents[b].name \in Names
        BY <3>1 DEF Active, AgentRows
      <3> QED BY <3>2, AccountsAssumption DEF JobNames
    <2>4. a = keys[job[t].key].agent /\ (a \in Active(job[t].proj) => n = agents[a].name)
      OBVIOUS
    <2> HIDE DEF a, n
    <2>5. job'[t] = Ingesting(job[t], 200, a, n) /\ Holds(t)
      <3>1. Ingesting(job[t], 200, a, n) \in JobRows
        BY <1>2, <2>2, <2>3, IngestingFields
      <3> QED BY <1>2, <2>1, <3>1 DEF Holds
    <2>6. /\ job'[t].pc = "done" /\ job'[t].answer = 200 /\ job'[t].agent = a /\ job'[t].name = n
          /\ Same(t, {"kind", "proj", "key", "code", "rows", "listed", "then"})
      <3> DEFINE r == Ingesting(job[t], 200, a, n)
      <3>1. /\ r.pc = "done" /\ r.answer = 200 /\ r.agent = a /\ r.name = n
            /\ \A f \in {"kind", "proj", "key", "code", "rows", "listed", "then"} : r[f] = job[t][f]
        BY <1>2, <2>2, <2>3, IngestingFields
      <3>2. job'[t] = r
        BY <2>5
      <3> HIDE DEF r
      <3> QED BY <3>1, <3>2 DEF Same
    <2> QED BY <1>1, <1>4, <2>4, <2>5, <2>6
  <1> QED BY <1>3, <1>4

\* What the SELECT for a code within the resend interval does.
LEMMA RecentMoves ==
  ASSUME FInv, NEW t \in Threads, Recent(t)
  PROVE  /\ job[t].pc = "recent" /\ Counts /\ Quiet /\ lagged' = lagged
         /\ Holds(t) /\ Same(t, RefFields)
         /\ \/ job'[t].pc = "done" /\ job'[t].answer = 400
            \/ job'[t].pc = "limit" /\ \A c \in DOMAIN codes : codes[c].age # 0
  <1>1. job[t].pc = "recent" /\ Counts /\ Quiet /\ lagged' = lagged
    BY ReadsKeep DEF Recent
  <1>2. job \in [Threads -> JobRows] /\ "limit" \in JobPlaces
    BY ThreadFits DEF JobPlaces
  <1>3. CASE \E c \in DOMAIN codes : codes[c].age = 0
    BY <1>1, <1>2, <1>3, AnswerMoves DEF Recent
  <1>4. CASE ~\E c \in DOMAIN codes : codes[c].age = 0
    BY <1>1, <1>2, <1>4, GotoMoves DEF Recent
  <1> QED BY <1>3, <1>4

\* What the count of codes does.
LEMMA LimitMoves ==
  ASSUME FInv, NEW t \in Threads, Limit(t)
  PROVE  /\ job[t].pc = "limit" /\ Counts /\ Quiet /\ lagged' = lagged
         /\ Holds(t) /\ Same(t, RefFields)
         /\ \/ job'[t].pc = "done" /\ job'[t].answer = 400
            \/ job'[t].pc = "insertCode" /\ ~(Len(codes) >= CodeLimit)
  <1>1. job[t].pc = "limit" /\ Counts /\ Quiet /\ lagged' = lagged
    BY ReadsKeep DEF Limit
  <1>2. job \in [Threads -> JobRows] /\ "insertCode" \in JobPlaces
    BY ThreadFits DEF JobPlaces
  <1>3. CASE Len(codes) >= CodeLimit
    BY <1>1, <1>2, <1>3, AnswerMoves DEF Limit
  <1>4. CASE ~(Len(codes) >= CodeLimit)
    BY <1>1, <1>2, <1>4, GotoMoves DEF Limit
  <1> QED BY <1>3, <1>4

\* What the INSERT of a code does.
LEMMA InsertCodeMoves ==
  ASSUME FInv, NEW t \in Threads, InsertCode(t)
  PROVE  /\ job[t].pc = "insertCode" /\ Counts /\ QuietKeys /\ lagged' = lagged
         /\ users' = users /\ projects' = projects /\ agents' = agents /\ codeMuts' = codeMuts
         /\ codes' = Append(codes, CodeRow)
         /\ Holds(t) /\ Same(t, RefFields) /\ job'[t].pc = "sms"
  <1>1. job[t].pc = "insertCode" /\ Counts /\ "sms" \in JobPlaces
    BY AtKeeps DEF InsertCode, JobPlaces
  <1>2. /\ QuietKeys /\ lagged' = lagged /\ Goto(t, "sms") /\ codes' = Append(codes, CodeRow)
        /\ users' = users /\ projects' = projects /\ agents' = agents /\ codeMuts' = codeMuts
    BY DEF InsertCode, QuietKeys
  <1> QED BY <1>1, <1>2, ThreadFits, GotoMoves

\* What the answer to a request for a code does.
LEMMA SendSmsMoves ==
  ASSUME FInv, NEW t \in Threads, SendSms(t)
  PROVE  /\ job[t].pc = "sms" /\ Counts /\ Quiet /\ lagged' = lagged
         /\ Holds(t) /\ Same(t, RefFields) /\ job'[t].pc = "done" /\ job'[t].answer = 200
  BY ReadsKeep, ThreadFits, AnswerMoves DEF SendSms

\* What the SELECT for the latest active code does.
LEMMA ReadCodeMoves ==
  ASSUME FInv, NEW t \in Threads, ReadCode(t)
  PROVE  /\ job[t].pc = "readCode" /\ Counts /\ Quiet
         /\ Holds(t) /\ Same(t, {"kind", "proj", "agent", "name", "key", "rows", "listed", "then"})
         /\ \/ job'[t].pc = "done" /\ job'[t].answer = 401 /\ lagged' = lagged
            \/ /\ job'[t].pc \in {"consume", "wrong"} /\ job'[t].code \in DOMAIN codes
               /\ codes[job'[t].code].st = "active" /\ codes[job'[t].code].tries < MaxTries
               /\ lagged' = (lagged \/ Pending(job'[t].code))
  <1>1. job[t].pc = "readCode" /\ Counts
    BY AtKeeps DEF ReadCode
  <1>2. Quiet
    BY DEF ReadCode, tableVars, Quiet, QuietLogins, QuietKeys
  <1>3. job \in [Threads -> JobRows] /\ job[t] \in JobRows
    BY ThreadFits
  <1> DEFINE active == {d \in DOMAIN codes : codes[d].st = "active"}
             c == Latest(active)
             q == IF c = job[t].code THEN "consume" ELSE "wrong"
  <1>4. CASE active = {} \/ codes[c].tries >= MaxTries \/ codes[c].age = 2
    <2>1. Answer(t, 401) /\ lagged' = lagged
      BY <1>4 DEF ReadCode
    <2>2. Holds(t) /\ Same(t, RefFields) /\ job'[t].pc = "done" /\ job'[t].answer = 401
      BY <1>3, <2>1, AnswerMoves
    <2> QED BY <1>1, <1>2, <2>1, <2>2 DEF Same, RefFields
  <1>5. CASE ~(active = {} \/ codes[c].tries >= MaxTries \/ codes[c].age = 2)
    <2>1. job' = [job EXCEPT ![t] = WithCode(job[t], c, q)] /\ lagged' = (lagged \/ Pending(c))
      BY <1>5 DEF ReadCode, Set, WithCode
    <2>2. c \in active
      <3>1. Len(codes) \in Nat /\ active \in SUBSET (1..Len(codes)) /\ active # {}
        BY <1>5 DEF FInv, RowTypes
      <3> HIDE DEF active
      <3> QED BY <3>1, LatestIn
    <2>3. c \in Nat /\ c \in DOMAIN codes /\ codes[c].st = "active" /\ codes[c].tries \in Nat
      <3>1. DOMAIN codes \subseteq Nat /\ \A d \in DOMAIN codes : codes[d] \in CodeRows
        BY DEF FInv, RowTypes
      <3> QED BY <2>2, <3>1 DEF CodeRows
    <2>4. codes[c].tries < MaxTries
      BY <1>5, <2>3, AccountsAssumption
    <2>5. q \in JobPlaces /\ q \in {"consume", "wrong"}
      BY DEF JobPlaces
    <2> HIDE DEF c, q, active
    <2>6. job'[t] = WithCode(job[t], c, q) /\ Holds(t)
      BY <1>3, <2>1, <2>3, <2>5, WithCodeFields DEF Holds
    <2>7. /\ job'[t].code = c /\ job'[t].pc = q
          /\ Same(t, {"kind", "proj", "agent", "name", "key", "rows", "listed", "then"})
      BY <1>3, <2>3, <2>5, <2>6, WithCodeFields DEF Same
    <2> QED BY <1>1, <1>2, <2>1, <2>3, <2>4, <2>5, <2>6, <2>7
  <1> QED BY <1>4, <1>5

\* What the UPDATE after a wrong guess does.
LEMMA WrongCodeMoves ==
  ASSUME FInv, NEW t \in Threads, WrongCode(t)
  PROVE  /\ job[t].pc = "wrong" /\ Counts /\ QuietKeys /\ lagged' = lagged
         /\ users' = users /\ projects' = projects /\ agents' = agents
         /\ Holds(t) /\ Same(t, RefFields) /\ job'[t].pc = "done" /\ job'[t].answer = 401
  <1>1. job[t].pc = "wrong" /\ Counts
    BY AtKeeps DEF WrongCode
  <1>2. /\ QuietKeys /\ lagged' = lagged /\ Answer(t, 401)
        /\ users' = users /\ projects' = projects /\ agents' = agents
    BY DEF WrongCode, QuietKeys
  <1> QED BY <1>1, <1>2, ThreadFits, AnswerMoves

\* It counts a guess, and has the attempt counted in the row.
LEMMA WrongCodeWrites ==
  ASSUME NEW t, WrongCode(t)
  PROVE  /\ codeMuts' = Append(codeMuts, [code |-> job[t].code, op |-> "attempt"])
         /\ codes' = [codes EXCEPT ![job[t].code].guesses = @ + 1]
  BY DEF WrongCode, CodeMutation

\* What the UPDATE that consumes a code does.
LEMMA ConsumeMoves ==
  ASSUME FInv, NEW t \in Threads, Consume(t)
  PROVE  /\ job[t].pc = "consume" /\ Counts /\ QuietKeys /\ lagged' = lagged
         /\ users' = users /\ projects' = projects /\ agents' = agents
         /\ codeMuts' = Append(codeMuts, [code |-> job[t].code, op |-> "consume"])
         /\ codes' = [codes EXCEPT ![job[t].code].logins = @ + 1]
         /\ Holds(t) /\ Same(t, RefFields) /\ job'[t].pc = "user"
  <1>1. job[t].pc = "consume" /\ Counts /\ "user" \in JobPlaces
    BY AtKeeps DEF Consume, JobPlaces
  <1>2. /\ QuietKeys /\ lagged' = lagged /\ Goto(t, "user")
        /\ users' = users /\ projects' = projects /\ agents' = agents
        /\ codeMuts' = Append(codeMuts, [code |-> job[t].code, op |-> "consume"])
        /\ codes' = [codes EXCEPT ![job[t].code].logins = @ + 1]
    BY DEF Consume, CodeMutation, QuietKeys
  <1> QED BY <1>1, <1>2, ThreadFits, GotoMoves

\* What latest_user_by_phone does.
LEMMA ReadUserMoves ==
  ASSUME FInv, NEW t \in Threads, ReadUser(t)
  PROVE  /\ job[t].pc = "user" /\ Counts /\ Quiet /\ lagged' = lagged
         /\ Holds(t) /\ Same(t, {"kind", "proj", "agent", "name", "code", "rows", "listed", "then"})
         /\ \/ users = 0 /\ job'[t].pc = "insertUser"
            \/ users # 0 /\ job'[t].pc = "projects" /\ job'[t].key = users
  <1>1. job[t].pc = "user" /\ Counts /\ Quiet /\ lagged' = lagged
    BY ReadsKeep DEF ReadUser
  <1>2. /\ job \in [Threads -> JobRows] /\ job[t] \in JobRows /\ users \in Nat
        /\ "insertUser" \in JobPlaces
    BY ThreadFits DEF FInv, RowTypes, JobPlaces
  <1>3. CASE users = 0
    <2>1. Goto(t, "insertUser")
      BY <1>3 DEF ReadUser
    <2>2. Holds(t) /\ Same(t, RefFields) /\ job'[t].pc = "insertUser"
      BY <1>2, <2>1, GotoMoves
    <2> QED BY <1>1, <1>3, <2>2 DEF Same, RefFields
  <1>4. CASE users # 0
    <2>1. job' = [job EXCEPT ![t] = OfUser(job[t], users)]
      BY <1>4 DEF ReadUser, Set, OfUser
    <2>2. job'[t] = OfUser(job[t], users) /\ Holds(t)
      BY <1>2, <2>1, OfUserFields DEF Holds
    <2>3. /\ job'[t].pc = "projects" /\ job'[t].key = users
          /\ Same(t, {"kind", "proj", "agent", "name", "code", "rows", "listed", "then"})
      BY <1>2, <2>2, OfUserFields DEF Same
    <2> QED BY <1>1, <1>4, <2>2, <2>3
  <1> QED BY <1>3, <1>4

\* What the INSERT of a user does.
LEMMA InsertUserMoves ==
  ASSUME FInv, NEW t \in Threads, InsertUser(t)
  PROVE  /\ job[t].pc = "insertUser" /\ Counts /\ QuietKeys /\ lagged' = lagged
         /\ users' = users + 1 /\ projects' = projects /\ agents' = agents
         /\ codes' = codes /\ codeMuts' = codeMuts
         /\ Holds(t) /\ Same(t, {"kind", "proj", "agent", "name", "code", "rows", "listed", "then"})
         /\ job'[t].pc = "projects" /\ job'[t].key = users + 1
  <1>1. job[t].pc = "insertUser" /\ Counts
    BY AtKeeps DEF InsertUser
  <1>2. /\ QuietKeys /\ lagged' = lagged /\ users' = users + 1 /\ projects' = projects
        /\ agents' = agents /\ codes' = codes /\ codeMuts' = codeMuts
    BY DEF InsertUser, QuietKeys
  <1>3. job \in [Threads -> JobRows] /\ job[t] \in JobRows /\ users + 1 \in Nat
    BY ThreadFits DEF FInv, RowTypes
  <1> DEFINE n == users + 1
  <1>4. job' = [job EXCEPT ![t] = OfUser(job[t], n)] /\ n \in Nat /\ n = users + 1
    BY <1>3 DEF InsertUser, Set, OfUser
  <1> HIDE DEF n
  <1>5. job'[t] = OfUser(job[t], n) /\ Holds(t)
    BY <1>3, <1>4, OfUserFields DEF Holds
  <1>6. /\ job'[t].pc = "projects" /\ job'[t].key = n
        /\ Same(t, {"kind", "proj", "agent", "name", "code", "rows", "listed", "then"})
    BY <1>3, <1>4, <1>5, OfUserFields DEF Same
  <1> QED BY <1>1, <1>2, <1>4, <1>5, <1>6

\* What the SELECT for a user's projects does.
LEMMA ReadProjectsMoves ==
  ASSUME FInv, NEW t \in Threads, ReadProjects(t)
  PROVE  /\ job[t].pc = "projects" /\ Counts /\ Quiet /\ lagged' = lagged
         /\ Holds(t) /\ Same(t, {"kind", "agent", "name", "key", "code", "listed", "then"})
         /\ \/ /\ \A p \in DOMAIN projects : projects[p] # job[t].key
               /\ job'[t].pc = "insertProject" /\ Same(t, {"proj", "rows"})
            \/ /\ job'[t].pc = "ensure" /\ job'[t].proj \in job'[t].rows
               /\ job'[t].rows \subseteq DOMAIN projects
  <1>1. job[t].pc = "projects" /\ Counts /\ Quiet /\ lagged' = lagged
    BY ReadsKeep DEF ReadProjects
  <1>2. job \in [Threads -> JobRows] /\ job[t] \in JobRows /\ "insertProject" \in JobPlaces
    BY ThreadFits DEF JobPlaces
  <1> DEFINE mine == {p \in DOMAIN projects : projects[p] = job[t].key}
             pr == Oldest(mine)
  <1>3. CASE mine = {}
    <2>1. Goto(t, "insertProject")
      BY <1>3 DEF ReadProjects
    <2>2. Holds(t) /\ Same(t, RefFields) /\ job'[t].pc = "insertProject"
      BY <1>2, <2>1, GotoMoves
    <2> QED BY <1>1, <1>3, <2>2 DEF Same, RefFields
  <1>4. CASE mine # {}
    <2>1. job' = [job EXCEPT ![t] = OnProject(job[t], mine, pr)]
      BY <1>4 DEF ReadProjects, Set, OnProject
    <2>2. mine \in SUBSET Nat /\ mine \subseteq DOMAIN projects
      BY DEF FInv, RowTypes
    <2> HIDE DEF mine
    <2>3. pr \in mine /\ pr \in Nat
      BY <1>4, <2>2, OldestIn
    <2> HIDE DEF pr
    <2>4. job'[t] = OnProject(job[t], mine, pr) /\ Holds(t)
      BY <1>2, <2>1, <2>2, <2>3, OnProjectFields DEF Holds
    <2>5. /\ job'[t].pc = "ensure" /\ job'[t].rows = mine /\ job'[t].proj = pr
          /\ Same(t, {"kind", "agent", "name", "key", "code", "listed", "then"})
      BY <1>2, <2>2, <2>3, <2>4, OnProjectFields DEF Same
    <2> QED BY <1>1, <2>2, <2>3, <2>4, <2>5
  <1> QED BY <1>3, <1>4

\* What the INSERT of a project does.
LEMMA InsertProjectRowMoves ==
  ASSUME FInv, NEW t \in Threads, InsertProjectRow(t)
  PROVE  /\ job[t].pc = "insertProject" /\ Counts /\ QuietKeys /\ lagged' = lagged
         /\ users' = users /\ projects' = Append(projects, job[t].key) /\ agents' = agents
         /\ codes' = codes /\ codeMuts' = codeMuts
         /\ Holds(t) /\ Same(t, {"kind", "name", "key", "code", "rows", "listed"})
         /\ job'[t].pc = "issue" /\ job'[t].proj = Len(projects) + 1 /\ job'[t].agent = 0
         /\ job'[t].then = "firstAgent"
  <1>1. job[t].pc = "insertProject" /\ Counts
    BY AtKeeps DEF InsertProjectRow
  <1>2. /\ QuietKeys /\ lagged' = lagged /\ users' = users
        /\ projects' = Append(projects, job[t].key)
        /\ agents' = agents /\ codes' = codes /\ codeMuts' = codeMuts
    BY DEF InsertProjectRow, QuietKeys
  <1>3. job \in [Threads -> JobRows] /\ job[t] \in JobRows /\ Len(projects) + 1 \in Nat
    BY ThreadFits DEF FInv, RowTypes
  <1> DEFINE n == Len(projects) + 1
  <1>4. job' = [job EXCEPT ![t] = WithProject(job[t], n)] /\ n \in Nat /\ n = Len(projects) + 1
    BY <1>3 DEF InsertProjectRow, Set, WithProject
  <1> HIDE DEF n
  <1>5. job'[t] = WithProject(job[t], n) /\ Holds(t)
    BY <1>3, <1>4, WithProjectFields DEF Holds
  <1>6. /\ job'[t].pc = "issue" /\ job'[t].proj = n /\ job'[t].agent = 0 /\ job'[t].then = "firstAgent"
        /\ Same(t, {"kind", "name", "key", "code", "rows", "listed"})
    BY <1>3, <1>4, <1>5, WithProjectFields DEF Same
  <1> QED BY <1>1, <1>2, <1>4, <1>5, <1>6

\* A request of this kind arrives with such parameters.
OfKind(j, kind) == [j EXCEPT !.kind = kind]

\* The fields of such a record.
LEMMA OfKindFields ==
  ASSUME NEW j \in JobRows, NEW kind \in AccountKinds
  PROVE  /\ OfKind(j, kind) \in JobRows /\ OfKind(j, kind).kind = kind
         /\ \A f \in {"pc", "proj", "agent", "name", "key", "code", "rows", "listed", "then"} :
              OfKind(j, kind)[f] = j[f]
  BY DEF JobRows, OfKind

\* A request that has just arrived has its parameters, and a place to begin at.
Arrived(j) ==
  /\ j.rows = {} /\ j.listed = {}
  /\ j.kind = "list" => j.pc = "ensure"
  /\ j.kind = "auth" => j.pc = "authKey"
  /\ j.kind = "code" => j.pc = "recent"
  /\ j.kind = "login" => j.pc = "readCode"
  /\ j.pc \in {"dup", "find", "ensure", "revokeProject", "revokeKey", "authKey", "recent", "readCode"}

\* What the arrival of a request of one kind does.
LEMMA BeginMoves ==
  ASSUME FInv, NEW t \in Threads, NEW kind \in AccountKinds, NEW j \in JobRows, Begin(t, kind, j)
  PROVE  /\ ~Busy(t) /\ kind \in clients /\ Quiet /\ lagged' = lagged /\ clients' = clients
         /\ requests' = requests + 1 /\ faults' = faults
         /\ raced' = raced \cup {{kind, job[u].kind} : u \in {v \in Threads : Busy(v)}}
         /\ Holds(t) /\ job'[t].kind = kind
         /\ \A f \in {"pc", "proj", "agent", "name", "key", "code", "rows", "listed", "then"} :
              job'[t][f] = j[f]
  <1>1. /\ ~Busy(t) /\ kind \in clients /\ Quiet /\ lagged' = lagged /\ clients' = clients
        /\ requests' = requests + 1 /\ faults' = faults
        /\ raced' = raced \cup {{kind, job[u].kind} : u \in {v \in Threads : Busy(v)}}
    BY DEF Begin, tableVars, Quiet, QuietLogins, QuietKeys
  <1>2. job \in [Threads -> JobRows] /\ job' = [job EXCEPT ![t] = OfKind(j, kind)]
    BY ThreadFits DEF Begin, Set, OfKind
  <1>3. job'[t] = OfKind(j, kind) /\ Holds(t)
    <2>1. OfKind(j, kind) \in JobRows
      BY OfKindFields
    <2> QED BY <1>2, <2>1 DEF Holds
  <1> QED BY <1>1, <1>3, OfKindFields

\* What the arrival of a request does.
LEMMA RequestMoves ==
  ASSUME FInv, NEW t \in Threads, Request(t)
  PROVE  /\ ~Busy(t) /\ Quiet /\ lagged' = lagged /\ clients' = clients
         /\ requests' = requests + 1 /\ faults' = faults
         /\ job'[t].kind \in clients /\ job'[t].kind \in AccountKinds
         /\ raced' = raced \cup {{job'[t].kind, job[u].kind} : u \in {v \in Threads : Busy(v)}}
         /\ Holds(t) /\ Arrived(job'[t])
         /\ KindFits(job'[t]) /\ ThenFits(job'[t]) /\ RefersTo(job'[t])
  <1>0. /\ DOMAIN projects \subseteq Nat /\ DOMAIN agents \subseteq Nat /\ DOMAIN keys \subseteq Nat
        /\ 0..Len(codes) \subseteq Nat
    BY DEF FInv, RowTypes
  <1>1. CASE \E p \in DOMAIN projects, n \in Names : Begin(t, "create", [Idle EXCEPT !.pc = "dup", !.proj = p, !.name = n])
    <2>1. PICK p \in DOMAIN projects, n \in Names :
            Begin(t, "create", [Idle EXCEPT !.pc = "dup", !.proj = p, !.name = n])
      BY <1>1
    <2> DEFINE j == [Idle EXCEPT !.pc = "dup", !.proj = p, !.name = n]
    <2>2. /\ j.pc = "dup" /\ j.proj = p /\ j.agent = 0 /\ j.name = n
          /\ j.key = 0 /\ j.code = 0 /\ j.rows = {} /\ j.listed = {} /\ j.then = "done"
      BY DEF Idle
    <2>3. j \in JobRows
      BY <1>0 DEF Idle, JobRows, JobPlaces, JobNames
    <2>4. "create" \in AccountKinds /\ Begin(t, "create", j)
      BY <2>1 DEF AccountKinds, AgentKinds, LoginKinds
    <2> HIDE DEF j
    <2>5. /\ ~Busy(t) /\ "create" \in clients /\ Quiet /\ lagged' = lagged /\ clients' = clients
          /\ requests' = requests + 1 /\ faults' = faults
          /\ raced' = raced \cup {{"create", job[u].kind} : u \in {v \in Threads : Busy(v)}}
          /\ Holds(t) /\ job'[t].kind = "create"
          /\ \A f \in {"pc", "proj", "agent", "name", "key", "code", "rows", "listed", "then"} :
               job'[t][f] = j[f]
      BY <2>3, <2>4, BeginMoves
    <2>6. /\ job'[t].pc = "dup" /\ job'[t].proj = p /\ job'[t].agent = 0
          /\ job'[t].name = n /\ job'[t].key = 0 /\ job'[t].code = 0
          /\ job'[t].rows = {} /\ job'[t].listed = {} /\ job'[t].then = "done"
      BY <2>2, <2>5
    <2>7. Arrived(job'[t]) /\ KindFits(job'[t]) /\ ThenFits(job'[t])
      BY <2>5, <2>6 DEF Arrived, KindFits, ThenFits
    <2>8. RefersTo(job'[t])
      BY <2>5, <2>6 DEF RefersTo, HasProject, Listing
    <2> QED BY <2>4, <2>5, <2>7, <2>8
  <1>2. CASE \E p \in DOMAIN projects, a \in DOMAIN agents, n \in Names :
          Begin(t, "rename", [Idle EXCEPT !.pc = "find", !.proj = p, !.agent = a, !.name = n])
    <2>1. PICK p \in DOMAIN projects, a \in DOMAIN agents, n \in Names :
            Begin(t, "rename", [Idle EXCEPT !.pc = "find", !.proj = p, !.agent = a, !.name = n])
      BY <1>2
    <2> DEFINE j == [Idle EXCEPT !.pc = "find", !.proj = p, !.agent = a, !.name = n]
    <2>2. /\ j.pc = "find" /\ j.proj = p /\ j.agent = a /\ j.name = n
          /\ j.key = 0 /\ j.code = 0 /\ j.rows = {} /\ j.listed = {} /\ j.then = "done"
      BY DEF Idle
    <2>3. j \in JobRows
      BY <1>0 DEF Idle, JobRows, JobPlaces, JobNames
    <2>4. "rename" \in AccountKinds /\ Begin(t, "rename", j)
      BY <2>1 DEF AccountKinds, AgentKinds, LoginKinds
    <2> HIDE DEF j
    <2>5. /\ ~Busy(t) /\ "rename" \in clients /\ Quiet /\ lagged' = lagged /\ clients' = clients
          /\ requests' = requests + 1 /\ faults' = faults
          /\ raced' = raced \cup {{"rename", job[u].kind} : u \in {v \in Threads : Busy(v)}}
          /\ Holds(t) /\ job'[t].kind = "rename"
          /\ \A f \in {"pc", "proj", "agent", "name", "key", "code", "rows", "listed", "then"} :
               job'[t][f] = j[f]
      BY <2>3, <2>4, BeginMoves
    <2>6. /\ job'[t].pc = "find" /\ job'[t].proj = p /\ job'[t].agent = a
          /\ job'[t].name = n /\ job'[t].key = 0 /\ job'[t].code = 0
          /\ job'[t].rows = {} /\ job'[t].listed = {} /\ job'[t].then = "done"
      BY <2>2, <2>5
    <2>7. Arrived(job'[t]) /\ KindFits(job'[t]) /\ ThenFits(job'[t])
      BY <2>5, <2>6 DEF Arrived, KindFits, ThenFits
    <2>8. RefersTo(job'[t])
      BY <2>5, <2>6 DEF RefersTo, HasProject, Listing
    <2> QED BY <2>4, <2>5, <2>7, <2>8
  <1>3. CASE \E p \in DOMAIN projects, a \in DOMAIN agents, kind \in {"delete", "regen"} :
          Begin(t, kind, [Idle EXCEPT !.pc = "find", !.proj = p, !.agent = a])
    <2>1. PICK p \in DOMAIN projects, a \in DOMAIN agents, kind \in {"delete", "regen"} :
            Begin(t, kind, [Idle EXCEPT !.pc = "find", !.proj = p, !.agent = a])
      BY <1>3
    <2> DEFINE j == [Idle EXCEPT !.pc = "find", !.proj = p, !.agent = a]
    <2>2. /\ j.pc = "find" /\ j.proj = p /\ j.agent = a /\ j.name = ""
          /\ j.key = 0 /\ j.code = 0 /\ j.rows = {} /\ j.listed = {} /\ j.then = "done"
      BY DEF Idle
    <2>3. j \in JobRows
      BY <1>0 DEF Idle, JobRows, JobPlaces, JobNames
    <2>4. kind \in AccountKinds /\ Begin(t, kind, j)
      BY <2>1 DEF AccountKinds, AgentKinds, LoginKinds
    <2> HIDE DEF j
    <2>5. /\ ~Busy(t) /\ kind \in clients /\ Quiet /\ lagged' = lagged /\ clients' = clients
          /\ requests' = requests + 1 /\ faults' = faults
          /\ raced' = raced \cup {{kind, job[u].kind} : u \in {v \in Threads : Busy(v)}}
          /\ Holds(t) /\ job'[t].kind = kind
          /\ \A f \in {"pc", "proj", "agent", "name", "key", "code", "rows", "listed", "then"} :
               job'[t][f] = j[f]
      BY <2>3, <2>4, BeginMoves
    <2>6. /\ job'[t].pc = "find" /\ job'[t].proj = p /\ job'[t].agent = a
          /\ job'[t].name = "" /\ job'[t].key = 0 /\ job'[t].code = 0
          /\ job'[t].rows = {} /\ job'[t].listed = {} /\ job'[t].then = "done"
      BY <2>2, <2>5
    <2>7. Arrived(job'[t]) /\ KindFits(job'[t]) /\ ThenFits(job'[t])
      BY <2>5, <2>6 DEF Arrived, KindFits, ThenFits
    <2>8. RefersTo(job'[t])
      BY <2>5, <2>6 DEF RefersTo, HasProject, Listing
    <2> QED BY <2>4, <2>5, <2>7, <2>8
  <1>4. CASE \E p \in DOMAIN projects : Begin(t, "list", [Idle EXCEPT !.pc = "ensure", !.proj = p])
    <2>1. PICK p \in DOMAIN projects :
            Begin(t, "list", [Idle EXCEPT !.pc = "ensure", !.proj = p])
      BY <1>4
    <2> DEFINE j == [Idle EXCEPT !.pc = "ensure", !.proj = p]
    <2>2. /\ j.pc = "ensure" /\ j.proj = p /\ j.agent = 0 /\ j.name = ""
          /\ j.key = 0 /\ j.code = 0 /\ j.rows = {} /\ j.listed = {} /\ j.then = "done"
      BY DEF Idle
    <2>3. j \in JobRows
      BY <1>0 DEF Idle, JobRows, JobPlaces, JobNames
    <2>4. "list" \in AccountKinds /\ Begin(t, "list", j)
      BY <2>1 DEF AccountKinds, AgentKinds, LoginKinds
    <2> HIDE DEF j
    <2>5. /\ ~Busy(t) /\ "list" \in clients /\ Quiet /\ lagged' = lagged /\ clients' = clients
          /\ requests' = requests + 1 /\ faults' = faults
          /\ raced' = raced \cup {{"list", job[u].kind} : u \in {v \in Threads : Busy(v)}}
          /\ Holds(t) /\ job'[t].kind = "list"
          /\ \A f \in {"pc", "proj", "agent", "name", "key", "code", "rows", "listed", "then"} :
               job'[t][f] = j[f]
      BY <2>3, <2>4, BeginMoves
    <2>6. /\ job'[t].pc = "ensure" /\ job'[t].proj = p /\ job'[t].agent = 0
          /\ job'[t].name = "" /\ job'[t].key = 0 /\ job'[t].code = 0
          /\ job'[t].rows = {} /\ job'[t].listed = {} /\ job'[t].then = "done"
      BY <2>2, <2>5
    <2>7. Arrived(job'[t]) /\ KindFits(job'[t]) /\ ThenFits(job'[t])
      BY <2>5, <2>6 DEF Arrived, KindFits, ThenFits
    <2>8. RefersTo(job'[t])
      BY <2>5, <2>6 DEF RefersTo, HasProject, Listing
    <2> QED BY <2>4, <2>5, <2>7, <2>8
  <1>5. CASE \E p \in DOMAIN projects : Begin(t, "project", [Idle EXCEPT !.pc = "revokeProject", !.proj = p])
    <2>1. PICK p \in DOMAIN projects :
            Begin(t, "project", [Idle EXCEPT !.pc = "revokeProject", !.proj = p])
      BY <1>5
    <2> DEFINE j == [Idle EXCEPT !.pc = "revokeProject", !.proj = p]
    <2>2. /\ j.pc = "revokeProject" /\ j.proj = p /\ j.agent = 0 /\ j.name = ""
          /\ j.key = 0 /\ j.code = 0 /\ j.rows = {} /\ j.listed = {} /\ j.then = "done"
      BY DEF Idle
    <2>3. j \in JobRows
      BY <1>0 DEF Idle, JobRows, JobPlaces, JobNames
    <2>4. "project" \in AccountKinds /\ Begin(t, "project", j)
      BY <2>1 DEF AccountKinds, AgentKinds, LoginKinds
    <2> HIDE DEF j
    <2>5. /\ ~Busy(t) /\ "project" \in clients /\ Quiet /\ lagged' = lagged /\ clients' = clients
          /\ requests' = requests + 1 /\ faults' = faults
          /\ raced' = raced \cup {{"project", job[u].kind} : u \in {v \in Threads : Busy(v)}}
          /\ Holds(t) /\ job'[t].kind = "project"
          /\ \A f \in {"pc", "proj", "agent", "name", "key", "code", "rows", "listed", "then"} :
               job'[t][f] = j[f]
      BY <2>3, <2>4, BeginMoves
    <2>6. /\ job'[t].pc = "revokeProject" /\ job'[t].proj = p /\ job'[t].agent = 0
          /\ job'[t].name = "" /\ job'[t].key = 0 /\ job'[t].code = 0
          /\ job'[t].rows = {} /\ job'[t].listed = {} /\ job'[t].then = "done"
      BY <2>2, <2>5
    <2>7. Arrived(job'[t]) /\ KindFits(job'[t]) /\ ThenFits(job'[t])
      BY <2>5, <2>6 DEF Arrived, KindFits, ThenFits
    <2>8. RefersTo(job'[t])
      BY <2>5, <2>6 DEF RefersTo, HasProject, Listing
    <2> QED BY <2>4, <2>5, <2>7, <2>8
  <1>6. CASE \E p \in DOMAIN projects, x \in DOMAIN keys :
          Begin(t, "revoke", [Idle EXCEPT !.pc = "revokeKey", !.proj = p, !.key = x])
    <2>1. PICK p \in DOMAIN projects, x \in DOMAIN keys :
            Begin(t, "revoke", [Idle EXCEPT !.pc = "revokeKey", !.proj = p, !.key = x])
      BY <1>6
    <2> DEFINE j == [Idle EXCEPT !.pc = "revokeKey", !.proj = p, !.key = x]
    <2>2. /\ j.pc = "revokeKey" /\ j.proj = p /\ j.agent = 0 /\ j.name = ""
          /\ j.key = x /\ j.code = 0 /\ j.rows = {} /\ j.listed = {} /\ j.then = "done"
      BY DEF Idle
    <2>3. j \in JobRows
      BY <1>0 DEF Idle, JobRows, JobPlaces, JobNames
    <2>4. "revoke" \in AccountKinds /\ Begin(t, "revoke", j)
      BY <2>1 DEF AccountKinds, AgentKinds, LoginKinds
    <2> HIDE DEF j
    <2>5. /\ ~Busy(t) /\ "revoke" \in clients /\ Quiet /\ lagged' = lagged /\ clients' = clients
          /\ requests' = requests + 1 /\ faults' = faults
          /\ raced' = raced \cup {{"revoke", job[u].kind} : u \in {v \in Threads : Busy(v)}}
          /\ Holds(t) /\ job'[t].kind = "revoke"
          /\ \A f \in {"pc", "proj", "agent", "name", "key", "code", "rows", "listed", "then"} :
               job'[t][f] = j[f]
      BY <2>3, <2>4, BeginMoves
    <2>6. /\ job'[t].pc = "revokeKey" /\ job'[t].proj = p /\ job'[t].agent = 0
          /\ job'[t].name = "" /\ job'[t].key = x /\ job'[t].code = 0
          /\ job'[t].rows = {} /\ job'[t].listed = {} /\ job'[t].then = "done"
      BY <2>2, <2>5
    <2>7. Arrived(job'[t]) /\ KindFits(job'[t]) /\ ThenFits(job'[t])
      BY <2>5, <2>6 DEF Arrived, KindFits, ThenFits
    <2>8. RefersTo(job'[t])
      BY <2>5, <2>6 DEF RefersTo, HasProject, Listing
    <2> QED BY <2>4, <2>5, <2>7, <2>8
  <1>7. CASE \E x \in DOMAIN keys : Begin(t, "auth", [Idle EXCEPT !.pc = "authKey", !.key = x])
    <2>1. PICK x \in DOMAIN keys :
            Begin(t, "auth", [Idle EXCEPT !.pc = "authKey", !.key = x])
      BY <1>7
    <2> DEFINE j == [Idle EXCEPT !.pc = "authKey", !.key = x]
    <2>2. /\ j.pc = "authKey" /\ j.proj = 0 /\ j.agent = 0 /\ j.name = ""
          /\ j.key = x /\ j.code = 0 /\ j.rows = {} /\ j.listed = {} /\ j.then = "done"
      BY DEF Idle
    <2>3. j \in JobRows
      BY <1>0 DEF Idle, JobRows, JobPlaces, JobNames
    <2>4. "auth" \in AccountKinds /\ Begin(t, "auth", j)
      BY <2>1 DEF AccountKinds, AgentKinds, LoginKinds
    <2> HIDE DEF j
    <2>5. /\ ~Busy(t) /\ "auth" \in clients /\ Quiet /\ lagged' = lagged /\ clients' = clients
          /\ requests' = requests + 1 /\ faults' = faults
          /\ raced' = raced \cup {{"auth", job[u].kind} : u \in {v \in Threads : Busy(v)}}
          /\ Holds(t) /\ job'[t].kind = "auth"
          /\ \A f \in {"pc", "proj", "agent", "name", "key", "code", "rows", "listed", "then"} :
               job'[t][f] = j[f]
      BY <2>3, <2>4, BeginMoves
    <2>6. /\ job'[t].pc = "authKey" /\ job'[t].proj = 0 /\ job'[t].agent = 0
          /\ job'[t].name = "" /\ job'[t].key = x /\ job'[t].code = 0
          /\ job'[t].rows = {} /\ job'[t].listed = {} /\ job'[t].then = "done"
      BY <2>2, <2>5
    <2>7. Arrived(job'[t]) /\ KindFits(job'[t]) /\ ThenFits(job'[t])
      BY <2>5, <2>6 DEF Arrived, KindFits, ThenFits
    <2>8. RefersTo(job'[t])
      BY <2>5, <2>6 DEF RefersTo, HasProject, Listing
    <2> QED BY <2>4, <2>5, <2>7, <2>8
  <1>8. CASE Begin(t, "code", [Idle EXCEPT !.pc = "recent"])
    <2>1. Begin(t, "code", [Idle EXCEPT !.pc = "recent"])
      BY <1>8
    <2> DEFINE j == [Idle EXCEPT !.pc = "recent"]
    <2>2. /\ j.pc = "recent" /\ j.proj = 0 /\ j.agent = 0 /\ j.name = ""
          /\ j.key = 0 /\ j.code = 0 /\ j.rows = {} /\ j.listed = {} /\ j.then = "done"
      BY DEF Idle
    <2>3. j \in JobRows
      BY <1>0 DEF Idle, JobRows, JobPlaces, JobNames
    <2>4. "code" \in AccountKinds /\ Begin(t, "code", j)
      BY <2>1 DEF AccountKinds, AgentKinds, LoginKinds
    <2> HIDE DEF j
    <2>5. /\ ~Busy(t) /\ "code" \in clients /\ Quiet /\ lagged' = lagged /\ clients' = clients
          /\ requests' = requests + 1 /\ faults' = faults
          /\ raced' = raced \cup {{"code", job[u].kind} : u \in {v \in Threads : Busy(v)}}
          /\ Holds(t) /\ job'[t].kind = "code"
          /\ \A f \in {"pc", "proj", "agent", "name", "key", "code", "rows", "listed", "then"} :
               job'[t][f] = j[f]
      BY <2>3, <2>4, BeginMoves
    <2>6. /\ job'[t].pc = "recent" /\ job'[t].proj = 0 /\ job'[t].agent = 0
          /\ job'[t].name = "" /\ job'[t].key = 0 /\ job'[t].code = 0
          /\ job'[t].rows = {} /\ job'[t].listed = {} /\ job'[t].then = "done"
      BY <2>2, <2>5
    <2>7. Arrived(job'[t]) /\ KindFits(job'[t]) /\ ThenFits(job'[t])
      BY <2>5, <2>6 DEF Arrived, KindFits, ThenFits
    <2>8. RefersTo(job'[t])
      BY <2>5, <2>6 DEF RefersTo, HasProject, Listing
    <2> QED BY <2>4, <2>5, <2>7, <2>8
  <1>9. CASE \E c \in 0..Len(codes) : Begin(t, "login", [Idle EXCEPT !.pc = "readCode", !.code = c])
    <2>1. PICK c \in 0..Len(codes) :
            Begin(t, "login", [Idle EXCEPT !.pc = "readCode", !.code = c])
      BY <1>9
    <2> DEFINE j == [Idle EXCEPT !.pc = "readCode", !.code = c]
    <2>2. /\ j.pc = "readCode" /\ j.proj = 0 /\ j.agent = 0 /\ j.name = ""
          /\ j.key = 0 /\ j.code = c /\ j.rows = {} /\ j.listed = {} /\ j.then = "done"
      BY DEF Idle
    <2>3. j \in JobRows
      BY <1>0 DEF Idle, JobRows, JobPlaces, JobNames
    <2>4. "login" \in AccountKinds /\ Begin(t, "login", j)
      BY <2>1 DEF AccountKinds, AgentKinds, LoginKinds
    <2> HIDE DEF j
    <2>5. /\ ~Busy(t) /\ "login" \in clients /\ Quiet /\ lagged' = lagged /\ clients' = clients
          /\ requests' = requests + 1 /\ faults' = faults
          /\ raced' = raced \cup {{"login", job[u].kind} : u \in {v \in Threads : Busy(v)}}
          /\ Holds(t) /\ job'[t].kind = "login"
          /\ \A f \in {"pc", "proj", "agent", "name", "key", "code", "rows", "listed", "then"} :
               job'[t][f] = j[f]
      BY <2>3, <2>4, BeginMoves
    <2>6. /\ job'[t].pc = "readCode" /\ job'[t].proj = 0 /\ job'[t].agent = 0
          /\ job'[t].name = "" /\ job'[t].key = 0 /\ job'[t].code = c
          /\ job'[t].rows = {} /\ job'[t].listed = {} /\ job'[t].then = "done"
      BY <2>2, <2>5
    <2>7. Arrived(job'[t]) /\ KindFits(job'[t]) /\ ThenFits(job'[t])
      BY <2>5, <2>6 DEF Arrived, KindFits, ThenFits
    <2>8. RefersTo(job'[t])
      BY <2>5, <2>6 DEF RefersTo, HasProject, Listing
    <2> QED BY <2>4, <2>5, <2>7, <2>8
  <1> QED BY <1>1, <1>2, <1>3, <1>4, <1>5, <1>6, <1>7, <1>8, <1>9 DEF Request

\* What an error in a statement does: the request is answered with 500.
LEMMA RaiseMoves ==
  ASSUME FInv, NEW t \in Threads, Raise(t)
  PROVE  /\ Busy(t) /\ Quiet /\ lagged' = lagged /\ clients' = clients /\ requests' = requests
         /\ raced' = raced /\ faults' = faults + 1
         /\ Holds(t) /\ Same(t, RefFields) /\ job'[t].pc = "done" /\ job'[t].answer = 500
  <1>1. /\ Busy(t) /\ Quiet /\ lagged' = lagged /\ clients' = clients /\ requests' = requests
        /\ raced' = raced /\ faults' = faults + 1 /\ Answer(t, 500)
    BY DEF Raise, tableVars, Quiet, QuietLogins, QuietKeys
  <1> QED BY <1>1, ThreadFits, AnswerMoves

-----------------------------------------------------------------------------
(* Rows are only added, and what they refer to stays *)

Grow ==
  /\ users <= users' /\ Len(projects) <= Len(projects') /\ Len(agents) <= Len(agents')
  /\ Len(keys) <= Len(keys') /\ Len(codes) <= Len(codes')
  /\ \A a \in DOMAIN agents : agents'[a].proj = agents[a].proj
  /\ \A x \in DOMAIN keys : keys'[x].proj = keys[x].proj /\ keys'[x].agent = keys[x].agent

\* Counters and clients after a step.
CountTypes == requests' \in Nat /\ faults' \in Nat /\ clients' = clients

\* A step that writes no table keeps the types and references of rows.
LEMMA QuietGrow ==
  ASSUME FInv, Quiet, CountTypes
  PROVE  RowTypes' /\ RowRefs' /\ Grow
  <1>1. RowTypes' /\ RowRefs'
    BY DEF FInv, RowTypes, RowRefs, Quiet, QuietLogins, QuietKeys, CountTypes
  <1>2. Grow
    BY DEF FInv, RowTypes, Quiet, QuietLogins, QuietKeys, Grow
  <1> QED BY <1>1, <1>2

\* A new agent of a project.
LEMMA AgentAdded ==
  ASSUME FInv, QuietLogins, QuietKeys, CountTypes, NEW p \in DOMAIN projects, NEW n \in Names,
         agents' = Append(agents, AgentRow(p, n))
  PROVE  /\ RowTypes' /\ RowRefs' /\ Grow
         /\ DOMAIN agents' = 1..(Len(agents) + 1) /\ DOMAIN agents = 1..Len(agents)
         /\ Len(agents) \in Nat /\ Len(agents') = Len(agents) + 1
         /\ agents'[Len(agents) + 1] = AgentRow(p, n)
         /\ \A a \in DOMAIN agents : agents'[a] = agents[a]
  <1> DEFINE r == AgentRow(p, n)
  <1>1. /\ r \in AgentRows /\ r.proj = p
    BY DEF AgentRow, AgentRows, FInv, RowTypes
  <1>2. agents \in Seq(AgentRows) /\ Len(agents) \in Nat
    BY DEF FInv, RowTypes
  <1> HIDE DEF r
  <1>3. /\ agents' \in Seq(AgentRows) /\ Len(agents') = Len(agents) + 1
        /\ agents'[Len(agents) + 1] = r
        /\ DOMAIN agents' = 1..(Len(agents) + 1) /\ DOMAIN agents = 1..Len(agents)
        /\ \A a \in DOMAIN agents : agents'[a] = agents[a]
    BY <1>1, <1>2, AppendProperties DEF r
  <1>4. RowTypes'
    BY <1>3 DEF FInv, RowTypes, QuietLogins, QuietKeys, CountTypes
  <1>5. RowRefs'
    BY <1>1, <1>2, <1>3 DEF FInv, RowRefs, QuietLogins, QuietKeys
  <1>6. Grow
    BY <1>2, <1>3 DEF FInv, RowTypes, QuietLogins, QuietKeys, Grow
  <1> QED BY <1>2, <1>3, <1>4, <1>5, <1>6 DEF r

\* An agent's row changes, its project does not.
LEMMA AgentChanged ==
  ASSUME FInv, QuietLogins, QuietKeys, CountTypes, NEW i \in DOMAIN agents, NEW r \in AgentRows,
         r.proj = agents[i].proj, agents' = [agents EXCEPT ![i] = r]
  PROVE  /\ RowTypes' /\ RowRefs' /\ Grow
         /\ DOMAIN agents' = DOMAIN agents /\ Len(agents') = Len(agents) /\ agents'[i] = r
         /\ \A a \in DOMAIN agents : a # i => agents'[a] = agents[a]
  <1>2. agents \in Seq(AgentRows) /\ Len(agents) \in Nat /\ DOMAIN agents = 1..Len(agents)
    BY DEF FInv, RowTypes
  <1>3. /\ agents' \in Seq(AgentRows) /\ Len(agents') = Len(agents)
        /\ \A a \in 1..Len(agents) : agents'[a] = IF a = i THEN r ELSE agents[a]
    BY <1>2, ExceptSeq
  <1>4. DOMAIN agents' = DOMAIN agents
    BY <1>2, <1>3
  <1>5. RowTypes'
    BY <1>3 DEF FInv, RowTypes, QuietLogins, QuietKeys, CountTypes
  <1>6. \A a \in DOMAIN agents : agents'[a].proj = agents[a].proj
    BY <1>2, <1>3
  <1>7. RowRefs'
    BY <1>2, <1>3, <1>4, <1>6 DEF FInv, RowRefs, QuietLogins, QuietKeys
  <1>8. Grow
    BY <1>2, <1>3, <1>6 DEF FInv, RowTypes, QuietLogins, QuietKeys, Grow
  <1> QED BY <1>2, <1>3, <1>4, <1>5, <1>7, <1>8

\* Keys are revoked.
LEMMA KeysRevoked ==
  ASSUME FInv, QuietLogins, agents' = agents, CountTypes, NEW S, keys' = Revoked(S),
         revoking' \subseteq DOMAIN keys
  PROVE  /\ RowTypes' /\ RowRefs' /\ Grow
         /\ DOMAIN keys' = DOMAIN keys /\ Len(keys') = Len(keys)
         /\ \A x \in DOMAIN keys :
              /\ keys'[x].proj = keys[x].proj /\ keys'[x].agent = keys[x].agent
              /\ keys'[x].st = IF x \in S THEN "revoked" ELSE keys[x].st
  <1>1. keys \in Seq(ApiKeyRows) /\ Len(keys) \in Nat /\ DOMAIN keys = 1..Len(keys)
    BY DEF FInv, RowTypes
  <1>2. \A x \in DOMAIN keys : keys[x] \in ApiKeyRows
    BY <1>1
  <1> DEFINE R(x) == [keys[x] EXCEPT !.st = "revoked"]
  <1>3. \A x \in DOMAIN keys : /\ R(x) \in ApiKeyRows /\ R(x).st = "revoked"
                               /\ R(x).proj = keys[x].proj /\ R(x).agent = keys[x].agent
    BY <1>2 DEF ApiKeyRows
  <1>4. DOMAIN keys' = DOMAIN keys /\ \A x \in DOMAIN keys : keys'[x] = IF x \in S THEN R(x) ELSE keys[x]
    BY DEF Revoked
  <1>5. keys' = [x \in 1..Len(keys) |-> keys'[x]]
    BY <1>1 DEF Revoked
  <1> HIDE DEF R
  <1>6. \A x \in 1..Len(keys) : keys'[x] \in ApiKeyRows
    BY <1>1, <1>2, <1>3, <1>4
  <1>7. keys' \in Seq(ApiKeyRows) /\ Len(keys') = Len(keys)
    <2>1. keys' \in Seq(ApiKeyRows)
      BY <1>1, <1>5, <1>6, IsASeq
    <2> QED BY <1>1, <1>4, <2>1
  <1>8. \A x \in DOMAIN keys :
          /\ keys'[x].proj = keys[x].proj /\ keys'[x].agent = keys[x].agent
          /\ keys'[x].st = IF x \in S THEN "revoked" ELSE keys[x].st
    BY <1>3, <1>4
  <1>9. RowTypes'
    BY <1>7 DEF FInv, RowTypes, QuietLogins, CountTypes
  <1>10. RowRefs'
    BY <1>4, <1>8 DEF FInv, RowRefs, QuietLogins
  <1>11. Grow
    BY <1>7, <1>8 DEF FInv, RowTypes, QuietLogins, Grow
  <1> QED BY <1>4, <1>7, <1>8, <1>9, <1>10, <1>11

\* Keys are to be revoked.
LEMMA KeysDoomed ==
  ASSUME FInv, QuietLogins, agents' = agents, keys' = keys, CountTypes, revoking' \subseteq DOMAIN keys
  PROVE  RowTypes' /\ RowRefs' /\ Grow
  <1>1. RowTypes' /\ RowRefs'
    BY DEF FInv, RowTypes, RowRefs, QuietLogins, CountTypes
  <1>2. Grow
    BY DEF FInv, RowTypes, QuietLogins, Grow
  <1> QED BY <1>1, <1>2

\* A new key of a project, and of one of its agents or of none.
LEMMA KeyAdded ==
  ASSUME FInv, QuietLogins, agents' = agents, revoking' = revoking, CountTypes,
         NEW r \in ApiKeyRows, r.proj \in DOMAIN projects, r.agent \in 0..Len(agents),
         r.agent # 0 => agents[r.agent].proj = r.proj, keys' = Append(keys, r)
  PROVE  /\ RowTypes' /\ RowRefs' /\ Grow
         /\ DOMAIN keys' = 1..(Len(keys) + 1) /\ DOMAIN keys = 1..Len(keys)
         /\ Len(keys) \in Nat /\ Len(keys') = Len(keys) + 1
         /\ keys'[Len(keys) + 1] = r
         /\ \A x \in DOMAIN keys : keys'[x] = keys[x]
  <1>2. keys \in Seq(ApiKeyRows) /\ Len(keys) \in Nat
    BY DEF FInv, RowTypes
  <1>3. /\ keys' \in Seq(ApiKeyRows) /\ Len(keys') = Len(keys) + 1
        /\ keys'[Len(keys) + 1] = r
        /\ DOMAIN keys' = 1..(Len(keys) + 1) /\ DOMAIN keys = 1..Len(keys)
        /\ \A x \in DOMAIN keys : keys'[x] = keys[x]
    BY <1>2, AppendProperties
  <1>4. RowTypes'
    BY <1>3 DEF FInv, RowTypes, QuietLogins, CountTypes
  <1>5. RowRefs'
    BY <1>2, <1>3 DEF FInv, RowRefs, QuietLogins
  <1>6. Grow
    BY <1>2, <1>3 DEF FInv, RowTypes, QuietLogins, Grow
  <1> QED BY <1>2, <1>3, <1>4, <1>5, <1>6

\* The tables of the login change, the others do not.
LEMMA CodesChanged ==
  ASSUME FInv, QuietKeys, users' = users, projects' = projects, agents' = agents, CountTypes,
         codes' \in Seq(CodeRows), Len(codes) <= Len(codes'), codeMuts' \in Seq(CodeMutRows),
         \A i \in DOMAIN codeMuts' : codeMuts'[i].code \in DOMAIN codes'
  PROVE  RowTypes' /\ RowRefs' /\ Grow
  <1>1. RowTypes'
    BY DEF FInv, RowTypes, QuietKeys, CountTypes
  <1>2. RowRefs'
    BY DEF FInv, RowRefs, QuietKeys
  <1>3. Grow
    BY DEF FInv, RowTypes, QuietKeys, Grow
  <1> QED BY <1>1, <1>2, <1>3

\* A new code.
LEMMA CodeAdded ==
  ASSUME FInv, QuietKeys, users' = users, projects' = projects, agents' = agents, CountTypes,
         codeMuts' = codeMuts, codes' = Append(codes, CodeRow)
  PROVE  /\ RowTypes' /\ RowRefs' /\ Grow
         /\ DOMAIN codes' = 1..(Len(codes) + 1) /\ DOMAIN codes = 1..Len(codes)
         /\ Len(codes) \in Nat /\ Len(codes') = Len(codes) + 1
         /\ codes'[Len(codes) + 1] = CodeRow
         /\ \A c \in DOMAIN codes : codes'[c] = codes[c]
  <1>1. CodeRow \in CodeRows
    BY DEF CodeRow, CodeRows
  <1>2. codes \in Seq(CodeRows) /\ Len(codes) \in Nat
    BY DEF FInv, RowTypes
  <1>3. /\ codes' \in Seq(CodeRows) /\ Len(codes') = Len(codes) + 1
        /\ codes'[Len(codes) + 1] = CodeRow
        /\ DOMAIN codes' = 1..(Len(codes) + 1) /\ DOMAIN codes = 1..Len(codes)
        /\ \A c \in DOMAIN codes : codes'[c] = codes[c]
    BY <1>1, <1>2, AppendProperties
  <1>4. codeMuts' \in Seq(CodeMutRows) /\ \A i \in DOMAIN codeMuts' : codeMuts'[i].code \in DOMAIN codes'
    BY <1>2, <1>3 DEF FInv, RowTypes, RowRefs
  <1>5. RowTypes' /\ RowRefs' /\ Grow
    BY <1>2, <1>3, <1>4, CodesChanged
  <1> QED BY <1>2, <1>3, <1>5

\* A code's row changes.
LEMMA CodeSet ==
  ASSUME FInv, NEW c \in DOMAIN codes, NEW r \in CodeRows, codes' = [codes EXCEPT ![c] = r]
  PROVE  /\ codes' \in Seq(CodeRows) /\ Len(codes') = Len(codes) /\ DOMAIN codes' = DOMAIN codes
         /\ codes'[c] = r /\ \A d \in DOMAIN codes : d # c => codes'[d] = codes[d]
  <1>1. codes \in Seq(CodeRows) /\ Len(codes) \in Nat /\ DOMAIN codes = 1..Len(codes)
    BY DEF FInv, RowTypes
  <1>2. /\ codes' \in Seq(CodeRows) /\ Len(codes') = Len(codes)
        /\ \A d \in 1..Len(codes) : codes'[d] = IF d = c THEN r ELSE codes[d]
    BY <1>1, ExceptSeq
  <1>3. DOMAIN codes' = DOMAIN codes
    BY <1>1, <1>2
  <1> QED BY <1>1, <1>2, <1>3

\* A wrong guess is counted, and the attempt sent to be added to the row.
LEMMA WrongCodeTables ==
  ASSUME FInv, NEW t \in Threads, WrongCode(t), CountTypes
  PROVE  LET c == job[t].code IN
         /\ c \in DOMAIN codes
         /\ RowTypes' /\ RowRefs' /\ Grow
         /\ Len(codes') = Len(codes) /\ DOMAIN codes' = DOMAIN codes
         /\ codes'[c].guesses = codes[c].guesses + 1 /\ codes'[c].logins = codes[c].logins
         /\ codes'[c].st = codes[c].st /\ codes'[c].tries = codes[c].tries
         /\ codes'[c].age = codes[c].age
         /\ \A d \in DOMAIN codes : d # c => codes'[d] = codes[d]
         /\ Len(codeMuts) \in Nat
         /\ DOMAIN codeMuts' = 1..(Len(codeMuts) + 1) /\ DOMAIN codeMuts = 1..Len(codeMuts)
         /\ codeMuts'[Len(codeMuts) + 1].code = c /\ codeMuts'[Len(codeMuts) + 1].op = "attempt"
         /\ \A i \in DOMAIN codeMuts : codeMuts'[i] = codeMuts[i]
  <1> DEFINE c == job[t].code
             r == [codes[c] EXCEPT !.guesses = @ + 1]
             m == [code |-> c, op |-> "attempt"]
  <1>1. /\ QuietKeys /\ users' = users /\ projects' = projects /\ agents' = agents
        /\ codeMuts' = Append(codeMuts, m) /\ codes' = [codes EXCEPT ![c] = r]
    BY WrongCodeMoves, WrongCodeWrites
  <1>2. c \in DOMAIN codes
    BY WrongCodeMoves, ThreadFits DEF RefersTo
  <1>3. codes[c] \in CodeRows
    BY <1>2 DEF FInv, RowTypes
  <1>4. /\ r \in CodeRows /\ r.guesses = codes[c].guesses + 1 /\ r.logins = codes[c].logins
        /\ r.st = codes[c].st /\ r.tries = codes[c].tries /\ r.age = codes[c].age
    BY <1>3 DEF CodeRows
  <1>5. m \in CodeMutRows /\ m.code = c /\ m.op = "attempt"
    BY <1>2 DEF CodeMutRows, FInv, RowTypes
  <1>6. codeMuts \in Seq(CodeMutRows) /\ Len(codeMuts) \in Nat /\ Len(codes) \in Nat
    BY DEF FInv, RowTypes
  <1>7. c = job[t].code
    OBVIOUS
  <1> HIDE DEF r, m, c
  <1>8. /\ codes' \in Seq(CodeRows) /\ Len(codes') = Len(codes) /\ DOMAIN codes' = DOMAIN codes
        /\ codes'[c] = r /\ \A d \in DOMAIN codes : d # c => codes'[d] = codes[d]
    BY <1>1, <1>2, <1>4, CodeSet
  <1>9. /\ codeMuts' \in Seq(CodeMutRows) /\ codeMuts'[Len(codeMuts) + 1] = m
        /\ DOMAIN codeMuts' = 1..(Len(codeMuts) + 1) /\ DOMAIN codeMuts = 1..Len(codeMuts)
        /\ \A i \in DOMAIN codeMuts : codeMuts'[i] = codeMuts[i]
    BY <1>1, <1>5, <1>6, AppendProperties
  <1>10. \A i \in DOMAIN codeMuts' : codeMuts'[i].code \in DOMAIN codes'
    BY <1>2, <1>5, <1>6, <1>8, <1>9 DEF FInv, RowRefs
  <1>11. RowTypes' /\ RowRefs' /\ Grow
    BY <1>1, <1>6, <1>8, <1>9, <1>10, CodesChanged
  <1> QED BY <1>2, <1>4, <1>5, <1>6, <1>7, <1>8, <1>9, <1>11

\* A login is counted, and the code sent to be marked as consumed.
LEMMA ConsumeTables ==
  ASSUME FInv, NEW t \in Threads, Consume(t), CountTypes
  PROVE  LET c == job[t].code IN
         /\ c \in DOMAIN codes
         /\ RowTypes' /\ RowRefs' /\ Grow
         /\ Len(codes') = Len(codes) /\ DOMAIN codes' = DOMAIN codes
         /\ codes'[c].logins = codes[c].logins + 1 /\ codes'[c].guesses = codes[c].guesses
         /\ codes'[c].st = codes[c].st /\ codes'[c].tries = codes[c].tries
         /\ codes'[c].age = codes[c].age
         /\ \A d \in DOMAIN codes : d # c => codes'[d] = codes[d]
         /\ Len(codeMuts) \in Nat
         /\ DOMAIN codeMuts' = 1..(Len(codeMuts) + 1) /\ DOMAIN codeMuts = 1..Len(codeMuts)
         /\ codeMuts'[Len(codeMuts) + 1].code = c /\ codeMuts'[Len(codeMuts) + 1].op = "consume"
         /\ \A i \in DOMAIN codeMuts : codeMuts'[i] = codeMuts[i]
  <1> DEFINE c == job[t].code
             r == [codes[c] EXCEPT !.logins = @ + 1]
             m == [code |-> c, op |-> "consume"]
  <1>1. /\ QuietKeys /\ users' = users /\ projects' = projects /\ agents' = agents
        /\ codeMuts' = Append(codeMuts, m) /\ codes' = [codes EXCEPT ![c] = r]
    BY ConsumeMoves
  <1>2. c \in DOMAIN codes
    BY ConsumeMoves, ThreadFits DEF RefersTo
  <1>3. codes[c] \in CodeRows
    BY <1>2 DEF FInv, RowTypes
  <1>4. /\ r \in CodeRows /\ r.logins = codes[c].logins + 1 /\ r.guesses = codes[c].guesses
        /\ r.st = codes[c].st /\ r.tries = codes[c].tries /\ r.age = codes[c].age
    BY <1>3 DEF CodeRows
  <1>5. m \in CodeMutRows /\ m.code = c /\ m.op = "consume"
    BY <1>2 DEF CodeMutRows, FInv, RowTypes
  <1>6. codeMuts \in Seq(CodeMutRows) /\ Len(codeMuts) \in Nat /\ Len(codes) \in Nat
    BY DEF FInv, RowTypes
  <1>7. c = job[t].code
    OBVIOUS
  <1> HIDE DEF r, m, c
  <1>8. /\ codes' \in Seq(CodeRows) /\ Len(codes') = Len(codes) /\ DOMAIN codes' = DOMAIN codes
        /\ codes'[c] = r /\ \A d \in DOMAIN codes : d # c => codes'[d] = codes[d]
    BY <1>1, <1>2, <1>4, CodeSet
  <1>9. /\ codeMuts' \in Seq(CodeMutRows) /\ codeMuts'[Len(codeMuts) + 1] = m
        /\ DOMAIN codeMuts' = 1..(Len(codeMuts) + 1) /\ DOMAIN codeMuts = 1..Len(codeMuts)
        /\ \A i \in DOMAIN codeMuts : codeMuts'[i] = codeMuts[i]
    BY <1>1, <1>5, <1>6, AppendProperties
  <1>10. \A i \in DOMAIN codeMuts' : codeMuts'[i].code \in DOMAIN codes'
    BY <1>2, <1>5, <1>6, <1>8, <1>9 DEF FInv, RowRefs
  <1>11. RowTypes' /\ RowRefs' /\ Grow
    BY <1>1, <1>6, <1>8, <1>9, <1>10, CodesChanged
  <1> QED BY <1>2, <1>4, <1>5, <1>6, <1>7, <1>8, <1>9, <1>11

\* Time passes.
LEMMA TickMoves ==
  ASSUME FInv, Tick
  PROVE  /\ job' = job /\ lagged' = lagged /\ Counts /\ QuietKeys /\ agents' = agents
         /\ users' = users /\ projects' = projects /\ codeMuts' = codeMuts
         /\ RowTypes' /\ RowRefs' /\ Grow
         /\ Len(codes') = Len(codes) /\ DOMAIN codes' = DOMAIN codes
         /\ \A c \in DOMAIN codes :
              /\ codes'[c].age = 0 => codes[c].age = 0
              /\ codes'[c].st = codes[c].st /\ codes'[c].tries = codes[c].tries
              /\ codes'[c].logins = codes[c].logins /\ codes'[c].guesses = codes[c].guesses
  <1>1. /\ job' = job /\ lagged' = lagged /\ Counts /\ QuietKeys /\ agents' = agents
        /\ users' = users /\ projects' = projects /\ codeMuts' = codeMuts
    BY DEF Tick, Counts, countVars, QuietKeys
  <1>2. codes \in Seq(CodeRows) /\ Len(codes) \in Nat /\ DOMAIN codes = 1..Len(codes)
        /\ codeMuts \in Seq(CodeMutRows)
    BY DEF FInv, RowTypes
  <1> DEFINE R(c) == [codes[c] EXCEPT !.age = IF @ = 2 THEN 2 ELSE @ + 1]
  <1>3. \A c \in DOMAIN codes :
          /\ R(c) \in CodeRows /\ R(c).age # 0
          /\ R(c).st = codes[c].st /\ R(c).tries = codes[c].tries
          /\ R(c).logins = codes[c].logins /\ R(c).guesses = codes[c].guesses
    <2>1. \A c \in DOMAIN codes : codes[c] \in CodeRows
      BY <1>2
    <2> QED BY <2>1 DEF CodeRows
  <1>4. codes' = [c \in DOMAIN codes |-> R(c)]
    BY DEF Tick
  <1> HIDE DEF R
  <1>5. DOMAIN codes' = DOMAIN codes /\ \A c \in DOMAIN codes : codes'[c] = R(c)
    BY <1>4
  <1>6. codes' \in Seq(CodeRows) /\ Len(codes') = Len(codes)
    <2>1. codes' \in Seq(CodeRows)
      BY <1>2, <1>3, <1>4, IsASeq
    <2> QED BY <1>2, <1>5, <2>1
  <1>7. \A i \in DOMAIN codeMuts' : codeMuts'[i].code \in DOMAIN codes'
    BY <1>1, <1>5 DEF FInv, RowRefs
  <1>8. CountTypes
    BY <1>1 DEF Counts, CountTypes, FInv, RowTypes
  <1>9. RowTypes' /\ RowRefs' /\ Grow
    BY <1>1, <1>2, <1>6, <1>7, <1>8, CodesChanged
  <1> QED BY <1>1, <1>3, <1>5, <1>6, <1>9

\* A mutation is applied.
LEMMA MutationMoves ==
  ASSUME FInv, CodeMutationApplied
  PROVE  /\ job' = job /\ lagged' = lagged /\ Counts /\ QuietKeys /\ agents' = agents
         /\ users' = users /\ projects' = projects
         /\ RowTypes' /\ RowRefs' /\ Grow
         /\ Len(codeMuts) \in Nat /\ Len(codeMuts) > 0 /\ DOMAIN codeMuts = 1..Len(codeMuts)
         /\ DOMAIN codeMuts' = 1..(Len(codeMuts) - 1)
         /\ \A i \in DOMAIN codeMuts' : codeMuts'[i] = codeMuts[i + 1]
         /\ Len(codes') = Len(codes) /\ DOMAIN codes' = DOMAIN codes
         /\ codeMuts[1].code \in DOMAIN codes
         /\ \A d \in DOMAIN codes : d # codeMuts[1].code => codes'[d] = codes[d]
         /\ LET c == codeMuts[1].code IN
            /\ codes'[c].age = codes[c].age
            /\ codes'[c].logins = codes[c].logins /\ codes'[c].guesses = codes[c].guesses
            /\ \/ /\ codeMuts[1].op = "consume" /\ codes'[c].st = "consumed"
                  /\ codes'[c].tries = codes[c].tries
               \/ /\ codeMuts[1].op = "attempt" /\ codes'[c].st = codes[c].st
                  /\ codes'[c].tries = codes[c].tries + 1
  <1>1. /\ job' = job /\ lagged' = lagged /\ Counts /\ QuietKeys /\ agents' = agents
        /\ users' = users /\ projects' = projects /\ codeMuts' = Tail(codeMuts) /\ codeMuts # <<>>
    BY DEF CodeMutationApplied, Counts, countVars, QuietKeys
  <1>2. codeMuts \in Seq(CodeMutRows)
    BY DEF FInv, RowTypes
  <1>3. /\ Len(codeMuts) \in Nat /\ Len(codeMuts) > 0 /\ DOMAIN codeMuts = 1..Len(codeMuts)
        /\ codeMuts' \in Seq(CodeMutRows) /\ DOMAIN codeMuts' = 1..(Len(codeMuts) - 1)
        /\ \A i \in DOMAIN codeMuts' : codeMuts'[i] = codeMuts[i + 1]
        /\ Head(codeMuts) = codeMuts[1]
    BY <1>1, <1>2, HeadTailProperties
  <1>4. /\ codeMuts[1] \in CodeMutRows /\ 1 \in DOMAIN codeMuts
        /\ codeMuts[1].code \in DOMAIN codes /\ codeMuts[1].op \in {"attempt", "consume"}
    <2>1. codeMuts[1] \in CodeMutRows /\ 1 \in DOMAIN codeMuts
      BY <1>2, <1>3
    <2>2. codeMuts[1].op \in {"attempt", "consume"}
      BY <2>1 DEF CodeMutRows
    <2>3. codeMuts[1].code \in DOMAIN codes
      BY <2>1 DEF FInv, RowRefs
    <2> QED BY <2>1, <2>2, <2>3
  <1> DEFINE c == codeMuts[1].code
             r == IF codeMuts[1].op = "consume" THEN [codes[c] EXCEPT !.st = "consumed"]
                                                ELSE [codes[c] EXCEPT !.tries = @ + 1]
  <1>5. codes' = [codes EXCEPT ![c] = r]
    <2>1. CASE codeMuts[1].op = "consume"
      BY <1>3, <2>1 DEF CodeMutationApplied
    <2>2. CASE codeMuts[1].op # "consume"
      BY <1>3, <2>2 DEF CodeMutationApplied
    <2> QED BY <2>1, <2>2
  <1>6. codes[c] \in CodeRows
    BY <1>4 DEF FInv, RowTypes
  <1>7. /\ r \in CodeRows /\ r.age = codes[c].age /\ r.logins = codes[c].logins
        /\ r.guesses = codes[c].guesses
        /\ \/ codeMuts[1].op = "consume" /\ r.st = "consumed" /\ r.tries = codes[c].tries
           \/ codeMuts[1].op = "attempt" /\ r.st = codes[c].st /\ r.tries = codes[c].tries + 1
    <2>1. CASE codeMuts[1].op = "consume"
      BY <1>6, <2>1 DEF CodeRows
    <2>2. CASE codeMuts[1].op = "attempt"
      BY <1>6, <2>2 DEF CodeRows
    <2> QED BY <1>4, <2>1, <2>2
  <1>8. c \in DOMAIN codes
    BY <1>4
  <1> HIDE DEF r, c
  <1>9. /\ codes' \in Seq(CodeRows) /\ Len(codes') = Len(codes) /\ DOMAIN codes' = DOMAIN codes
        /\ codes'[c] = r /\ \A d \in DOMAIN codes : d # c => codes'[d] = codes[d]
    BY <1>5, <1>7, <1>8, CodeSet
  <1>10. \A i \in DOMAIN codeMuts' : codeMuts'[i].code \in DOMAIN codes'
    BY <1>3, <1>9 DEF FInv, RowRefs
  <1>11. CountTypes /\ Len(codes) \in Nat
    BY <1>1 DEF Counts, CountTypes, FInv, RowTypes
  <1>12. RowTypes' /\ RowRefs' /\ Grow
    BY <1>1, <1>3, <1>9, <1>10, <1>11, CodesChanged
  <1> QED BY <1>1, <1>3, <1>4, <1>7, <1>9, <1>12 DEF c

\* A new user; a new project of a user.
LEMMA UserAdded ==
  ASSUME FInv, QuietKeys, users' = users + 1, projects' = projects, agents' = agents, CountTypes,
         codes' = codes, codeMuts' = codeMuts
  PROVE  RowTypes' /\ RowRefs' /\ Grow
  <1>1. RowTypes'
    BY DEF FInv, RowTypes, QuietKeys, CountTypes
  <1>2. RowRefs'
    <2>1. users \in Nat /\ \A p \in DOMAIN projects : projects[p] \in 1..users
      BY DEF FInv, RowTypes, RowRefs
    <2>2. \A p \in DOMAIN projects : projects[p] \in 1..(users + 1)
      BY <2>1
    <2> QED BY <2>2 DEF FInv, RowRefs, QuietKeys
  <1>3. Grow
    BY DEF FInv, RowTypes, QuietKeys, Grow
  <1> QED BY <1>1, <1>2, <1>3

\* The tables after the INSERT of a project.
LEMMA ProjectAdded ==
  ASSUME FInv, QuietKeys, users' = users, agents' = agents, CountTypes,
         codes' = codes, codeMuts' = codeMuts, NEW x \in 1..users, projects' = Append(projects, x)
  PROVE  /\ RowTypes' /\ RowRefs' /\ Grow
         /\ DOMAIN projects' = 1..(Len(projects) + 1) /\ DOMAIN projects = 1..Len(projects)
         /\ Len(projects) \in Nat /\ Len(projects') = Len(projects) + 1
  <1>1. projects \in Seq(Nat) /\ Len(projects) \in Nat /\ users \in Nat /\ x \in Nat
    BY DEF FInv, RowTypes
  <1>2. /\ projects' \in Seq(Nat) /\ Len(projects') = Len(projects) + 1
        /\ projects'[Len(projects) + 1] = x
        /\ DOMAIN projects' = 1..(Len(projects) + 1) /\ DOMAIN projects = 1..Len(projects)
        /\ \A p \in DOMAIN projects : projects'[p] = projects[p]
    BY <1>1, AppendProperties
  <1>3. RowTypes'
    BY <1>2 DEF FInv, RowTypes, QuietKeys, CountTypes
  <1>4. RowRefs'
    BY <1>1, <1>2 DEF FInv, RowRefs, QuietKeys
  <1>5. Grow
    BY <1>1, <1>2 DEF FInv, RowTypes, QuietKeys, Grow
  <1> QED BY <1>1, <1>2, <1>3, <1>4, <1>5

-----------------------------------------------------------------------------
(* The types of the accounts are kept *)

\* A thread that does not move still refers to rows that are there.
LEMMA RefsKept ==
  ASSUME FInv, RowTypes', Grow, NEW u \in Threads, job'[u] = job[u]
  PROVE  RefersTo(job[u])'
  <1>1. RefersTo(job[u])
    BY ThreadFits
  <1>2. /\ Len(projects) \in Nat /\ Len(agents) \in Nat /\ Len(keys) \in Nat /\ Len(codes) \in Nat
        /\ Len(projects') \in Nat /\ Len(agents') \in Nat /\ Len(keys') \in Nat /\ Len(codes') \in Nat
        /\ DOMAIN projects = 1..Len(projects) /\ DOMAIN projects' = 1..Len(projects')
        /\ DOMAIN agents = 1..Len(agents) /\ DOMAIN agents' = 1..Len(agents')
        /\ DOMAIN keys = 1..Len(keys) /\ DOMAIN keys' = 1..Len(keys')
        /\ DOMAIN codes = 1..Len(codes) /\ DOMAIN codes' = 1..Len(codes')
        /\ users \in Nat /\ users' \in Nat
    BY DEF FInv, RowTypes
  <1>3. /\ DOMAIN projects \subseteq DOMAIN projects' /\ DOMAIN agents \subseteq DOMAIN agents'
        /\ DOMAIN keys \subseteq DOMAIN keys' /\ DOMAIN codes \subseteq DOMAIN codes'
        /\ 1..users \subseteq 1..users'
    BY <1>2 DEF Grow
  <1>4. OwnAgent(job[u]) => OwnAgent(job[u])'
    BY <1>3 DEF OwnAgent, Grow
  <1>5. Listing(job[u])' = Listing(job[u])
    BY DEF Listing
  <1> QED BY <1>1, <1>3, <1>4, <1>5 DEF RefersTo, Grow

\* A step of a thread that had a request to serve.
LEMMA WorkKeeps ==
  ASSUME FInv, NEW t \in Threads, Holds(t), RowTypes', RowRefs', Grow, raced' = raced,
         lagged' \in BOOLEAN, KindFits(job'[t]), ThenFits(job'[t]), RefersTo(job[t])',
         job'[t].kind = job[t].kind, Busy(t)
  PROVE  FInv'
  <1>1. ASSUME NEW u \in Threads
        PROVE  (KindFits(job[u]) /\ ThenFits(job[u]) /\ RefersTo(job[u]))'
    <2>1. CASE u = t
      BY <2>1
    <2>2. CASE u # t
      <3>1. job'[u] = job[u]
        BY <2>2 DEF Holds
      <3>2. RefersTo(job[u])'
        BY <3>1, RefsKept
      <3>3. KindFits(job[u]) /\ ThenFits(job[u])
        BY ThreadFits
      <3> QED BY <3>1, <3>2, <3>3
    <2> QED BY <2>1, <2>2
  <1>2. Overlaps'
    <2> SUFFICES ASSUME NEW u \in Threads, NEW v \in Threads, u # v, Busy(u)', Busy(v)'
                 PROVE  {job'[u].kind, job'[v].kind} \in raced
      BY DEF Overlaps
    <2>1. Busy(u) /\ job'[u].kind = job[u].kind
      BY DEF Holds, Busy
    <2>2. Busy(v) /\ job'[v].kind = job[v].kind
      BY DEF Holds, Busy
    <2> QED BY <2>1, <2>2 DEF FInv, Overlaps
  <1>3. job' \in [Threads -> JobRows] /\ raced' \subseteq SUBSET AccountKinds
    BY DEF Holds, FInv
  <1> QED BY <1>1, <1>2, <1>3 DEF FInv

\* A request arrives.
LEMMA RequestFInv ==
  ASSUME FInv, NEW t \in Threads, Request(t)
  PROVE  FInv'
  <1>1. /\ ~Busy(t) /\ Quiet /\ lagged' = lagged /\ clients' = clients
        /\ requests' = requests + 1 /\ faults' = faults
        /\ job'[t].kind \in clients /\ job'[t].kind \in AccountKinds
        /\ raced' = raced \cup {{job'[t].kind, job[u].kind} : u \in {v \in Threads : Busy(v)}}
        /\ Holds(t) /\ Arrived(job'[t])
        /\ KindFits(job'[t]) /\ ThenFits(job'[t]) /\ RefersTo(job'[t])
    BY RequestMoves
  <1>2. CountTypes
    BY <1>1 DEF CountTypes, FInv, RowTypes
  <1>3. RowTypes' /\ RowRefs' /\ Grow
    BY <1>1, <1>2, QuietGrow
  <1>4. ASSUME NEW u \in Threads
        PROVE  (KindFits(job[u]) /\ ThenFits(job[u]) /\ RefersTo(job[u]))'
    <2>1. CASE u = t
      <3>1. RefersTo(job[t])'
        BY <1>1 DEF RefersTo, OwnAgent, Listing, Quiet, QuietLogins, QuietKeys
      <3> QED BY <1>1, <2>1, <3>1
    <2>2. CASE u # t
      <3>1. job'[u] = job[u]
        BY <1>1, <2>2 DEF Holds
      <3>2. RefersTo(job[u])'
        BY <1>3, <3>1, RefsKept
      <3>3. KindFits(job[u]) /\ ThenFits(job[u])
        BY ThreadFits
      <3> QED BY <3>1, <3>2, <3>3
    <2> QED BY <2>1, <2>2
  <1>5. \A u \in Threads : Busy(u) => job[u].kind \in AccountKinds
    <2> SUFFICES ASSUME NEW u \in Threads, Busy(u) PROVE job[u].kind \in AccountKinds
      OBVIOUS
    <2>1. job[u] \in JobRows /\ KindFits(job[u])
      BY ThreadFits
    <2>2. job[u].pc \in JobPlaces \ {"idle", "done"} /\ job[u].kind \in AccountKinds \cup {"none"}
      BY <2>1 DEF JobRows, Busy
    <2>3. job[u].kind # "none"
      BY <2>1, <2>2 DEF KindFits, JobPlaces
    <2> QED BY <2>2, <2>3
  <1>6. raced' \subseteq SUBSET AccountKinds /\ raced \subseteq raced'
    BY <1>1, <1>5 DEF FInv
  <1>7. Overlaps'
    <2> SUFFICES ASSUME NEW u \in Threads, NEW v \in Threads, u # v, Busy(u)', Busy(v)'
                 PROVE  {job'[u].kind, job'[v].kind} \in raced'
      BY DEF Overlaps
    <2>1. \A w \in Threads : w # t => job'[w] = job[w]
      BY <1>1 DEF Holds
    <2>2. CASE u # t /\ v # t
      BY <1>6, <2>1, <2>2 DEF FInv, Overlaps, Busy
    <2>3. CASE u = t
      <3>1. Busy(v) /\ job'[v].kind = job[v].kind
        BY <2>1, <2>3 DEF Busy
      <3> QED BY <1>1, <2>3, <3>1
    <2>4. CASE v = t
      <3>1. Busy(u) /\ job'[u].kind = job[u].kind
        BY <2>1, <2>4 DEF Busy
      <3>2. {job'[v].kind, job[u].kind} \in raced'
        BY <1>1, <2>4, <3>1
      <3>3. {job'[u].kind, job'[v].kind} = {job'[v].kind, job[u].kind}
        BY <3>1
      <3> QED BY <3>2, <3>3
    <2> QED BY <2>2, <2>3, <2>4
  <1>8. job' \in [Threads -> JobRows] /\ lagged' \in BOOLEAN
    BY <1>1 DEF Holds, FInv
  <1> QED BY <1>3, <1>4, <1>6, <1>7, <1>8 DEF FInv

\* A step without a thread of its own.
LEMMA BackgroundKeeps ==
  ASSUME FInv, RowTypes', RowRefs', Grow, raced' = raced, lagged' \in BOOLEAN, job' = job
  PROVE  FInv'
  <1>1. ASSUME NEW u \in Threads
        PROVE  (KindFits(job[u]) /\ ThenFits(job[u]) /\ RefersTo(job[u]))'
    <2>1. RefersTo(job[u])'
      BY RefsKept
    <2> QED BY <2>1, ThreadFits
  <1>2. Overlaps'
    BY DEF FInv, Overlaps, Busy
  <1> QED BY <1>1, <1>2 DEF FInv

\* Rows there are stay.
LEMMA Domains ==
  ASSUME FInv, RowTypes', Grow
  PROVE  /\ DOMAIN projects \subseteq DOMAIN projects' /\ DOMAIN agents \subseteq DOMAIN agents'
         /\ DOMAIN keys \subseteq DOMAIN keys' /\ DOMAIN codes \subseteq DOMAIN codes'
         /\ 1..users \subseteq 1..users'
         /\ \A a \in DOMAIN agents : agents'[a].proj = agents[a].proj
         /\ \A x \in DOMAIN keys : keys'[x].proj = keys[x].proj /\ keys'[x].agent = keys[x].agent
  <1>1. /\ Len(projects) \in Nat /\ Len(agents) \in Nat /\ Len(keys) \in Nat /\ Len(codes) \in Nat
        /\ Len(projects') \in Nat /\ Len(agents') \in Nat /\ Len(keys') \in Nat /\ Len(codes') \in Nat
        /\ DOMAIN projects = 1..Len(projects) /\ DOMAIN projects' = 1..Len(projects')
        /\ DOMAIN agents = 1..Len(agents) /\ DOMAIN agents' = 1..Len(agents')
        /\ DOMAIN keys = 1..Len(keys) /\ DOMAIN keys' = 1..Len(keys')
        /\ DOMAIN codes = 1..Len(codes) /\ DOMAIN codes' = 1..Len(codes')
        /\ users \in Nat /\ users' \in Nat
    BY DEF FInv, RowTypes
  <1> QED BY <1>1 DEF Grow

\* A thread that has answered refers to nothing any more.
LEMMA DoneKeeps ==
  ASSUME FInv, NEW t \in Threads, Holds(t), RowTypes', RowRefs', Grow, raced' = raced,
         lagged' \in BOOLEAN, Busy(t), Same(t, {"kind", "then", "rows", "listed"}), job'[t].pc = "done"
  PROVE  FInv'
  <1>1. KindFits(job[t]) /\ ThenFits(job[t]) /\ RefersTo(job[t])
    BY ThreadFits
  <1>2. /\ DOMAIN projects \subseteq DOMAIN projects' /\ DOMAIN keys \subseteq DOMAIN keys'
        /\ job'[t].kind = job[t].kind /\ job'[t].then = job[t].then
        /\ job'[t].rows = job[t].rows /\ job'[t].listed = job[t].listed
    BY Domains DEF Same
  <1>3. KindFits(job'[t]) /\ ThenFits(job'[t])
    BY <1>1, <1>2 DEF KindFits, ThenFits
  <1>4. RefersTo(job[t])'
    BY <1>1, <1>2 DEF RefersTo, HasProject, Listing
  <1> QED BY <1>2, <1>3, <1>4, WorkKeeps

\* agent_for_project: types, places and references are kept.
LEMMA FindFInv ==
  ASSUME FInv, NEW t \in Threads, Find(t)
  PROVE  FInv'
  <1>1. /\ job[t].pc = "find" /\ Counts /\ Quiet /\ lagged' = lagged
        /\ Holds(t) /\ Same(t, RefFields)
        /\ \/ /\ job'[t].pc = "done" /\ job'[t].answer = 404
              /\ job[t].agent \notin Active(job[t].proj)
           \/ /\ job[t].agent \in Active(job[t].proj)
              /\ \/ job[t].kind = "rename" /\ job'[t].pc = "dup"
                 \/ job[t].kind = "delete" /\ job'[t].pc = "count"
                 \/ job[t].kind \in {"regen", "list"} /\ job'[t].pc = "revokeAgent"
    BY FindMoves
  <1>2. CountTypes
    BY <1>1 DEF Counts, CountTypes, FInv, RowTypes
  <1>4. KindFits(job[t]) /\ ThenFits(job[t]) /\ RefersTo(job[t]) /\ job[t] \in JobRows
    BY ThreadFits
  <1>8. RowTypes' /\ RowRefs' /\ Grow
    BY <1>1, <1>2, QuietGrow
  <1>11. lagged' \in BOOLEAN /\ raced' = raced /\ Busy(t)
    BY <1>1 DEF Counts, FInv, Busy
  <1>12. CASE job'[t].pc = "done"
    <2>1. Same(t, {"kind", "then", "rows", "listed"})
      BY <1>1 DEF Same, RefFields
    <2> QED BY <1>1, <1>8, <1>11, <1>12, <2>1, DoneKeeps
  <1>13. CASE job'[t].pc # "done"
    <2>1. KindFits(job'[t]) /\ ThenFits(job'[t]) /\ job'[t].kind = job[t].kind
      BY <1>1, <1>4, <1>13 DEF Same, RefFields, KindFits, ThenFits
    <2>3. job[t].agent \in DOMAIN agents /\ agents[job[t].agent].proj = job[t].proj
      BY <1>1, <1>13 DEF Active
    <2>4. /\ job'[t].kind = job[t].kind /\ job'[t].proj = job[t].proj /\ job'[t].agent = job[t].agent
          /\ job'[t].name = job[t].name /\ job'[t].rows = job[t].rows /\ job'[t].listed = job[t].listed
          /\ job'[t].then = job[t].then
      BY <1>1 DEF Same, RefFields
    <2>5. OwnAgent(job[t])' /\ DOMAIN agents' = DOMAIN agents /\ DOMAIN keys' = DOMAIN keys
          /\ DOMAIN projects' = DOMAIN projects /\ agents' = agents
      BY <1>1, <2>3, <2>4 DEF OwnAgent, Quiet, QuietLogins, QuietKeys
    <2>6. job[t].proj \in DOMAIN projects /\ job[t].listed \subseteq DOMAIN keys
      BY <1>1, <1>4 DEF RefersTo, HasProject
    <2>7. /\ job'[t].pc \in {"dup", "count", "revokeAgent"}
          /\ job'[t].pc = "dup" => job[t].kind = "rename"
          /\ job'[t].kind # "login" /\ (Listing(job'[t]) => Listing(job[t]))
      BY <1>1, <1>13, <2>4 DEF Listing
    <2>8. job'[t].pc = "dup" => job[t].name \in Names
      BY <1>1, <1>4, <1>13 DEF RefersTo
    <2>2. RefersTo(job[t])'
      BY <1>4, <2>4, <2>5, <2>6, <2>7, <2>8 DEF RefersTo, HasProject, Listing
    <2> QED BY <1>1, <1>8, <1>11, <2>1, <2>2, WorkKeeps
  <1> QED BY <1>12, <1>13

\* The SELECT for an agent of the same name: types, places and references are kept.
LEMMA DupFInv ==
  ASSUME FInv, NEW t \in Threads, Dup(t)
  PROVE  FInv'
  <1>1. /\ job[t].pc = "dup" /\ Counts /\ Quiet /\ lagged' = lagged
        /\ Holds(t) /\ Same(t, RefFields)
        /\ \/ job'[t].pc = "done" /\ job'[t].answer = 400
           \/ /\ Taken(t) = {}
              /\ job'[t].pc = IF job[t].kind = "rename" THEN "rename" ELSE "insert"
    BY DupMoves
  <1>2. CountTypes
    BY <1>1 DEF Counts, CountTypes, FInv, RowTypes
  <1>4. KindFits(job[t]) /\ ThenFits(job[t]) /\ RefersTo(job[t]) /\ job[t] \in JobRows
    BY ThreadFits
  <1>8. RowTypes' /\ RowRefs' /\ Grow
    BY <1>1, <1>2, QuietGrow
  <1>11. lagged' \in BOOLEAN /\ raced' = raced /\ Busy(t)
    BY <1>1 DEF Counts, FInv, Busy
  <1>12. CASE job'[t].pc = "done"
    <2>1. Same(t, {"kind", "then", "rows", "listed"})
      BY <1>1 DEF Same, RefFields
    <2> QED BY <1>1, <1>8, <1>11, <1>12, <2>1, DoneKeeps
  <1>13. CASE job'[t].pc # "done"
    <2>1. KindFits(job'[t]) /\ ThenFits(job'[t]) /\ job'[t].kind = job[t].kind
      BY <1>1, <1>4, <1>13 DEF Same, RefFields, KindFits, ThenFits
    <2>2. RefersTo(job[t])'
      BY <1>1, <1>4, <1>8, <1>13, Domains
         DEF RefersTo, OwnAgent, Listing, HasProject, Same, RefFields, Quiet, QuietLogins, QuietKeys, KindFits, ThenFits
    <2> QED BY <1>1, <1>8, <1>11, <2>1, <2>2, WorkKeeps
  <1> QED BY <1>12, <1>13

\* The INSERT of an agent: types, places and references are kept.
LEMMA InsertAgentFInv ==
  ASSUME FInv, NEW t \in Threads, InsertAgent(t)
  PROVE  FInv'
  <1>1. /\ Counts /\ QuietLogins /\ QuietKeys /\ lagged' = lagged
        /\ agents' = Append(agents, AgentRow(job[t].proj, job[t].name))
        /\ Holds(t) /\ Same(t, {"kind", "proj", "name", "key", "code", "rows", "listed", "then"})
        /\ job'[t].agent = Len(agents) + 1
        /\ \/ job[t].pc = "insertDefault" /\ job'[t].pc = "ensureKey"
           \/ job[t].pc = "insert" /\ job'[t].pc = "issue"
    BY InsertAgentMoves
  <1>2. CountTypes
    BY <1>1 DEF Counts, CountTypes, FInv, RowTypes
  <1>4. KindFits(job[t]) /\ ThenFits(job[t]) /\ RefersTo(job[t]) /\ job[t] \in JobRows
    BY ThreadFits
  <1>3. job[t].proj \in DOMAIN projects /\ job[t].name \in Names
    BY <1>1, <1>4 DEF RefersTo, HasProject
  <1>8. /\ RowTypes' /\ RowRefs' /\ Grow
        /\ DOMAIN agents' = 1..(Len(agents) + 1) /\ Len(agents) \in Nat
        /\ agents'[Len(agents) + 1] = AgentRow(job[t].proj, job[t].name)
    BY <1>1, <1>2, <1>3, AgentAdded
  <1>9. agents'[Len(agents) + 1].proj = job[t].proj
    BY <1>8 DEF AgentRow
  <1>11. lagged' \in BOOLEAN /\ raced' = raced /\ Busy(t)
    BY <1>1 DEF Counts, FInv, Busy
  <1>5. KindFits(job'[t]) /\ ThenFits(job'[t]) /\ job'[t].kind = job[t].kind
    BY <1>1, <1>4 DEF Same, RefFields, KindFits, ThenFits
  <1>6. RefersTo(job[t])'
    BY <1>1, <1>4, <1>8, <1>9, Domains
       DEF RefersTo, OwnAgent, Listing, HasProject, Same, RefFields, KindFits, ThenFits
  <1> QED BY <1>1, <1>5, <1>6, <1>8, <1>11, WorkKeeps

\* The UPDATE of an agent's name: types, places and references are kept.
LEMMA RenameFInv ==
  ASSUME FInv, NEW t \in Threads, Rename(t)
  PROVE  FInv'
  <1>1. /\ job[t].pc = "rename" /\ Counts /\ QuietLogins /\ QuietKeys /\ lagged' = lagged
        /\ agents' = [agents EXCEPT ![job[t].agent].name = job[t].name]
        /\ Holds(t) /\ Same(t, RefFields) /\ job'[t].pc = "done" /\ job'[t].answer = 200
    BY RenameMoves
  <1>2. CountTypes
    BY <1>1 DEF Counts, CountTypes, FInv, RowTypes
  <1>4. KindFits(job[t]) /\ ThenFits(job[t]) /\ RefersTo(job[t]) /\ job[t] \in JobRows
    BY ThreadFits
  <1> DEFINE r == [agents[job[t].agent] EXCEPT !.name = job[t].name]
  <1>3. /\ job[t].agent \in DOMAIN agents /\ agents[job[t].agent] \in AgentRows
        /\ job[t].name \in Names /\ agents' = [agents EXCEPT ![job[t].agent] = r]
    BY <1>1, <1>4 DEF RefersTo, OwnAgent, FInv, RowTypes
  <1>9. r \in AgentRows /\ r.proj = agents[job[t].agent].proj
    BY <1>3 DEF AgentRows
  <1> HIDE DEF r
  <1>7. QuietLogins /\ QuietKeys
    BY <1>1
  <1>8. RowTypes' /\ RowRefs' /\ Grow
    BY <1>2, <1>3, <1>7, <1>9, AgentChanged
  <1>11. lagged' \in BOOLEAN /\ raced' = raced /\ Busy(t)
    BY <1>1 DEF Counts, FInv, Busy
  <1>12. Same(t, {"kind", "then", "rows", "listed"})
    BY <1>1 DEF Same, RefFields
  <1> QED BY <1>1, <1>8, <1>11, <1>12, DoneKeeps

\* The count of active agents: types, places and references are kept.
LEMMA CountFInv ==
  ASSUME FInv, NEW t \in Threads, Count(t)
  PROVE  FInv'
  <1>1. /\ job[t].pc = "count" /\ Counts /\ Quiet /\ lagged' = lagged
        /\ Holds(t) /\ Same(t, RefFields)
        /\ \/ job'[t].pc = "done" /\ job'[t].answer = 400
           \/ job'[t].pc = "mark" /\ ~(Cardinality(Active(job[t].proj)) <= 1)
    BY CountMoves
  <1>2. CountTypes
    BY <1>1 DEF Counts, CountTypes, FInv, RowTypes
  <1>4. KindFits(job[t]) /\ ThenFits(job[t]) /\ RefersTo(job[t]) /\ job[t] \in JobRows
    BY ThreadFits
  <1>8. RowTypes' /\ RowRefs' /\ Grow
    BY <1>1, <1>2, QuietGrow
  <1>11. lagged' \in BOOLEAN /\ raced' = raced /\ Busy(t)
    BY <1>1 DEF Counts, FInv, Busy
  <1>12. CASE job'[t].pc = "done"
    <2>1. Same(t, {"kind", "then", "rows", "listed"})
      BY <1>1 DEF Same, RefFields
    <2> QED BY <1>1, <1>8, <1>11, <1>12, <2>1, DoneKeeps
  <1>13. CASE job'[t].pc # "done"
    <2>1. KindFits(job'[t]) /\ ThenFits(job'[t]) /\ job'[t].kind = job[t].kind
      BY <1>1, <1>4, <1>13 DEF Same, RefFields, KindFits, ThenFits
    <2>2. RefersTo(job[t])'
      BY <1>1, <1>4, <1>8, <1>13, Domains
         DEF RefersTo, OwnAgent, Listing, HasProject, Same, RefFields, Quiet, QuietLogins, QuietKeys, KindFits, ThenFits
    <2> QED BY <1>1, <1>8, <1>11, <2>1, <2>2, WorkKeeps
  <1> QED BY <1>12, <1>13

\* The UPDATE that marks an agent as deleted: types, places and references are kept.
LEMMA MarkDeletedFInv ==
  ASSUME FInv, NEW t \in Threads, MarkDeleted(t)
  PROVE  FInv'
  <1>1. /\ job[t].pc = "mark" /\ Counts /\ QuietLogins /\ QuietKeys /\ lagged' = lagged
        /\ agents' = [agents EXCEPT ![job[t].agent].st = "deleted"]
        /\ Holds(t) /\ Same(t, RefFields) /\ job'[t].pc = "revokeAgent"
    BY MarkDeletedMoves
  <1>2. CountTypes
    BY <1>1 DEF Counts, CountTypes, FInv, RowTypes
  <1>4. KindFits(job[t]) /\ ThenFits(job[t]) /\ RefersTo(job[t]) /\ job[t] \in JobRows
    BY ThreadFits
  <1> DEFINE r == [agents[job[t].agent] EXCEPT !.st = "deleted"]
  <1>3. /\ job[t].agent \in DOMAIN agents /\ agents[job[t].agent] \in AgentRows
        /\ agents' = [agents EXCEPT ![job[t].agent] = r]
    BY <1>1, <1>4 DEF RefersTo, OwnAgent, FInv, RowTypes
  <1>9. r \in AgentRows /\ r.proj = agents[job[t].agent].proj
    BY <1>3 DEF AgentRows
  <1> HIDE DEF r
  <1>7. QuietLogins /\ QuietKeys
    BY <1>1
  <1>8. RowTypes' /\ RowRefs' /\ Grow
    BY <1>2, <1>3, <1>7, <1>9, AgentChanged
  <1>11. lagged' \in BOOLEAN /\ raced' = raced /\ Busy(t)
    BY <1>1 DEF Counts, FInv, Busy
  <1>5. KindFits(job'[t]) /\ ThenFits(job'[t]) /\ job'[t].kind = job[t].kind
    BY <1>1, <1>4 DEF Same, RefFields, KindFits, ThenFits
  <1>6. RefersTo(job[t])'
    BY <1>1, <1>4, <1>8, <1>9, Domains
       DEF RefersTo, OwnAgent, Listing, HasProject, Same, RefFields, KindFits, ThenFits
  <1> QED BY <1>1, <1>5, <1>6, <1>8, <1>11, WorkKeeps

\* The UPDATE that revokes an agent's keys: types, places and references are kept.
LEMMA RevokeAgentKeysFInv ==
  ASSUME FInv, NEW t \in Threads, RevokeAgentKeys(t)
  PROVE  FInv'
  <1>1. /\ job[t].pc = "revokeAgent" /\ Counts /\ QuietLogins /\ agents' = agents
        /\ keys' = Revoked(revoking \cup KeysOf(job[t].proj, job[t].agent)) /\ revoking' = {}
        /\ LateRevoke
        /\ Holds(t) /\ Same(t, RefFields)
        /\ \/ job[t].kind = "delete" /\ job'[t].pc = "done" /\ job'[t].answer = 200
           \/ job[t].kind # "delete" /\ job'[t].pc = "issue"
    BY RevokeAgentKeysMoves
  <1>2. CountTypes
    BY <1>1 DEF Counts, CountTypes, FInv, RowTypes
  <1>4. KindFits(job[t]) /\ ThenFits(job[t]) /\ RefersTo(job[t]) /\ job[t] \in JobRows
    BY ThreadFits
  <1>8. RowTypes' /\ RowRefs' /\ Grow
    BY <1>1, <1>2, KeysRevoked
  <1>11. lagged' \in BOOLEAN /\ raced' = raced /\ Busy(t)
    BY <1>1 DEF LateRevoke, Counts, FInv, Busy
  <1>12. CASE job'[t].pc = "done"
    <2>1. Same(t, {"kind", "then", "rows", "listed"})
      BY <1>1 DEF Same, RefFields
    <2> QED BY <1>1, <1>8, <1>11, <1>12, <2>1, DoneKeeps
  <1>13. CASE job'[t].pc # "done"
    <2>1. KindFits(job'[t]) /\ ThenFits(job'[t]) /\ job'[t].kind = job[t].kind
      BY <1>1, <1>4, <1>13 DEF Same, RefFields, KindFits, ThenFits
    <2>2. RefersTo(job[t])'
      BY <1>1, <1>4, <1>8, <1>13, Domains
         DEF RefersTo, OwnAgent, Listing, HasProject, Same, RefFields, KindFits, ThenFits
    <2> QED BY <1>1, <1>8, <1>11, <2>1, <2>2, WorkKeeps
  <1> QED BY <1>12, <1>13

\* The UPDATE that revokes a project's own keys: types, places and references are kept.
LEMMA RevokeProjectKeysFInv ==
  ASSUME FInv, NEW t \in Threads, RevokeProjectKeys(t)
  PROVE  FInv'
  <1>1. /\ job[t].pc = "revokeProject" /\ Counts /\ QuietLogins /\ agents' = agents /\ lagged' = lagged
        /\ keys' = keys /\ revoking' = revoking \cup KeysOf(job[t].proj, 0)
        /\ Holds(t) /\ Same(t, RefFields) /\ job'[t].pc = "issue"
    BY RevokeProjectKeysMoves
  <1>2. CountTypes
    BY <1>1 DEF Counts, CountTypes, FInv, RowTypes
  <1>4. KindFits(job[t]) /\ ThenFits(job[t]) /\ RefersTo(job[t]) /\ job[t] \in JobRows
    BY ThreadFits
  <1>3. revoking' \subseteq DOMAIN keys
    BY <1>1 DEF KeysOf, FInv, RowRefs
  <1>8. RowTypes' /\ RowRefs' /\ Grow
    BY <1>1, <1>2, <1>3, KeysDoomed
  <1>11. lagged' \in BOOLEAN /\ raced' = raced /\ Busy(t)
    BY <1>1 DEF Counts, FInv, Busy
  <1>5. KindFits(job'[t]) /\ ThenFits(job'[t]) /\ job'[t].kind = job[t].kind
    BY <1>1, <1>4 DEF Same, RefFields, KindFits, ThenFits
  <1>6. RefersTo(job[t])'
    BY <1>1, <1>4, <1>8, Domains
       DEF RefersTo, OwnAgent, Listing, HasProject, Same, RefFields, KindFits, ThenFits
  <1> QED BY <1>1, <1>5, <1>6, <1>8, <1>11, WorkKeeps

\* The UPDATE that revokes one key: types, places and references are kept.
LEMMA RevokeKeyFInv ==
  ASSUME FInv, NEW t \in Threads, RevokeKey(t)
  PROVE  FInv'
  <1>1. /\ job[t].pc = "revokeKey" /\ Counts /\ QuietLogins /\ agents' = agents /\ lagged' = lagged
        /\ keys' = keys /\ revoking \subseteq revoking' /\ revoking' \subseteq revoking \cup {job[t].key}
        /\ Holds(t) /\ Same(t, RefFields) /\ job'[t].pc = "done" /\ job'[t].answer = 200
    BY RevokeKeyMoves
  <1>2. CountTypes
    BY <1>1 DEF Counts, CountTypes, FInv, RowTypes
  <1>4. KindFits(job[t]) /\ ThenFits(job[t]) /\ RefersTo(job[t]) /\ job[t] \in JobRows
    BY ThreadFits
  <1>3. revoking' \subseteq DOMAIN keys
    BY <1>1, <1>4 DEF RefersTo, FInv, RowRefs
  <1>8. RowTypes' /\ RowRefs' /\ Grow
    BY <1>1, <1>2, <1>3, KeysDoomed
  <1>11. lagged' \in BOOLEAN /\ raced' = raced /\ Busy(t)
    BY <1>1 DEF Counts, FInv, Busy
  <1>12. Same(t, {"kind", "then", "rows", "listed"})
    BY <1>1 DEF Same, RefFields
  <1> QED BY <1>1, <1>8, <1>11, <1>12, DoneKeeps

\* The SELECTs of ensure_default_agent: types, places and references are kept.
LEMMA EnsureRowsFInv ==
  ASSUME FInv, NEW t \in Threads, EnsureRows(t)
  PROVE  FInv'
  <1>1. /\ job[t].pc = "ensure" /\ Counts /\ Quiet /\ lagged' = lagged
        /\ Holds(t) /\ Same(t, {"kind", "proj", "key", "code", "rows", "listed", "then"})
        /\ \/ /\ Active(job[t].proj) = {} /\ Same(t, {"agent"})
              /\ job'[t].pc = "insertDefault" /\ job'[t].name = "default"
           \/ /\ job'[t].agent \in Active(job[t].proj)
              /\ job'[t].pc = "ensureKey" /\ job'[t].name = agents[job'[t].agent].name
    BY EnsureRowsMoves
  <1>2. CountTypes
    BY <1>1 DEF Counts, CountTypes, FInv, RowTypes
  <1>4. KindFits(job[t]) /\ ThenFits(job[t]) /\ RefersTo(job[t]) /\ job[t] \in JobRows
    BY ThreadFits
  <1>8. RowTypes' /\ RowRefs' /\ Grow
    BY <1>1, <1>2, QuietGrow
  <1>11. lagged' \in BOOLEAN /\ raced' = raced /\ Busy(t)
    BY <1>1 DEF Counts, FInv, Busy
  <1>5. KindFits(job'[t]) /\ ThenFits(job'[t]) /\ job'[t].kind = job[t].kind
    BY <1>1, <1>4 DEF Same, RefFields, KindFits, ThenFits
  <1>6. RefersTo(job[t])'
    BY <1>1, <1>4, <1>8, Domains, AccountsAssumption
       DEF RefersTo, OwnAgent, Listing, HasProject, Same, RefFields, Quiet, QuietLogins, QuietKeys, KindFits, ThenFits, Active
  <1> QED BY <1>1, <1>5, <1>6, <1>8, <1>11, WorkKeeps

\* The SELECT of list_agents: types, places and references are kept.
LEMMA ListRowsFInv ==
  ASSUME FInv, NEW t \in Threads, ListRows(t)
  PROVE  FInv'
  <1>1. /\ job[t].pc = "rows" /\ Counts /\ Quiet /\ lagged' = lagged
        /\ Holds(t) /\ Same(t, {"kind", "proj", "name", "key", "code", "listed", "then"})
        /\ \/ Active(job[t].proj) = {} /\ job'[t].pc = "done" /\ job'[t].answer = 200
           \/ /\ job'[t].rows = Active(job[t].proj) /\ job'[t].agent \in job'[t].rows
              /\ job'[t].pc = "listKey"
    BY ListRowsMoves
  <1>2. CountTypes
    BY <1>1 DEF Counts, CountTypes, FInv, RowTypes
  <1>4. KindFits(job[t]) /\ ThenFits(job[t]) /\ RefersTo(job[t]) /\ job[t] \in JobRows
    BY ThreadFits
  <1>8. RowTypes' /\ RowRefs' /\ Grow
    BY <1>1, <1>2, QuietGrow
  <1>11. lagged' \in BOOLEAN /\ raced' = raced /\ Busy(t)
    BY <1>1 DEF Counts, FInv, Busy
  <1>5. KindFits(job'[t]) /\ ThenFits(job'[t]) /\ job'[t].kind = job[t].kind
    BY <1>1, <1>4 DEF Same, RefFields, KindFits, ThenFits
  <1>6. RefersTo(job[t])'
    BY <1>1, <1>4, <1>8, Domains
       DEF RefersTo, OwnAgent, Listing, HasProject, Same, RefFields, Quiet, QuietLogins, QuietKeys, KindFits, ThenFits, Active
  <1> QED BY <1>1, <1>5, <1>6, <1>8, <1>11, WorkKeeps

\* The SELECT for the key of a request: types, places and references are kept.
LEMMA AuthKeyFInv ==
  ASSUME FInv, NEW t \in Threads, AuthKey(t)
  PROVE  FInv'
  <1>1. /\ job[t].pc = "authKey" /\ Counts /\ Quiet /\ lagged' = lagged
        /\ Holds(t) /\ Same(t, {"kind", "agent", "name", "key", "code", "rows", "listed", "then"})
        /\ \/ job'[t].pc = "done" /\ job'[t].answer = 401
           \/ /\ job[t].key \in DOMAIN keys /\ keys[job[t].key].st = "active"
              /\ job'[t].proj = keys[job[t].key].proj /\ job'[t].pc = "authAgent"
    BY AuthKeyMoves
  <1>2. CountTypes
    BY <1>1 DEF Counts, CountTypes, FInv, RowTypes
  <1>4. KindFits(job[t]) /\ ThenFits(job[t]) /\ RefersTo(job[t]) /\ job[t] \in JobRows
    BY ThreadFits
  <1>8. RowTypes' /\ RowRefs' /\ Grow
    BY <1>1, <1>2, QuietGrow
  <1>11. lagged' \in BOOLEAN /\ raced' = raced /\ Busy(t)
    BY <1>1 DEF Counts, FInv, Busy
  <1>12. CASE job'[t].pc = "done"
    <2>1. Same(t, {"kind", "then", "rows", "listed"})
      BY <1>1 DEF Same, RefFields
    <2> QED BY <1>1, <1>8, <1>11, <1>12, <2>1, DoneKeeps
  <1>13. CASE job'[t].pc # "done"
    <2>1. KindFits(job'[t]) /\ ThenFits(job'[t]) /\ job'[t].kind = job[t].kind
      BY <1>1, <1>4, <1>13 DEF Same, RefFields, KindFits, ThenFits
    <2>2. RefersTo(job[t])'
      BY <1>1, <1>4, <1>8, <1>13, Domains
         DEF RefersTo, OwnAgent, Listing, HasProject, Same, RefFields, Quiet, QuietLogins, QuietKeys, KindFits, ThenFits, FInv, RowRefs
    <2> QED BY <1>1, <1>8, <1>11, <2>1, <2>2, WorkKeeps
  <1> QED BY <1>12, <1>13

\* The SELECT for the agent of a key: types, places and references are kept.
LEMMA AuthAgentFInv ==
  ASSUME FInv, NEW t \in Threads, AuthAgent(t)
  PROVE  FInv'
  <1>1. /\ job[t].pc = "authAgent" /\ Counts /\ Quiet /\ lagged' = lagged
        /\ Holds(t) /\ Same(t, {"kind", "proj", "key", "code", "rows", "listed", "then"})
        /\ \/ keys[job[t].key].agent = 0 /\ job'[t].pc = "ensure"
           \/ /\ keys[job[t].key].agent # 0 /\ job'[t].pc = "done" /\ job'[t].answer = 200
              /\ job'[t].agent = keys[job[t].key].agent
              /\ job'[t].agent \in Active(job[t].proj) => job'[t].name = agents[job'[t].agent].name
    BY AuthAgentMoves
  <1>2. CountTypes
    BY <1>1 DEF Counts, CountTypes, FInv, RowTypes
  <1>4. KindFits(job[t]) /\ ThenFits(job[t]) /\ RefersTo(job[t]) /\ job[t] \in JobRows
    BY ThreadFits
  <1>8. RowTypes' /\ RowRefs' /\ Grow
    BY <1>1, <1>2, QuietGrow
  <1>11. lagged' \in BOOLEAN /\ raced' = raced /\ Busy(t)
    BY <1>1 DEF Counts, FInv, Busy
  <1>12. CASE job'[t].pc = "done"
    <2>1. Same(t, {"kind", "then", "rows", "listed"})
      BY <1>1 DEF Same, RefFields
    <2> QED BY <1>1, <1>8, <1>11, <1>12, <2>1, DoneKeeps
  <1>13. CASE job'[t].pc # "done"
    <2>1. KindFits(job'[t]) /\ ThenFits(job'[t]) /\ job'[t].kind = job[t].kind
      BY <1>1, <1>4, <1>13 DEF Same, RefFields, KindFits, ThenFits
    <2>2. RefersTo(job[t])'
      BY <1>1, <1>4, <1>8, <1>13, Domains
         DEF RefersTo, OwnAgent, Listing, HasProject, Same, RefFields, Quiet, QuietLogins, QuietKeys, KindFits, ThenFits
    <2> QED BY <1>1, <1>8, <1>11, <2>1, <2>2, WorkKeeps
  <1> QED BY <1>12, <1>13

\* The SELECT for a code within the resend interval: types, places and references are kept.
LEMMA RecentFInv ==
  ASSUME FInv, NEW t \in Threads, Recent(t)
  PROVE  FInv'
  <1>1. /\ job[t].pc = "recent" /\ Counts /\ Quiet /\ lagged' = lagged
        /\ Holds(t) /\ Same(t, RefFields)
        /\ \/ job'[t].pc = "done" /\ job'[t].answer = 400
           \/ job'[t].pc = "limit" /\ \A c \in DOMAIN codes : codes[c].age # 0
    BY RecentMoves
  <1>2. CountTypes
    BY <1>1 DEF Counts, CountTypes, FInv, RowTypes
  <1>4. KindFits(job[t]) /\ ThenFits(job[t]) /\ RefersTo(job[t]) /\ job[t] \in JobRows
    BY ThreadFits
  <1>8. RowTypes' /\ RowRefs' /\ Grow
    BY <1>1, <1>2, QuietGrow
  <1>11. lagged' \in BOOLEAN /\ raced' = raced /\ Busy(t)
    BY <1>1 DEF Counts, FInv, Busy
  <1>12. CASE job'[t].pc = "done"
    <2>1. Same(t, {"kind", "then", "rows", "listed"})
      BY <1>1 DEF Same, RefFields
    <2> QED BY <1>1, <1>8, <1>11, <1>12, <2>1, DoneKeeps
  <1>13. CASE job'[t].pc # "done"
    <2>1. KindFits(job'[t]) /\ ThenFits(job'[t]) /\ job'[t].kind = job[t].kind
      BY <1>1, <1>4, <1>13 DEF Same, RefFields, KindFits, ThenFits
    <2>2. RefersTo(job[t])'
      BY <1>1, <1>4, <1>8, <1>13, Domains
         DEF RefersTo, OwnAgent, Listing, HasProject, Same, RefFields, Quiet, QuietLogins, QuietKeys, KindFits, ThenFits
    <2> QED BY <1>1, <1>8, <1>11, <2>1, <2>2, WorkKeeps
  <1> QED BY <1>12, <1>13

\* The count of codes: types, places and references are kept.
LEMMA LimitFInv ==
  ASSUME FInv, NEW t \in Threads, Limit(t)
  PROVE  FInv'
  <1>1. /\ job[t].pc = "limit" /\ Counts /\ Quiet /\ lagged' = lagged
        /\ Holds(t) /\ Same(t, RefFields)
        /\ \/ job'[t].pc = "done" /\ job'[t].answer = 400
           \/ job'[t].pc = "insertCode" /\ ~(Len(codes) >= CodeLimit)
    BY LimitMoves
  <1>2. CountTypes
    BY <1>1 DEF Counts, CountTypes, FInv, RowTypes
  <1>4. KindFits(job[t]) /\ ThenFits(job[t]) /\ RefersTo(job[t]) /\ job[t] \in JobRows
    BY ThreadFits
  <1>8. RowTypes' /\ RowRefs' /\ Grow
    BY <1>1, <1>2, QuietGrow
  <1>11. lagged' \in BOOLEAN /\ raced' = raced /\ Busy(t)
    BY <1>1 DEF Counts, FInv, Busy
  <1>12. CASE job'[t].pc = "done"
    <2>1. Same(t, {"kind", "then", "rows", "listed"})
      BY <1>1 DEF Same, RefFields
    <2> QED BY <1>1, <1>8, <1>11, <1>12, <2>1, DoneKeeps
  <1>13. CASE job'[t].pc # "done"
    <2>1. KindFits(job'[t]) /\ ThenFits(job'[t]) /\ job'[t].kind = job[t].kind
      BY <1>1, <1>4, <1>13 DEF Same, RefFields, KindFits, ThenFits
    <2>2. RefersTo(job[t])'
      BY <1>1, <1>4, <1>8, <1>13, Domains
         DEF RefersTo, OwnAgent, Listing, HasProject, Same, RefFields, Quiet, QuietLogins, QuietKeys, KindFits, ThenFits
    <2> QED BY <1>1, <1>8, <1>11, <2>1, <2>2, WorkKeeps
  <1> QED BY <1>12, <1>13

\* The INSERT of a code: types, places and references are kept.
LEMMA InsertCodeFInv ==
  ASSUME FInv, NEW t \in Threads, InsertCode(t)
  PROVE  FInv'
  <1>1. /\ job[t].pc = "insertCode" /\ Counts /\ QuietKeys /\ lagged' = lagged
        /\ users' = users /\ projects' = projects /\ agents' = agents /\ codeMuts' = codeMuts
        /\ codes' = Append(codes, CodeRow)
        /\ Holds(t) /\ Same(t, RefFields) /\ job'[t].pc = "sms"
    BY InsertCodeMoves
  <1>2. CountTypes
    BY <1>1 DEF Counts, CountTypes, FInv, RowTypes
  <1>4. KindFits(job[t]) /\ ThenFits(job[t]) /\ RefersTo(job[t]) /\ job[t] \in JobRows
    BY ThreadFits
  <1>8. RowTypes' /\ RowRefs' /\ Grow
    BY <1>1, <1>2, CodeAdded
  <1>11. lagged' \in BOOLEAN /\ raced' = raced /\ Busy(t)
    BY <1>1 DEF Counts, FInv, Busy
  <1>5. KindFits(job'[t]) /\ ThenFits(job'[t]) /\ job'[t].kind = job[t].kind
    BY <1>1, <1>4 DEF Same, RefFields, KindFits, ThenFits
  <1>6. RefersTo(job[t])'
    BY <1>1, <1>4, <1>8, Domains
       DEF RefersTo, OwnAgent, Listing, HasProject, Same, RefFields, KindFits, ThenFits
  <1> QED BY <1>1, <1>5, <1>6, <1>8, <1>11, WorkKeeps

\* The answer to a request for a code: types, places and references are kept.
LEMMA SendSmsFInv ==
  ASSUME FInv, NEW t \in Threads, SendSms(t)
  PROVE  FInv'
  <1>1. /\ job[t].pc = "sms" /\ Counts /\ Quiet /\ lagged' = lagged
        /\ Holds(t) /\ Same(t, RefFields) /\ job'[t].pc = "done" /\ job'[t].answer = 200
    BY SendSmsMoves
  <1>2. CountTypes
    BY <1>1 DEF Counts, CountTypes, FInv, RowTypes
  <1>4. KindFits(job[t]) /\ ThenFits(job[t]) /\ RefersTo(job[t]) /\ job[t] \in JobRows
    BY ThreadFits
  <1>8. RowTypes' /\ RowRefs' /\ Grow
    BY <1>1, <1>2, QuietGrow
  <1>11. lagged' \in BOOLEAN /\ raced' = raced /\ Busy(t)
    BY <1>1 DEF Counts, FInv, Busy
  <1>12. Same(t, {"kind", "then", "rows", "listed"})
    BY <1>1 DEF Same, RefFields
  <1> QED BY <1>1, <1>8, <1>11, <1>12, DoneKeeps

\* The SELECT for the latest active code: types, places and references are kept.
LEMMA ReadCodeFInv ==
  ASSUME FInv, NEW t \in Threads, ReadCode(t)
  PROVE  FInv'
  <1>1. /\ job[t].pc = "readCode" /\ Counts /\ Quiet
        /\ Holds(t) /\ Same(t, {"kind", "proj", "agent", "name", "key", "rows", "listed", "then"})
        /\ \/ job'[t].pc = "done" /\ job'[t].answer = 401 /\ lagged' = lagged
           \/ /\ job'[t].pc \in {"consume", "wrong"} /\ job'[t].code \in DOMAIN codes
              /\ codes[job'[t].code].st = "active" /\ codes[job'[t].code].tries < MaxTries
              /\ lagged' = (lagged \/ Pending(job'[t].code))
    BY ReadCodeMoves
  <1>2. CountTypes
    BY <1>1 DEF Counts, CountTypes, FInv, RowTypes
  <1>4. KindFits(job[t]) /\ ThenFits(job[t]) /\ RefersTo(job[t]) /\ job[t] \in JobRows
    BY ThreadFits
  <1>8. RowTypes' /\ RowRefs' /\ Grow
    BY <1>1, <1>2, QuietGrow
  <1>11. lagged' \in BOOLEAN /\ raced' = raced /\ Busy(t)
    BY <1>1 DEF Counts, FInv, Busy
  <1>12. CASE job'[t].pc = "done"
    <2>1. Same(t, {"kind", "then", "rows", "listed"})
      BY <1>1 DEF Same, RefFields
    <2> QED BY <1>1, <1>8, <1>11, <1>12, <2>1, DoneKeeps
  <1>13. CASE job'[t].pc # "done"
    <2>1. KindFits(job'[t]) /\ ThenFits(job'[t]) /\ job'[t].kind = job[t].kind
      BY <1>1, <1>4, <1>13 DEF Same, RefFields, KindFits, ThenFits
    <2>2. RefersTo(job[t])'
      BY <1>1, <1>4, <1>8, <1>13, Domains
         DEF RefersTo, OwnAgent, Listing, HasProject, Same, RefFields, Quiet, QuietLogins, QuietKeys, KindFits, ThenFits
    <2> QED BY <1>1, <1>8, <1>11, <2>1, <2>2, WorkKeeps
  <1> QED BY <1>12, <1>13

\* The UPDATE after a wrong guess: types, places and references are kept.
LEMMA WrongCodeFInv ==
  ASSUME FInv, NEW t \in Threads, WrongCode(t)
  PROVE  FInv'
  <1>1. /\ job[t].pc = "wrong" /\ Counts /\ QuietKeys /\ lagged' = lagged
        /\ users' = users /\ projects' = projects /\ agents' = agents
        /\ Holds(t) /\ Same(t, RefFields) /\ job'[t].pc = "done" /\ job'[t].answer = 401
    BY WrongCodeMoves
  <1>2. CountTypes
    BY <1>1 DEF Counts, CountTypes, FInv, RowTypes
  <1>4. KindFits(job[t]) /\ ThenFits(job[t]) /\ RefersTo(job[t]) /\ job[t] \in JobRows
    BY ThreadFits
  <1>8. RowTypes' /\ RowRefs' /\ Grow
    BY <1>2, WrongCodeTables
  <1>11. lagged' \in BOOLEAN /\ raced' = raced /\ Busy(t)
    BY <1>1 DEF Counts, FInv, Busy
  <1>12. Same(t, {"kind", "then", "rows", "listed"})
    BY <1>1 DEF Same, RefFields
  <1> QED BY <1>1, <1>8, <1>11, <1>12, DoneKeeps

\* The UPDATE that consumes a code: types, places and references are kept.
LEMMA ConsumeFInv ==
  ASSUME FInv, NEW t \in Threads, Consume(t)
  PROVE  FInv'
  <1>1. /\ job[t].pc = "consume" /\ Counts /\ QuietKeys /\ lagged' = lagged
        /\ users' = users /\ projects' = projects /\ agents' = agents
        /\ codeMuts' = Append(codeMuts, [code |-> job[t].code, op |-> "consume"])
        /\ codes' = [codes EXCEPT ![job[t].code].logins = @ + 1]
        /\ Holds(t) /\ Same(t, RefFields) /\ job'[t].pc = "user"
    BY ConsumeMoves
  <1>2. CountTypes
    BY <1>1 DEF Counts, CountTypes, FInv, RowTypes
  <1>4. KindFits(job[t]) /\ ThenFits(job[t]) /\ RefersTo(job[t]) /\ job[t] \in JobRows
    BY ThreadFits
  <1>8. RowTypes' /\ RowRefs' /\ Grow
    BY <1>2, ConsumeTables
  <1>11. lagged' \in BOOLEAN /\ raced' = raced /\ Busy(t)
    BY <1>1 DEF Counts, FInv, Busy
  <1>5. KindFits(job'[t]) /\ ThenFits(job'[t]) /\ job'[t].kind = job[t].kind
    BY <1>1, <1>4 DEF Same, RefFields, KindFits, ThenFits
  <1>6. RefersTo(job[t])'
    BY <1>1, <1>4, <1>8, Domains
       DEF RefersTo, OwnAgent, Listing, HasProject, Same, RefFields, KindFits, ThenFits
  <1> QED BY <1>1, <1>5, <1>6, <1>8, <1>11, WorkKeeps

\* latest_user_by_phone: types, places and references are kept.
LEMMA ReadUserFInv ==
  ASSUME FInv, NEW t \in Threads, ReadUser(t)
  PROVE  FInv'
  <1>1. /\ job[t].pc = "user" /\ Counts /\ Quiet /\ lagged' = lagged
        /\ Holds(t) /\ Same(t, {"kind", "proj", "agent", "name", "code", "rows", "listed", "then"})
        /\ \/ users = 0 /\ job'[t].pc = "insertUser"
           \/ users # 0 /\ job'[t].pc = "projects" /\ job'[t].key = users
    BY ReadUserMoves
  <1>2. CountTypes
    BY <1>1 DEF Counts, CountTypes, FInv, RowTypes
  <1>4. KindFits(job[t]) /\ ThenFits(job[t]) /\ RefersTo(job[t]) /\ job[t] \in JobRows
    BY ThreadFits
  <1>8. RowTypes' /\ RowRefs' /\ Grow
    BY <1>1, <1>2, QuietGrow
  <1>11. lagged' \in BOOLEAN /\ raced' = raced /\ Busy(t)
    BY <1>1 DEF Counts, FInv, Busy
  <1>5. KindFits(job'[t]) /\ ThenFits(job'[t]) /\ job'[t].kind = job[t].kind
    BY <1>1, <1>4 DEF Same, RefFields, KindFits, ThenFits
  <1>6. RefersTo(job[t])'
    <2>1. users \in Nat /\ users' = users
      BY <1>1 DEF FInv, RowTypes, Quiet, QuietLogins
    <2>2. job'[t].pc \in {"projects", "insertProject"} => job'[t].key \in 1..users'
      BY <1>1, <2>1
    <2>3. job'[t].pc \in {"insertUser", "projects"} /\ job'[t].kind = "login"
      BY <1>1, <1>4 DEF Same, KindFits
    <2>4. job'[t].rows \subseteq DOMAIN projects' /\ job'[t].listed \subseteq DOMAIN keys'
      BY <1>1, <1>4, <2>3 DEF RefersTo, Same, Quiet, QuietLogins, QuietKeys
    <2> QED BY <2>2, <2>3, <2>4 DEF RefersTo, Listing, HasProject
  <1> QED BY <1>1, <1>5, <1>6, <1>8, <1>11, WorkKeeps

\* The INSERT of a user: types, places and references are kept.
LEMMA InsertUserFInv ==
  ASSUME FInv, NEW t \in Threads, InsertUser(t)
  PROVE  FInv'
  <1>1. /\ job[t].pc = "insertUser" /\ Counts /\ QuietKeys /\ lagged' = lagged
        /\ users' = users + 1 /\ projects' = projects /\ agents' = agents
        /\ codes' = codes /\ codeMuts' = codeMuts
        /\ Holds(t) /\ Same(t, {"kind", "proj", "agent", "name", "code", "rows", "listed", "then"})
        /\ job'[t].pc = "projects" /\ job'[t].key = users + 1
    BY InsertUserMoves
  <1>2. CountTypes
    BY <1>1 DEF Counts, CountTypes, FInv, RowTypes
  <1>4. KindFits(job[t]) /\ ThenFits(job[t]) /\ RefersTo(job[t]) /\ job[t] \in JobRows
    BY ThreadFits
  <1>8. RowTypes' /\ RowRefs' /\ Grow
    BY <1>1, <1>2, UserAdded
  <1>9. users \in Nat /\ users' = users + 1
    BY <1>1 DEF FInv, RowTypes
  <1>11. lagged' \in BOOLEAN /\ raced' = raced /\ Busy(t)
    BY <1>1 DEF Counts, FInv, Busy
  <1>5. KindFits(job'[t]) /\ ThenFits(job'[t]) /\ job'[t].kind = job[t].kind
    BY <1>1, <1>4 DEF Same, RefFields, KindFits, ThenFits
  <1>6. RefersTo(job[t])'
    BY <1>1, <1>4, <1>8, <1>9, Domains
       DEF RefersTo, OwnAgent, Listing, HasProject, Same, RefFields, KindFits, ThenFits
  <1> QED BY <1>1, <1>5, <1>6, <1>8, <1>11, WorkKeeps

\* The SELECT for a user's projects: types, places and references are kept.
LEMMA ReadProjectsFInv ==
  ASSUME FInv, NEW t \in Threads, ReadProjects(t)
  PROVE  FInv'
  <1>1. /\ job[t].pc = "projects" /\ Counts /\ Quiet /\ lagged' = lagged
        /\ Holds(t) /\ Same(t, {"kind", "agent", "name", "key", "code", "listed", "then"})
        /\ \/ /\ \A p \in DOMAIN projects : projects[p] # job[t].key
              /\ job'[t].pc = "insertProject" /\ Same(t, {"proj", "rows"})
           \/ /\ job'[t].pc = "ensure" /\ job'[t].proj \in job'[t].rows
              /\ job'[t].rows \subseteq DOMAIN projects
    BY ReadProjectsMoves
  <1>2. CountTypes
    BY <1>1 DEF Counts, CountTypes, FInv, RowTypes
  <1>4. KindFits(job[t]) /\ ThenFits(job[t]) /\ RefersTo(job[t]) /\ job[t] \in JobRows
    BY ThreadFits
  <1>8. RowTypes' /\ RowRefs' /\ Grow
    BY <1>1, <1>2, QuietGrow
  <1>11. lagged' \in BOOLEAN /\ raced' = raced /\ Busy(t)
    BY <1>1 DEF Counts, FInv, Busy
  <1>5. KindFits(job'[t]) /\ ThenFits(job'[t]) /\ job'[t].kind = job[t].kind
    BY <1>1, <1>4 DEF Same, RefFields, KindFits, ThenFits
  <1>6. RefersTo(job[t])'
    BY <1>1, <1>4, <1>8, Domains
       DEF RefersTo, OwnAgent, Listing, HasProject, Same, RefFields, Quiet, QuietLogins, QuietKeys, KindFits, ThenFits
  <1> QED BY <1>1, <1>5, <1>6, <1>8, <1>11, WorkKeeps

\* The INSERT of a project: types, places and references are kept.
LEMMA InsertProjectRowFInv ==
  ASSUME FInv, NEW t \in Threads, InsertProjectRow(t)
  PROVE  FInv'
  <1>1. /\ job[t].pc = "insertProject" /\ Counts /\ QuietKeys /\ lagged' = lagged
        /\ users' = users /\ projects' = Append(projects, job[t].key) /\ agents' = agents
        /\ codes' = codes /\ codeMuts' = codeMuts
        /\ Holds(t) /\ Same(t, {"kind", "name", "key", "code", "rows", "listed"})
        /\ job'[t].pc = "issue" /\ job'[t].proj = Len(projects) + 1 /\ job'[t].agent = 0
        /\ job'[t].then = "firstAgent"
    BY InsertProjectRowMoves
  <1>2. CountTypes
    BY <1>1 DEF Counts, CountTypes, FInv, RowTypes
  <1>4. KindFits(job[t]) /\ ThenFits(job[t]) /\ RefersTo(job[t]) /\ job[t] \in JobRows
    BY ThreadFits
  <1>3. job[t].key \in 1..users
    BY <1>1, <1>4 DEF RefersTo
  <1>8. /\ RowTypes' /\ RowRefs' /\ Grow
        /\ DOMAIN projects' = 1..(Len(projects) + 1) /\ Len(projects) \in Nat
    BY <1>1, <1>2, <1>3, ProjectAdded
  <1>11. lagged' \in BOOLEAN /\ raced' = raced /\ Busy(t)
    BY <1>1 DEF Counts, FInv, Busy
  <1>5. KindFits(job'[t]) /\ ThenFits(job'[t]) /\ job'[t].kind = job[t].kind
    BY <1>1, <1>4 DEF Same, RefFields, KindFits, ThenFits
  <1>6. RefersTo(job[t])'
    BY <1>1, <1>4, <1>8, Domains
       DEF RefersTo, OwnAgent, Listing, HasProject, Same, RefFields, KindFits, ThenFits
  <1> QED BY <1>1, <1>5, <1>6, <1>8, <1>11, WorkKeeps

\* list_agents has a key more, and goes on to an agent of the project or ends.
LEMMA NextListedFInv ==
  ASSUME FInv, NEW t \in Threads, NEW x \in Nat, NextListed(t, x), Listing(job[t]), x \in DOMAIN keys',
         RowTypes', RowRefs', Grow, raced' = raced, lagged' \in BOOLEAN
  PROVE  FInv'
  <1>1. /\ Holds(t) /\ Same(t, {"kind", "proj", "name", "key", "code", "then"})
        /\ job'[t].listed = job[t].listed \cup {x}
        /\ job'[t].rows = job[t].rows \ {job[t].agent}
        /\ \/ job'[t].rows = {} /\ job'[t].pc = "done" /\ job'[t].answer = 200
           \/ job'[t].rows # {} /\ job'[t].pc = "listKey" /\ job'[t].agent \in job'[t].rows
    BY NextListedMoves
  <1>2. /\ job'[t].kind = "list" /\ job'[t].proj = job[t].proj /\ job'[t].then = job[t].then
        /\ job[t].kind = "list" /\ job[t].pc \in HasProject /\ Busy(t)
    BY <1>1 DEF Same, Listing, HasProject, Busy
  <1>3. RefersTo(job[t]) /\ job[t].proj \in DOMAIN projects
    BY <1>2, ThreadFits DEF RefersTo
  <1>4. \A a \in job[t].rows : a \in DOMAIN agents /\ agents[a].proj = job[t].proj
    BY <1>3 DEF RefersTo
  <1>5. /\ job[t].proj \in DOMAIN projects' /\ job'[t].listed \subseteq DOMAIN keys'
        /\ \A a \in job'[t].rows : a \in DOMAIN agents' /\ agents'[a].proj = job'[t].proj
    <2>1. job[t].listed \subseteq DOMAIN keys
      BY <1>3 DEF RefersTo
    <2> QED BY <1>1, <1>2, <1>3, <1>4, <2>1, Domains
  <1>6. KindFits(job'[t]) /\ ThenFits(job'[t])
    BY <1>1, <1>2 DEF KindFits, ThenFits
  <1>7. RefersTo(job[t])'
    BY <1>1, <1>2, <1>5 DEF RefersTo, OwnAgent, Listing, HasProject
  <1> QED BY <1>1, <1>2, <1>6, <1>7, WorkKeeps

\* ensure_default_agent ends.
LEMMA EnsuredFInv ==
  ASSUME FInv, NEW t \in Threads, Busy(t), job[t].kind \in {"list", "auth", "login"}, Ensured(t, job[t]),
         job[t].pc \in HasProject, ~Listing(job[t]),
         RowTypes', RowRefs', Grow, raced' = raced, lagged' \in BOOLEAN
  PROVE  FInv'
  <1>1. /\ Holds(t) /\ Same(t, {"kind", "agent", "name", "key", "code", "listed", "then"})
        /\ \/ job[t].kind = "list" /\ job'[t].pc = "rows" /\ Same(t, {"proj", "rows"})
           \/ /\ job[t].kind = "auth" /\ job'[t].pc = "done" /\ job'[t].answer = 200
              /\ Same(t, {"proj", "rows"})
           \/ /\ job[t].kind = "login" /\ job[t].rows \ {job[t].proj} = {}
              /\ job'[t].pc = "done" /\ job'[t].answer = 200 /\ Same(t, {"proj", "rows"})
           \/ /\ job[t].kind = "login" /\ job[t].rows \ {job[t].proj} # {}
              /\ job'[t].pc = "ensure" /\ job'[t].rows = job[t].rows \ {job[t].proj}
              /\ job'[t].proj \in job'[t].rows
    BY EnsuredMoves
  <1>2. RefersTo(job[t])
    BY ThreadFits
  <1>3. CASE job'[t].pc = "done"
    <2>1. Same(t, {"kind", "then", "rows", "listed"})
      BY <1>1, <1>3 DEF Same
    <2> QED BY <1>1, <1>3, <2>1, DoneKeeps
  <1>4. CASE job'[t].pc # "done"
    <2>1. KindFits(job'[t]) /\ ThenFits(job'[t]) /\ job'[t].kind = job[t].kind
      BY <1>1, <1>4 DEF Same, KindFits, ThenFits
    <2>2. /\ job'[t].pc \in {"rows", "ensure"} /\ job'[t].proj \in DOMAIN projects
          /\ job'[t].kind = "login" => job'[t].rows \subseteq DOMAIN projects
          /\ job'[t].listed \subseteq DOMAIN keys
      BY <1>1, <1>2, <1>4 DEF Same, RefersTo
    <2>3. RefersTo(job[t])'
      BY <2>2, Domains DEF RefersTo, HasProject, Listing
    <2> QED BY <1>1, <2>1, <2>3, WorkKeeps
  <1> QED BY <1>3, <1>4

\* What create_api_key does to the tables: the latest key is the agent's.
LEMMA IssueTables ==
  ASSUME FInv, NEW t \in Threads, Issue(t)
  PROVE  /\ RowTypes' /\ RowRefs' /\ Grow
         /\ DOMAIN keys' = 1..(Len(keys) + 1) /\ DOMAIN keys = 1..Len(keys)
         /\ Len(keys) \in Nat /\ Len(keys') = Len(keys) + 1
         /\ keys'[Len(keys) + 1].proj = job[t].proj /\ keys'[Len(keys) + 1].agent = job[t].agent
         /\ keys'[Len(keys) + 1].st = "active"
         /\ \A x \in DOMAIN keys : keys'[x] = keys[x]
  <1> DEFINE r == KeyRow(job[t].proj, job[t].agent, TRUE)
  <1>1. /\ job[t].pc = "issue" /\ Counts /\ QuietLogins /\ agents' = agents /\ revoking' = revoking
        /\ keys' = Append(keys, r)
    BY IssueMoves
  <1>2. r \in ApiKeyRows /\ r.proj = job[t].proj /\ r.agent = job[t].agent /\ r.st = "active"
    <2>1. job[t].proj \in Nat /\ job[t].agent \in Nat
      BY ThreadFits DEF JobRows
    <2> QED BY <2>1 DEF KeyRow, ApiKeyRows
  <1> HIDE DEF r
  <1>3. CountTypes
    BY <1>1 DEF Counts, CountTypes, FInv, RowTypes
  <1>4. RefersTo(job[t]) /\ DOMAIN agents = 1..Len(agents) /\ Len(agents) \in Nat
    BY ThreadFits DEF FInv, RowTypes
  <1>5. job[t].agent = 0 \/ OwnAgent(job[t])
    BY <1>1, <1>4 DEF RefersTo
  <1>6. job[t].proj \in DOMAIN projects
    BY <1>1, <1>4 DEF RefersTo, HasProject
  <1>7. r.proj \in DOMAIN projects /\ r.agent \in 0..Len(agents) /\ (r.agent # 0 => agents[r.agent].proj = r.proj)
    BY <1>2, <1>4, <1>5, <1>6 DEF OwnAgent
  <1> QED BY <1>1, <1>2, <1>3, <1>7, KeyAdded

\* create_api_key: types, places and references are kept.
LEMMA IssueFInv ==
  ASSUME FInv, NEW t \in Threads, Issue(t)
  PROVE  FInv'
  <1>1. /\ job[t].pc = "issue" /\ Counts /\ lagged' = lagged
        /\ Holds(t) /\ Same(t, {"kind", "key", "code"})
        /\ \/ /\ job[t].then = "done" /\ Same(t, RefFields)
              /\ job'[t].pc = "done" /\ job'[t].answer = 200
           \/ job[t].then = "listKey" /\ NextListed(t, Len(keys) + 1)
           \/ job[t].then = "ensured" /\ Ensured(t, job[t])
           \/ /\ job[t].then = "firstAgent" /\ job'[t].pc = "dup" /\ job'[t].name = "default"
              /\ job'[t].then = "ensureFirst" /\ Same(t, {"proj", "agent", "rows", "listed"})
           \/ job[t].then = "ensureFirst" /\ job'[t].pc = "ensure" /\ Same(t, RefFields)
    BY IssueMoves
  <1>2. /\ RowTypes' /\ RowRefs' /\ Grow
        /\ DOMAIN keys' = 1..(Len(keys) + 1) /\ Len(keys) \in Nat
    BY IssueTables
  <1>3. KindFits(job[t]) /\ ThenFits(job[t]) /\ RefersTo(job[t]) /\ job[t] \in JobRows
    BY ThreadFits
  <1>4. lagged' \in BOOLEAN /\ raced' = raced /\ Busy(t) /\ job[t].pc \in HasProject
    BY <1>1 DEF Counts, FInv, Busy, HasProject
  <1>5. CASE job[t].then = "done" /\ Same(t, RefFields) /\ job'[t].pc = "done"
    <2>1. Same(t, {"kind", "then", "rows", "listed"})
      BY <1>5 DEF Same, RefFields
    <2> QED BY <1>1, <1>2, <1>4, <1>5, <2>1, DoneKeeps
  <1>6. CASE job[t].then = "listKey" /\ NextListed(t, Len(keys) + 1)
    <2>1. Listing(job[t]) /\ Len(keys) + 1 \in DOMAIN keys' /\ Len(keys) + 1 \in Nat
      <3>1. job[t].kind = "list"
        BY <1>1, <1>3, <1>6 DEF KindFits, ThenFits
      <3> QED BY <1>1, <1>2, <1>6, <3>1 DEF Listing
    <2> QED BY <1>2, <1>4, <1>6, <2>1, NextListedFInv
  <1>7. CASE job[t].then = "ensured" /\ Ensured(t, job[t])
    <2>1. job[t].kind \in {"list", "auth", "login"} /\ ~Listing(job[t])
      BY <1>1, <1>3, <1>7 DEF KindFits, ThenFits, Listing
    <2> QED BY <1>2, <1>4, <1>7, <2>1, EnsuredFInv
  <1>8. CASE /\ job[t].then = "firstAgent" /\ job'[t].pc = "dup" /\ job'[t].name = "default"
             /\ job'[t].then = "ensureFirst" /\ Same(t, {"proj", "agent", "rows", "listed"})
    <2>1. job[t].kind = "login" /\ job[t].agent = 0
      BY <1>1, <1>3, <1>8 DEF KindFits, ThenFits, RefersTo
    <2>2. /\ job'[t].kind = "login" /\ job'[t].agent = 0 /\ job'[t].proj = job[t].proj
          /\ job'[t].rows = job[t].rows /\ job'[t].listed = job[t].listed
      BY <1>1, <1>8, <2>1 DEF Same
    <2>3. KindFits(job'[t]) /\ ThenFits(job'[t])
      BY <1>8, <2>2 DEF KindFits, ThenFits
    <2>4. /\ job'[t].name \in Names /\ job[t].proj \in DOMAIN projects
          /\ job[t].rows \subseteq DOMAIN projects /\ job[t].listed \subseteq DOMAIN keys
      BY <1>3, <1>4, <1>8, <2>1, AccountsAssumption DEF RefersTo
    <2>5. RefersTo(job[t])'
      BY <1>2, <1>8, <2>2, <2>4, Domains DEF RefersTo, HasProject, Listing
    <2> QED BY <1>1, <1>2, <1>4, <2>1, <2>2, <2>3, <2>5, WorkKeeps
  <1>9. CASE job[t].then = "ensureFirst" /\ job'[t].pc = "ensure" /\ Same(t, RefFields)
    <2>1. job[t].kind = "login"
      BY <1>1, <1>3, <1>9 DEF KindFits, ThenFits
    <2>2. /\ job'[t].kind = "login" /\ job'[t].proj = job[t].proj
          /\ job'[t].rows = job[t].rows /\ job'[t].listed = job[t].listed
      BY <1>9, <2>1 DEF Same, RefFields
    <2>3. KindFits(job'[t]) /\ ThenFits(job'[t])
      BY <1>9, <2>2 DEF KindFits, ThenFits
    <2>4. /\ job[t].proj \in DOMAIN projects
          /\ job[t].rows \subseteq DOMAIN projects /\ job[t].listed \subseteq DOMAIN keys
      BY <1>3, <1>4, <2>1 DEF RefersTo
    <2>5. RefersTo(job[t])'
      BY <1>2, <1>9, <2>2, <2>4, Domains DEF RefersTo, HasProject, Listing
    <2> QED BY <1>1, <1>2, <1>4, <2>1, <2>2, <2>3, <2>5, WorkKeeps
  <1> QED BY <1>1, <1>5, <1>6, <1>7, <1>8, <1>9

\* The SELECT for a key of the default agent: types, places and references are kept.
LEMMA EnsureKeyFInv ==
  ASSUME FInv, NEW t \in Threads, EnsureKey(t)
  PROVE  FInv'
  <1>1. /\ job[t].pc = "ensureKey" /\ Counts /\ Quiet /\ lagged' = lagged
        /\ job[t].kind \in {"list", "auth", "login"}
        /\ Holds(t) /\ Same(t, {"kind", "agent", "name", "key", "code", "listed"})
        /\ \/ Ensured(t, job[t])
           \/ job'[t].pc = "issue" /\ job'[t].then = "ensured" /\ Same(t, {"proj", "rows"})
    BY EnsureKeyMoves
  <1>2. CountTypes
    BY <1>1 DEF Counts, CountTypes, FInv, RowTypes
  <1>3. RowTypes' /\ RowRefs' /\ Grow
    BY <1>1, <1>2, QuietGrow
  <1>4. KindFits(job[t]) /\ ThenFits(job[t]) /\ RefersTo(job[t]) /\ job[t] \in JobRows
    BY ThreadFits
  <1>5. /\ lagged' \in BOOLEAN /\ raced' = raced /\ Busy(t) /\ job[t].pc \in HasProject
        /\ ~Listing(job[t])
    BY <1>1 DEF Counts, FInv, Busy, HasProject, Listing
  <1>6. CASE Ensured(t, job[t])
    BY <1>1, <1>3, <1>5, <1>6, EnsuredFInv
  <1>7. CASE job'[t].pc = "issue" /\ job'[t].then = "ensured" /\ Same(t, {"proj", "rows"})
    <2>1. /\ job'[t].kind = job[t].kind /\ job'[t].proj = job[t].proj /\ job'[t].agent = job[t].agent
          /\ job'[t].rows = job[t].rows /\ job'[t].listed = job[t].listed
      BY <1>1, <1>7 DEF Same
    <2>2. KindFits(job'[t]) /\ ThenFits(job'[t])
      BY <1>1, <1>7, <2>1 DEF KindFits, ThenFits
    <2>3. /\ OwnAgent(job[t]) /\ job[t].proj \in DOMAIN projects /\ job[t].listed \subseteq DOMAIN keys
          /\ job[t].kind = "login" => job[t].rows \subseteq DOMAIN projects
      BY <1>1, <1>4, <1>5 DEF RefersTo
    <2>4. OwnAgent(job[t])'
      BY <1>1, <2>1, <2>3 DEF OwnAgent, Quiet
    <2>5. RefersTo(job[t])'
      BY <1>1, <1>3, <1>7, <2>1, <2>3, <2>4, Domains DEF RefersTo, HasProject, Listing
    <2> QED BY <1>1, <1>3, <1>5, <2>1, <2>2, <2>5, WorkKeeps
  <1> QED BY <1>1, <1>6, <1>7

\* The SELECT for the latest key of a listed agent: types, places and references are kept.
LEMMA ListKeyFInv ==
  ASSUME FInv, NEW t \in Threads, ListKey(t)
  PROVE  FInv'
  <1>1. /\ job[t].pc = "listKey" /\ Counts /\ Quiet /\ lagged' = lagged
        /\ Holds(t) /\ Same(t, {"kind", "proj", "name", "key", "code"})
        /\ \/ \E x \in KeysOf(job[t].proj, job[t].agent) : x \in Nat /\ NextListed(t, x)
           \/ job'[t].pc = "find" /\ job'[t].then = "listKey" /\ Same(t, {"agent", "rows", "listed"})
    BY ListKeyMoves
  <1>2. CountTypes
    BY <1>1 DEF Counts, CountTypes, FInv, RowTypes
  <1>3. RowTypes' /\ RowRefs' /\ Grow
    BY <1>1, <1>2, QuietGrow
  <1>4. KindFits(job[t]) /\ RefersTo(job[t])
    BY ThreadFits
  <1>5. /\ lagged' \in BOOLEAN /\ raced' = raced /\ Busy(t) /\ job[t].pc \in HasProject
        /\ job[t].kind = "list" /\ Listing(job[t])
    BY <1>1, <1>4 DEF Counts, FInv, Busy, HasProject, Listing, KindFits
  <1>6. CASE \E x \in KeysOf(job[t].proj, job[t].agent) : x \in Nat /\ NextListed(t, x)
    <2>1. PICK x \in KeysOf(job[t].proj, job[t].agent) : x \in Nat /\ NextListed(t, x)
      BY <1>6
    <2>2. x \in DOMAIN keys'
      BY <1>1 DEF KeysOf, Quiet, QuietKeys
    <2> QED BY <1>3, <1>5, <2>1, <2>2, NextListedFInv
  <1>7. CASE job'[t].pc = "find" /\ job'[t].then = "listKey" /\ Same(t, {"agent", "rows", "listed"})
    <2>1. /\ job'[t].kind = "list" /\ job'[t].proj = job[t].proj /\ job'[t].agent = job[t].agent
          /\ job'[t].rows = job[t].rows /\ job'[t].listed = job[t].listed
      BY <1>1, <1>5, <1>7 DEF Same
    <2>2. KindFits(job'[t]) /\ ThenFits(job'[t])
      BY <1>1, <1>7, <2>1 DEF KindFits, ThenFits
    <2>3. /\ OwnAgent(job[t]) /\ job[t].proj \in DOMAIN projects /\ job[t].listed \subseteq DOMAIN keys
          /\ job[t].agent \in job[t].rows
          /\ \A a \in job[t].rows : a \in DOMAIN agents /\ agents[a].proj = job[t].proj
      BY <1>1, <1>4, <1>5 DEF RefersTo
    <2>4. /\ job[t].agent \in DOMAIN agents' /\ job[t].proj \in DOMAIN projects'
          /\ job[t].listed \subseteq DOMAIN keys'
          /\ \A a \in job[t].rows : a \in DOMAIN agents' /\ agents'[a].proj = job[t].proj
      BY <1>3, <2>3, Domains DEF OwnAgent
    <2>5. RefersTo(job[t])'
      BY <1>7, <2>1, <2>3, <2>4 DEF RefersTo, HasProject, Listing
    <2> QED BY <1>1, <1>3, <1>5, <2>1, <2>2, <2>5, WorkKeeps
  <1> QED BY <1>1, <1>6, <1>7

\* An error in a statement: types, places and references are kept.
LEMMA RaiseFInv ==
  ASSUME FInv, NEW t \in Threads, Raise(t)
  PROVE  FInv'
  <1>1. /\ Busy(t) /\ Quiet /\ lagged' = lagged /\ clients' = clients /\ requests' = requests
        /\ raced' = raced /\ faults' = faults + 1
        /\ Holds(t) /\ Same(t, RefFields) /\ job'[t].pc = "done"
    BY RaiseMoves
  <1>2. CountTypes /\ lagged' \in BOOLEAN
    BY <1>1 DEF CountTypes, FInv, RowTypes
  <1>3. RowTypes' /\ RowRefs' /\ Grow
    BY <1>1, <1>2, QuietGrow
  <1>4. Same(t, {"kind", "then", "rows", "listed"})
    BY <1>1 DEF Same, RefFields
  <1> QED BY <1>1, <1>2, <1>3, <1>4, DoneKeeps

\* A revocation takes effect on one key.
LEMMA RevokeAppliedMoves ==
  ASSUME FInv, RevokeApplied
  PROVE  /\ job' = job /\ Counts /\ QuietLogins /\ agents' = agents /\ LateRevoke
         /\ RowTypes' /\ RowRefs' /\ Grow
         /\ DOMAIN keys' = DOMAIN keys
         /\ \E y \in revoking :
              /\ revoking' = revoking \ {y}
              /\ \A x \in DOMAIN keys :
                   /\ keys'[x].proj = keys[x].proj /\ keys'[x].agent = keys[x].agent
                   /\ keys'[x].st = IF x = y THEN "revoked" ELSE keys[x].st
  <1>1. /\ job' = job /\ Counts /\ QuietLogins /\ agents' = agents /\ LateRevoke
    BY DEF RevokeApplied, Counts, countVars, QuietLogins
  <1>2. PICK y \in revoking : keys' = Revoked({y}) /\ revoking' = revoking \ {y}
    BY DEF RevokeApplied
  <1>3. CountTypes /\ revoking' \subseteq DOMAIN keys
    BY <1>1, <1>2 DEF Counts, CountTypes, FInv, RowTypes, RowRefs
  <1>4. /\ RowTypes' /\ RowRefs' /\ Grow
        /\ DOMAIN keys' = DOMAIN keys /\ Len(keys') = Len(keys)
        /\ \A x \in DOMAIN keys :
              /\ keys'[x].proj = keys[x].proj /\ keys'[x].agent = keys[x].agent
              /\ keys'[x].st = IF x \in {y} THEN "revoked" ELSE keys[x].st
    BY <1>1, <1>2, <1>3, KeysRevoked
  <1> QED BY <1>1, <1>2, <1>4

\* A mutation takes effect, or time passes.
LEMMA BackgroundFInv ==
  ASSUME FInv, RevokeApplied \/ CodeMutationApplied \/ Tick
  PROVE  FInv'
  <1>1. CASE RevokeApplied
    <2>1. job' = job /\ Counts /\ LateRevoke /\ RowTypes' /\ RowRefs' /\ Grow
      BY <1>1, RevokeAppliedMoves
    <2>2. raced' = raced /\ lagged' \in BOOLEAN
      BY <2>1 DEF Counts, LateRevoke, FInv
    <2> QED BY <2>1, <2>2, BackgroundKeeps
  <1>2. CASE CodeMutationApplied
    <2>1. job' = job /\ Counts /\ lagged' = lagged /\ RowTypes' /\ RowRefs' /\ Grow
      BY <1>2, MutationMoves
    <2>2. raced' = raced /\ lagged' \in BOOLEAN
      BY <2>1 DEF Counts, FInv
    <2> QED BY <2>1, <2>2, BackgroundKeeps
  <1>3. CASE Tick
    <2>1. job' = job /\ Counts /\ lagged' = lagged /\ RowTypes' /\ RowRefs' /\ Grow
      BY <1>3, TickMoves
    <2>2. raced' = raced /\ lagged' \in BOOLEAN
      BY <2>1 DEF Counts, FInv
    <2> QED BY <2>1, <2>2, BackgroundKeeps
  <1> QED BY <1>1, <1>2, <1>3

\* A step of the server.
LEMMA StepFInv ==
  ASSUME FInv, NEW t \in Threads, AccountsStep(t)
  PROVE  FInv'
  <1>1. CASE Request(t) \/ Raise(t)
    BY <1>1, RequestFInv, RaiseFInv
  <1>2. CASE Find(t) \/ Dup(t) \/ InsertAgent(t) \/ Rename(t) \/ Count(t) \/ MarkDeleted(t)
    BY <1>2, FindFInv, DupFInv, InsertAgentFInv, RenameFInv, CountFInv, MarkDeletedFInv
  <1>3. CASE RevokeAgentKeys(t) \/ RevokeProjectKeys(t) \/ RevokeKey(t) \/ Issue(t)
    BY <1>3, RevokeAgentKeysFInv, RevokeProjectKeysFInv, RevokeKeyFInv, IssueFInv
  <1>4. CASE EnsureRows(t) \/ EnsureKey(t) \/ ListRows(t) \/ ListKey(t) \/ AuthKey(t) \/ AuthAgent(t)
    BY <1>4, EnsureRowsFInv, EnsureKeyFInv, ListRowsFInv, ListKeyFInv, AuthKeyFInv, AuthAgentFInv
  <1>5. CASE Recent(t) \/ Limit(t) \/ InsertCode(t) \/ SendSms(t)
    BY <1>5, RecentFInv, LimitFInv, InsertCodeFInv, SendSmsFInv
  <1>6. CASE \/ ReadCode(t) \/ WrongCode(t) \/ Consume(t) \/ ReadUser(t) \/ InsertUser(t)
             \/ ReadProjects(t) \/ InsertProjectRow(t)
    BY <1>6, ReadCodeFInv, WrongCodeFInv, ConsumeFInv, ReadUserFInv, InsertUserFInv, ReadProjectsFInv,
       InsertProjectRowFInv
  <1> QED BY <1>1, <1>2, <1>3, <1>4, <1>5, <1>6 DEF AccountsStep

\* Types, places, references and the record of overlaps are kept.
LEMMA NextFInv ==
  ASSUME FInv, [AccountsNext]_accountVars
  PROVE  FInv'
  <1>1. CASE AccountsNext
    BY <1>1, StepFInv, BackgroundFInv DEF AccountsNext
  <1>2. CASE UNCHANGED accountVars
    BY <1>2 DEF accountVars, tableVars, countVars, FInv, RowTypes, RowRefs, Overlaps, Busy, RefersTo,
                OwnAgent, Listing
  <1> QED BY <1>1, <1>2

\* Both beginnings are in order.
LEMMA InitFInv ==
  ASSUME AccountsInit
  PROVE  FInv
  <1>1. /\ Idle \in JobRows /\ Idle.pc = "idle" /\ Idle.kind = "none" /\ Idle.listed = {} /\ Idle.rows = {}
    BY DEF Idle, JobRows, JobPlaces, JobNames
  <1>2. job = [t \in Threads |-> Idle] /\ codeMuts = <<>> /\ revoking = {} /\ requests = 0 /\ faults = 0
        /\ raced = {} /\ lagged = FALSE
    BY DEF AccountsInit
  <1>3. job \in [Threads -> JobRows] /\ \A t \in Threads : job[t] = Idle
    BY <1>1, <1>2
  <1>4. \A t \in Threads : KindFits(job[t]) /\ ThenFits(job[t]) /\ RefersTo(job[t])
    BY <1>1, <1>3 DEF KindFits, ThenFits, RefersTo, HasProject, Listing
  <1>5. Overlaps
    BY <1>1, <1>3 DEF Overlaps, Busy
  <1>6. RowTypes /\ RowRefs
    <2>0. clients = AgentKinds \/ clients = LoginKinds
      BY DEF AccountsInit
    <2>1. requests \in Nat /\ faults \in Nat /\ clients \in {AgentKinds, LoginKinds}
      BY <1>2, <2>0
    <2>2. codeMuts \in Seq(CodeMutRows) /\ DOMAIN codeMuts = {} /\ revoking = {}
      BY <1>2
    <2>3. \/ /\ users = 1 /\ projects = <<1>> /\ codes = <<>>
             /\ agents = <<AgentRow(1, "default"), AgentRow(1, "x")>>
             /\ \E plain \in BOOLEAN :
                  keys = <<KeyRow(1, 0, TRUE), KeyRow(1, 1, TRUE), KeyRow(1, 2, plain)>>
          \/ /\ users = 0 /\ projects = <<>> /\ agents = <<>> /\ keys = <<>>
             /\ codes = <<[CodeRow EXCEPT !.age = 1]>>
      BY DEF AccountsInit
    <2>4. CASE /\ users = 1 /\ projects = <<1>> /\ codes = <<>>
               /\ agents = <<AgentRow(1, "default"), AgentRow(1, "x")>>
               /\ \E plain \in BOOLEAN :
                    keys = <<KeyRow(1, 0, TRUE), KeyRow(1, 1, TRUE), KeyRow(1, 2, plain)>>
      <3>1. PICK plain \in BOOLEAN :
              keys = <<KeyRow(1, 0, TRUE), KeyRow(1, 1, TRUE), KeyRow(1, 2, plain)>>
        BY <2>4
      <3> DEFINE k0 == KeyRow(1, 0, TRUE)
                 k1 == KeyRow(1, 1, TRUE)
                 k2 == KeyRow(1, 2, plain)
                 a1 == AgentRow(1, "default")
                 a2 == AgentRow(1, "x")
      <3>2. /\ k0 \in ApiKeyRows /\ k1 \in ApiKeyRows /\ k2 \in ApiKeyRows
            /\ k0.proj = 1 /\ k1.proj = 1 /\ k2.proj = 1
            /\ k0.agent = 0 /\ k1.agent = 1 /\ k2.agent = 2
        BY DEF KeyRow, ApiKeyRows
      <3>3. a1 \in AgentRows /\ a2 \in AgentRows /\ a1.proj = 1 /\ a2.proj = 1
        BY AccountsAssumption DEF AgentRow, AgentRows
      <3>4. keys = <<k0, k1, k2>> /\ agents = <<a1, a2>> /\ users = 1 /\ projects = <<1>> /\ codes = <<>>
        BY <2>4, <3>1
      <3> HIDE DEF k0, k1, k2, a1, a2
      <3>5. /\ keys \in Seq(ApiKeyRows) /\ agents \in Seq(AgentRows) /\ projects \in Seq(Nat)
            /\ codes \in Seq(CodeRows)
        BY <3>2, <3>3, <3>4
      <3>6. /\ DOMAIN keys = 1..3 /\ DOMAIN agents = 1..2 /\ Len(agents) = 2 /\ DOMAIN projects = 1..1
            /\ keys[1] = k0 /\ keys[2] = k1 /\ keys[3] = k2 /\ agents[1] = a1 /\ agents[2] = a2
            /\ projects[1] = 1
        BY <3>4
      <3>7. RowTypes
        BY <2>1, <2>2, <3>4, <3>5 DEF RowTypes
      <3>8. RowRefs
        BY <2>2, <3>2, <3>3, <3>4, <3>6 DEF RowRefs
      <3> QED BY <3>7, <3>8
    <2>5. CASE /\ users = 0 /\ projects = <<>> /\ agents = <<>> /\ keys = <<>>
               /\ codes = <<[CodeRow EXCEPT !.age = 1]>>
      <3> DEFINE c == [CodeRow EXCEPT !.age = 1]
      <3>1. c \in CodeRows
        BY DEF CodeRow, CodeRows
      <3>2. codes = <<c>>
        BY <2>5
      <3> HIDE DEF c
      <3>3. codes \in Seq(CodeRows)
        BY <3>1, <3>2
      <3> QED BY <2>1, <2>2, <2>5, <3>3 DEF RowTypes, RowRefs
    <2> QED BY <2>3, <2>4, <2>5
  <1> QED BY <1>2, <1>3, <1>4, <1>5, <1>6 DEF FInv

\* The types of the rows and of the threads.
LEMMA TypesFInv ==
  ASSUME FInv
  PROVE  AccountsTypes
  <1>1. \A a \in DOMAIN agents :
          agents[a] \in [proj : DOMAIN projects, name : Names, st : {"active", "deleted"}]
    <2> SUFFICES ASSUME NEW a \in DOMAIN agents
                 PROVE  agents[a] \in [proj : DOMAIN projects, name : Names, st : {"active", "deleted"}]
      OBVIOUS
    <2>1. agents[a] \in AgentRows /\ agents[a].proj \in DOMAIN projects
      BY DEF FInv, RowTypes, RowRefs
    <2> QED BY <2>1 DEF AgentRows
  <1>2. \A x \in DOMAIN keys :
          keys[x] \in [proj : DOMAIN projects, agent : 0..Len(agents),
                       st : {"active", "revoked"}, plain : BOOLEAN]
    <2> SUFFICES ASSUME NEW x \in DOMAIN keys
                 PROVE  keys[x] \in [proj : DOMAIN projects, agent : 0..Len(agents),
                                     st : {"active", "revoked"}, plain : BOOLEAN]
      OBVIOUS
    <2>1. keys[x] \in ApiKeyRows /\ keys[x].proj \in DOMAIN projects /\ keys[x].agent \in 0..Len(agents)
      BY DEF FInv, RowTypes, RowRefs
    <2> QED BY <2>1 DEF ApiKeyRows
  <1>3. \A t \in Threads : job[t].kind \in AccountKinds \cup {"none"} /\ job[t].listed \subseteq DOMAIN keys
    <2> SUFFICES ASSUME NEW t \in Threads
                 PROVE  job[t].kind \in AccountKinds \cup {"none"} /\ job[t].listed \subseteq DOMAIN keys
      OBVIOUS
    <2> QED BY ThreadFits DEF JobRows, RefersTo
  <1> QED BY <1>1, <1>2, <1>3 DEF AccountsTypes, FInv, RowTypes, RowRefs

-----------------------------------------------------------------------------
(* Which steps change which table, and which lead to which place *)

\* Requests that were in flight together stay on record, and so do errors.
Moved(t) ==
  /\ Holds(t) /\ clients' = clients /\ raced \subseteq raced' /\ faults' \in {faults, faults + 1}
  /\ lagged => lagged'
  /\ Request(t) \/ (Busy(t) /\ job'[t].kind = job[t].kind /\ raced' = raced)

\* The tables a step writes, by the step that writes them.
Touches(t) ==
  /\ agents' = agents \/ InsertAgent(t) \/ Rename(t) \/ MarkDeleted(t)
  /\ QuietKeys \/ RevokeAgentKeys(t) \/ RevokeProjectKeys(t) \/ RevokeKey(t) \/ Issue(t)
  /\ (codes' = codes /\ codeMuts' = codeMuts) \/ InsertCode(t) \/ WrongCode(t) \/ Consume(t)
  /\ users' = users \/ InsertUser(t)
  /\ projects' = projects \/ InsertProjectRow(t)

\* Only these steps lead to a place where a request goes by what it has read.
Leads(t) ==
  /\ job'[t].pc = "mark" => Count(t)
  /\ job'[t].pc \in {"insert", "rename"} => Dup(t)
  /\ job'[t].pc = "insertDefault" => EnsureRows(t)
  /\ job'[t].pc = "ensureKey" => EnsureRows(t) \/ InsertAgent(t)
  /\ job'[t].pc = "revokeAgent" => Find(t) \/ MarkDeleted(t)
  /\ job'[t].pc = "issue" =>
       RevokeAgentKeys(t) \/ RevokeProjectKeys(t) \/ EnsureKey(t) \/ InsertAgent(t) \/ InsertProjectRow(t)
  /\ job'[t].pc = "limit" => Recent(t)
  /\ job'[t].pc = "insertCode" => Limit(t)
  /\ job'[t].pc \in {"wrong", "consume"} => ReadCode(t)
  /\ job'[t].pc = "authAgent" => AuthKey(t)
  /\ job'[t].pc = "listKey" => ListRows(t) \/ ListKey(t) \/ Issue(t)
  /\ job'[t].pc = "find" => Request(t) \/ ListKey(t)
  /\ job'[t].pc = "dup" => Request(t) \/ Find(t) \/ Issue(t)
  /\ job'[t].pc = "count" => Find(t)
  /\ job'[t].pc = "ensure" => Request(t) \/ AuthAgent(t) \/ Issue(t) \/ EnsureKey(t) \/ ReadProjects(t)
  /\ job'[t].pc = "insertUser" => ReadUser(t)
  /\ job'[t].pc = "projects" => ReadUser(t) \/ InsertUser(t)
  /\ job'[t].pc = "insertProject" => ReadProjects(t)
  /\ job'[t].pc \in HasProject =>
       job[t].pc \in HasProject \/ Request(t) \/ AuthKey(t) \/ ReadProjects(t) \/ InsertProjectRow(t)

\* From these places only one step goes on; the other way out is an error.
Leaves(t) ==
  /\ job[t].pc = "revokeAgent" => RevokeAgentKeys(t) \/ Raise(t)
  /\ job[t].pc = "listKey" => ListKey(t) \/ Raise(t)
  /\ job[t].pc = "rows" => ListRows(t) \/ Raise(t)
  /\ job[t].pc = "find" => Find(t) \/ Raise(t)
  /\ job[t].pc = "issue" => Issue(t) \/ Raise(t)
  /\ job[t].pc = "ensure" => EnsureRows(t) \/ Raise(t)
  /\ job[t].pc = "insertDefault" => InsertAgent(t) \/ Raise(t)
  /\ job[t].pc = "ensureKey" => EnsureKey(t) \/ Raise(t)
  /\ job[t].pc = "authKey" => AuthKey(t) \/ Raise(t)
  /\ job[t].pc = "authAgent" => AuthAgent(t) \/ Raise(t)

\* What every step of a thread keeps.
LEMMA StepMoves ==
  ASSUME FInv, NEW t \in Threads, AccountsStep(t)
  PROVE  Moved(t)
  <1>1. CASE Request(t)
    BY <1>1, RequestMoves DEF Moved, Counts, Same, RefFields, Busy
  <1>2. CASE Raise(t)
    BY <1>2, RaiseMoves DEF Moved, Counts, Same, RefFields, Busy
  <1>3. CASE Find(t)
    BY <1>3, FindMoves DEF Moved, Counts, Same, RefFields, Busy
  <1>4. CASE Dup(t)
    BY <1>4, DupMoves DEF Moved, Counts, Same, RefFields, Busy
  <1>5. CASE InsertAgent(t)
    BY <1>5, InsertAgentMoves DEF Moved, Counts, Same, RefFields, Busy
  <1>6. CASE Rename(t)
    BY <1>6, RenameMoves DEF Moved, Counts, Same, RefFields, Busy
  <1>7. CASE Count(t)
    BY <1>7, CountMoves DEF Moved, Counts, Same, RefFields, Busy
  <1>8. CASE MarkDeleted(t)
    BY <1>8, MarkDeletedMoves DEF Moved, Counts, Same, RefFields, Busy
  <1>9. CASE RevokeAgentKeys(t)
    BY <1>9, RevokeAgentKeysMoves DEF Moved, Counts, Same, RefFields, Busy, LateRevoke
  <1>10. CASE RevokeProjectKeys(t)
    BY <1>10, RevokeProjectKeysMoves DEF Moved, Counts, Same, RefFields, Busy
  <1>11. CASE RevokeKey(t)
    BY <1>11, RevokeKeyMoves DEF Moved, Counts, Same, RefFields, Busy
  <1>12. CASE Issue(t)
    BY <1>12, IssueMoves DEF Moved, Counts, Same, RefFields, Busy
  <1>13. CASE EnsureRows(t)
    BY <1>13, EnsureRowsMoves DEF Moved, Counts, Same, RefFields, Busy
  <1>14. CASE EnsureKey(t)
    BY <1>14, EnsureKeyMoves DEF Moved, Counts, Same, RefFields, Busy
  <1>15. CASE ListRows(t)
    BY <1>15, ListRowsMoves DEF Moved, Counts, Same, RefFields, Busy
  <1>16. CASE ListKey(t)
    BY <1>16, ListKeyMoves DEF Moved, Counts, Same, RefFields, Busy
  <1>17. CASE AuthKey(t)
    BY <1>17, AuthKeyMoves DEF Moved, Counts, Same, RefFields, Busy
  <1>18. CASE AuthAgent(t)
    BY <1>18, AuthAgentMoves DEF Moved, Counts, Same, RefFields, Busy
  <1>19. CASE Recent(t)
    BY <1>19, RecentMoves DEF Moved, Counts, Same, RefFields, Busy
  <1>20. CASE Limit(t)
    BY <1>20, LimitMoves DEF Moved, Counts, Same, RefFields, Busy
  <1>21. CASE InsertCode(t)
    BY <1>21, InsertCodeMoves DEF Moved, Counts, Same, RefFields, Busy
  <1>22. CASE SendSms(t)
    BY <1>22, SendSmsMoves DEF Moved, Counts, Same, RefFields, Busy
  <1>23. CASE ReadCode(t)
    BY <1>23, ReadCodeMoves DEF Moved, Counts, Same, RefFields, Busy
  <1>24. CASE WrongCode(t)
    BY <1>24, WrongCodeMoves DEF Moved, Counts, Same, RefFields, Busy
  <1>25. CASE Consume(t)
    BY <1>25, ConsumeMoves DEF Moved, Counts, Same, RefFields, Busy
  <1>26. CASE ReadUser(t)
    BY <1>26, ReadUserMoves DEF Moved, Counts, Same, RefFields, Busy
  <1>27. CASE InsertUser(t)
    BY <1>27, InsertUserMoves DEF Moved, Counts, Same, RefFields, Busy
  <1>28. CASE ReadProjects(t)
    BY <1>28, ReadProjectsMoves DEF Moved, Counts, Same, RefFields, Busy
  <1>29. CASE InsertProjectRow(t)
    BY <1>29, InsertProjectRowMoves DEF Moved, Counts, Same, RefFields, Busy
  <1> QED BY <1>1, <1>2, <1>3, <1>4, <1>5, <1>6, <1>7, <1>8, <1>9, <1>10, <1>11, <1>12, <1>13, <1>14, <1>15, <1>16, <1>17, <1>18, <1>19, <1>20, <1>21, <1>22, <1>23, <1>24, <1>25, <1>26, <1>27, <1>28, <1>29 DEF AccountsStep

\* The tables a step of a thread writes.
LEMMA StepTouches ==
  ASSUME FInv, NEW t \in Threads, AccountsStep(t)
  PROVE  Touches(t)
  <1>1. CASE Request(t)
    BY <1>1, RequestMoves DEF Touches, Quiet, QuietLogins, QuietKeys
  <1>2. CASE Raise(t)
    BY <1>2, RaiseMoves DEF Touches, Quiet, QuietLogins, QuietKeys
  <1>3. CASE Find(t)
    BY <1>3, FindMoves DEF Touches, Quiet, QuietLogins, QuietKeys
  <1>4. CASE Dup(t)
    BY <1>4, DupMoves DEF Touches, Quiet, QuietLogins, QuietKeys
  <1>5. CASE InsertAgent(t)
    BY <1>5, InsertAgentMoves DEF Touches, Quiet, QuietLogins, QuietKeys
  <1>6. CASE Rename(t)
    BY <1>6, RenameMoves DEF Touches, Quiet, QuietLogins, QuietKeys
  <1>7. CASE Count(t)
    BY <1>7, CountMoves DEF Touches, Quiet, QuietLogins, QuietKeys
  <1>8. CASE MarkDeleted(t)
    BY <1>8, MarkDeletedMoves DEF Touches, Quiet, QuietLogins, QuietKeys
  <1>9. CASE RevokeAgentKeys(t)
    BY <1>9, RevokeAgentKeysMoves DEF Touches, Quiet, QuietLogins, QuietKeys
  <1>10. CASE RevokeProjectKeys(t)
    BY <1>10, RevokeProjectKeysMoves DEF Touches, Quiet, QuietLogins, QuietKeys
  <1>11. CASE RevokeKey(t)
    BY <1>11, RevokeKeyMoves DEF Touches, Quiet, QuietLogins, QuietKeys
  <1>12. CASE Issue(t)
    BY <1>12, IssueMoves DEF Touches, Quiet, QuietLogins, QuietKeys
  <1>13. CASE EnsureRows(t)
    BY <1>13, EnsureRowsMoves DEF Touches, Quiet, QuietLogins, QuietKeys
  <1>14. CASE EnsureKey(t)
    BY <1>14, EnsureKeyMoves DEF Touches, Quiet, QuietLogins, QuietKeys
  <1>15. CASE ListRows(t)
    BY <1>15, ListRowsMoves DEF Touches, Quiet, QuietLogins, QuietKeys
  <1>16. CASE ListKey(t)
    BY <1>16, ListKeyMoves DEF Touches, Quiet, QuietLogins, QuietKeys
  <1>17. CASE AuthKey(t)
    BY <1>17, AuthKeyMoves DEF Touches, Quiet, QuietLogins, QuietKeys
  <1>18. CASE AuthAgent(t)
    BY <1>18, AuthAgentMoves DEF Touches, Quiet, QuietLogins, QuietKeys
  <1>19. CASE Recent(t)
    BY <1>19, RecentMoves DEF Touches, Quiet, QuietLogins, QuietKeys
  <1>20. CASE Limit(t)
    BY <1>20, LimitMoves DEF Touches, Quiet, QuietLogins, QuietKeys
  <1>21. CASE InsertCode(t)
    BY <1>21, InsertCodeMoves DEF Touches, Quiet, QuietLogins, QuietKeys
  <1>22. CASE SendSms(t)
    BY <1>22, SendSmsMoves DEF Touches, Quiet, QuietLogins, QuietKeys
  <1>23. CASE ReadCode(t)
    BY <1>23, ReadCodeMoves DEF Touches, Quiet, QuietLogins, QuietKeys
  <1>24. CASE WrongCode(t)
    BY <1>24, WrongCodeMoves DEF Touches, Quiet, QuietLogins, QuietKeys
  <1>25. CASE Consume(t)
    BY <1>25, ConsumeMoves DEF Touches, Quiet, QuietLogins, QuietKeys
  <1>26. CASE ReadUser(t)
    BY <1>26, ReadUserMoves DEF Touches, Quiet, QuietLogins, QuietKeys
  <1>27. CASE InsertUser(t)
    BY <1>27, InsertUserMoves DEF Touches, Quiet, QuietLogins, QuietKeys
  <1>28. CASE ReadProjects(t)
    BY <1>28, ReadProjectsMoves DEF Touches, Quiet, QuietLogins, QuietKeys
  <1>29. CASE InsertProjectRow(t)
    BY <1>29, InsertProjectRowMoves DEF Touches, Quiet, QuietLogins, QuietKeys
  <1> QED BY <1>1, <1>2, <1>3, <1>4, <1>5, <1>6, <1>7, <1>8, <1>9, <1>10, <1>11, <1>12, <1>13, <1>14, <1>15, <1>16, <1>17, <1>18, <1>19, <1>20, <1>21, <1>22, <1>23, <1>24, <1>25, <1>26, <1>27, <1>28, <1>29 DEF AccountsStep

\* The step a thread takes from a place.
LEMMA StepLeaves ==
  ASSUME FInv, NEW t \in Threads, AccountsStep(t)
  PROVE  Leaves(t)
  <1>1. CASE Request(t)
    BY <1>1, RequestMoves DEF Leaves, Busy
  <1>2. CASE Raise(t)
    BY <1>2, RaiseMoves DEF Leaves, Busy
  <1>3. CASE Find(t)
    BY <1>3, FindMoves DEF Leaves, Busy
  <1>4. CASE Dup(t)
    BY <1>4, DupMoves DEF Leaves, Busy
  <1>5. CASE InsertAgent(t)
    BY <1>5, InsertAgentMoves DEF Leaves, Busy
  <1>6. CASE Rename(t)
    BY <1>6, RenameMoves DEF Leaves, Busy
  <1>7. CASE Count(t)
    BY <1>7, CountMoves DEF Leaves, Busy
  <1>8. CASE MarkDeleted(t)
    BY <1>8, MarkDeletedMoves DEF Leaves, Busy
  <1>9. CASE RevokeAgentKeys(t)
    BY <1>9, RevokeAgentKeysMoves DEF Leaves, Busy
  <1>10. CASE RevokeProjectKeys(t)
    BY <1>10, RevokeProjectKeysMoves DEF Leaves, Busy
  <1>11. CASE RevokeKey(t)
    BY <1>11, RevokeKeyMoves DEF Leaves, Busy
  <1>12. CASE Issue(t)
    BY <1>12, IssueMoves DEF Leaves, Busy
  <1>13. CASE EnsureRows(t)
    BY <1>13, EnsureRowsMoves DEF Leaves, Busy
  <1>14. CASE EnsureKey(t)
    BY <1>14, EnsureKeyMoves DEF Leaves, Busy
  <1>15. CASE ListRows(t)
    BY <1>15, ListRowsMoves DEF Leaves, Busy
  <1>16. CASE ListKey(t)
    BY <1>16, ListKeyMoves DEF Leaves, Busy
  <1>17. CASE AuthKey(t)
    BY <1>17, AuthKeyMoves DEF Leaves, Busy
  <1>18. CASE AuthAgent(t)
    BY <1>18, AuthAgentMoves DEF Leaves, Busy
  <1>19. CASE Recent(t)
    BY <1>19, RecentMoves DEF Leaves, Busy
  <1>20. CASE Limit(t)
    BY <1>20, LimitMoves DEF Leaves, Busy
  <1>21. CASE InsertCode(t)
    BY <1>21, InsertCodeMoves DEF Leaves, Busy
  <1>22. CASE SendSms(t)
    BY <1>22, SendSmsMoves DEF Leaves, Busy
  <1>23. CASE ReadCode(t)
    BY <1>23, ReadCodeMoves DEF Leaves, Busy
  <1>24. CASE WrongCode(t)
    BY <1>24, WrongCodeMoves DEF Leaves, Busy
  <1>25. CASE Consume(t)
    BY <1>25, ConsumeMoves DEF Leaves, Busy
  <1>26. CASE ReadUser(t)
    BY <1>26, ReadUserMoves DEF Leaves, Busy
  <1>27. CASE InsertUser(t)
    BY <1>27, InsertUserMoves DEF Leaves, Busy
  <1>28. CASE ReadProjects(t)
    BY <1>28, ReadProjectsMoves DEF Leaves, Busy
  <1>29. CASE InsertProjectRow(t)
    BY <1>29, InsertProjectRowMoves DEF Leaves, Busy
  <1> QED BY <1>1, <1>2, <1>3, <1>4, <1>5, <1>6, <1>7, <1>8, <1>9, <1>10, <1>11, <1>12, <1>13, <1>14, <1>15, <1>16, <1>17, <1>18, <1>19, <1>20, <1>21, <1>22, <1>23, <1>24, <1>25, <1>26, <1>27, <1>28, <1>29 DEF AccountsStep

\* Where a step of a thread leads.
LEMMA StepLeads ==
  ASSUME FInv, NEW t \in Threads, AccountsStep(t)
  PROVE  Leads(t)
  <1>1. CASE Request(t)
    BY <1>1, RequestMoves DEF Leads, HasProject, Arrived
  <1>2. CASE Raise(t)
    BY <1>2, RaiseMoves DEF Leads, HasProject
  <1>3. CASE Find(t)
    BY <1>3, FindMoves DEF Leads, HasProject
  <1>4. CASE Dup(t)
    BY <1>4, DupMoves DEF Leads, HasProject
  <1>5. CASE InsertAgent(t)
    BY <1>5, InsertAgentMoves DEF Leads, HasProject
  <1>6. CASE Rename(t)
    <2>1. job'[t].pc = "done"
      BY <1>6, RenameMoves
    <2> QED BY <2>1 DEF Leads, HasProject
  <1>7. CASE Count(t)
    BY <1>7, CountMoves DEF Leads, HasProject
  <1>8. CASE MarkDeleted(t)
    BY <1>8, MarkDeletedMoves DEF Leads, HasProject
  <1>9. CASE RevokeAgentKeys(t)
    BY <1>9, RevokeAgentKeysMoves DEF Leads, HasProject
  <1>10. CASE RevokeProjectKeys(t)
    BY <1>10, RevokeProjectKeysMoves DEF Leads, HasProject
  <1>11. CASE RevokeKey(t)
    BY <1>11, RevokeKeyMoves DEF Leads, HasProject
  <1>12. CASE Issue(t)
    <2>1. /\ job[t].pc = "issue"
          /\ \/ job'[t].pc \in {"done", "dup", "ensure"}
             \/ job[t].then = "listKey" /\ NextListed(t, Len(keys) + 1)
             \/ job[t].then = "ensured" /\ Ensured(t, job[t])
      BY <1>12, IssueMoves
    <2>2. KindFits(job[t]) /\ ThenFits(job[t]) /\ Len(keys) + 1 \in Nat
      BY ThreadFits DEF FInv, RowTypes
    <2>3. CASE NextListed(t, Len(keys) + 1)
      <3>1. job'[t].pc \in {"done", "listKey"}
        BY <2>2, <2>3, NextListedMoves
      <3> QED BY <1>12, <2>1, <3>1 DEF Leads, HasProject
    <2>4. CASE job[t].then = "ensured" /\ Ensured(t, job[t])
      <3>1. job[t].kind \in {"list", "auth", "login"}
        BY <2>1, <2>2, <2>4 DEF KindFits, ThenFits
      <3>2. \/ job[t].kind = "list" /\ job'[t].pc = "rows"
            \/ job'[t].pc \in {"done", "ensure"}
        BY <2>4, <3>1, EnsuredMoves
      <3> QED BY <1>12, <2>1, <3>2 DEF Leads, HasProject
    <2>5. CASE job'[t].pc \in {"done", "dup", "ensure"}
      BY <1>12, <2>1, <2>5 DEF Leads, HasProject
    <2> QED BY <2>1, <2>3, <2>4, <2>5
  <1>13. CASE EnsureRows(t)
    BY <1>13, EnsureRowsMoves DEF Leads, HasProject
  <1>14. CASE EnsureKey(t)
    BY <1>14, EnsureKeyMoves, EnsuredMoves DEF Leads, HasProject
  <1>15. CASE ListRows(t)
    BY <1>15, ListRowsMoves DEF Leads, HasProject
  <1>16. CASE ListKey(t)
    BY <1>16, ListKeyMoves, NextListedMoves DEF Leads, HasProject
  <1>17. CASE AuthKey(t)
    BY <1>17, AuthKeyMoves DEF Leads, HasProject
  <1>18. CASE AuthAgent(t)
    BY <1>18, AuthAgentMoves DEF Leads, HasProject
  <1>19. CASE Recent(t)
    BY <1>19, RecentMoves DEF Leads, HasProject
  <1>20. CASE Limit(t)
    BY <1>20, LimitMoves DEF Leads, HasProject
  <1>21. CASE InsertCode(t)
    BY <1>21, InsertCodeMoves DEF Leads, HasProject
  <1>22. CASE SendSms(t)
    BY <1>22, SendSmsMoves DEF Leads, HasProject
  <1>23. CASE ReadCode(t)
    BY <1>23, ReadCodeMoves DEF Leads, HasProject
  <1>24. CASE WrongCode(t)
    <2>1. job'[t].pc = "done"
      BY <1>24, WrongCodeMoves
    <2> QED BY <2>1 DEF Leads, HasProject
  <1>25. CASE Consume(t)
    BY <1>25, ConsumeMoves DEF Leads, HasProject
  <1>26. CASE ReadUser(t)
    BY <1>26, ReadUserMoves DEF Leads, HasProject
  <1>27. CASE InsertUser(t)
    BY <1>27, InsertUserMoves DEF Leads, HasProject
  <1>28. CASE ReadProjects(t)
    BY <1>28, ReadProjectsMoves DEF Leads, HasProject
  <1>29. CASE InsertProjectRow(t)
    BY <1>29, InsertProjectRowMoves DEF Leads, HasProject
  <1> QED BY <1>1, <1>2, <1>3, <1>4, <1>5, <1>6, <1>7, <1>8, <1>9, <1>10, <1>11, <1>12, <1>13, <1>14, <1>15, <1>16, <1>17, <1>18, <1>19, <1>20, <1>21, <1>22, <1>23, <1>24, <1>25, <1>26, <1>27, <1>28, <1>29 DEF AccountsStep

\* The steps that answer a login with 200.
LEMMA StepAnswers ==
  ASSUME FInv, NEW t \in Threads, AccountsStep(t)
  PROVE  job'[t].kind = "login" /\ job'[t].pc = "done" /\ job'[t].answer = 200 => EnsureKey(t) \/ Issue(t)
  <1>1. CASE Request(t)
    BY <1>1, RequestMoves DEF Arrived
  <1>2. CASE Raise(t)
    BY <1>2, RaiseMoves DEF Arrived
  <1>3. CASE Find(t)
    BY <1>3, FindMoves DEF Arrived
  <1>4. CASE Dup(t)
    BY <1>4, DupMoves DEF Arrived
  <1>5. CASE InsertAgent(t)
    BY <1>5, InsertAgentMoves DEF Arrived
  <1>6. CASE Rename(t)
    BY <1>6, RenameMoves, ThreadFits DEF Arrived, KindFits, Same, RefFields
  <1>7. CASE Count(t)
    BY <1>7, CountMoves DEF Arrived
  <1>8. CASE MarkDeleted(t)
    BY <1>8, MarkDeletedMoves DEF Arrived
  <1>9. CASE RevokeAgentKeys(t)
    BY <1>9, RevokeAgentKeysMoves, ThreadFits DEF Arrived, KindFits, Same, RefFields
  <1>10. CASE RevokeProjectKeys(t)
    BY <1>10, RevokeProjectKeysMoves DEF Arrived
  <1>11. CASE RevokeKey(t)
    BY <1>11, RevokeKeyMoves, ThreadFits DEF Arrived, KindFits, Same, RefFields
  <1>12. CASE Issue(t)
    BY <1>12, IssueMoves DEF Arrived
  <1>13. CASE EnsureRows(t)
    BY <1>13, EnsureRowsMoves DEF Arrived
  <1>14. CASE EnsureKey(t)
    BY <1>14, EnsureKeyMoves DEF Arrived
  <1>15. CASE ListRows(t)
    BY <1>15, ListRowsMoves, ThreadFits DEF Arrived, KindFits, Same, RefFields
  <1>16. CASE ListKey(t)
    BY <1>16, ListKeyMoves, ThreadFits DEF Arrived, KindFits, Same, RefFields
  <1>17. CASE AuthKey(t)
    BY <1>17, AuthKeyMoves DEF Arrived
  <1>18. CASE AuthAgent(t)
    BY <1>18, AuthAgentMoves, ThreadFits DEF Arrived, KindFits, Same, RefFields
  <1>19. CASE Recent(t)
    BY <1>19, RecentMoves DEF Arrived
  <1>20. CASE Limit(t)
    BY <1>20, LimitMoves DEF Arrived
  <1>21. CASE InsertCode(t)
    BY <1>21, InsertCodeMoves DEF Arrived
  <1>22. CASE SendSms(t)
    BY <1>22, SendSmsMoves, ThreadFits DEF Arrived, KindFits, Same, RefFields
  <1>23. CASE ReadCode(t)
    BY <1>23, ReadCodeMoves DEF Arrived
  <1>24. CASE WrongCode(t)
    <2>1. job'[t].answer = 401
      BY <1>24, WrongCodeMoves
    <2> QED BY <2>1
  <1>25. CASE Consume(t)
    BY <1>25, ConsumeMoves DEF Arrived
  <1>26. CASE ReadUser(t)
    BY <1>26, ReadUserMoves DEF Arrived
  <1>27. CASE InsertUser(t)
    BY <1>27, InsertUserMoves DEF Arrived
  <1>28. CASE ReadProjects(t)
    BY <1>28, ReadProjectsMoves DEF Arrived
  <1>29. CASE InsertProjectRow(t)
    BY <1>29, InsertProjectRowMoves DEF Arrived
  <1> QED BY <1>1, <1>2, <1>3, <1>4, <1>5, <1>6, <1>7, <1>8, <1>9, <1>10, <1>11, <1>12, <1>13, <1>14, <1>15, <1>16, <1>17, <1>18, <1>19, <1>20, <1>21, <1>22, <1>23, <1>24, <1>25, <1>26, <1>27, <1>28, <1>29 DEF AccountsStep

\* Two requests in flight are on record.
LEMMA RacedWhen ==
  ASSUME FInv, NEW K, NEW L, NEW t \in Threads, NEW u \in Threads, t # u, Busy(t), Busy(u),
         job[t].kind \in K, job[u].kind \in L
  PROVE  Raced(K, L)
  BY DEF FInv, Overlaps, Raced

\* What raced has raced.
LEMMA RacedStays ==
  ASSUME NEW K, NEW L, Raced(K, L), raced \subseteq raced'
  PROVE  Raced(K, L)'
  BY DEF Raced

-----------------------------------------------------------------------------
(* The agents of a project *)

\* What the steps that write project_agents do to its rows.
LEMMA InsertAgentRows ==
  ASSUME FInv, NEW t \in Threads, InsertAgent(t)
  PROVE  /\ DOMAIN agents' = DOMAIN agents \cup {Len(agents) + 1} /\ Len(agents) + 1 \notin DOMAIN agents
         /\ \A a \in DOMAIN agents : agents'[a] = agents[a]
         /\ agents'[Len(agents) + 1].proj = job[t].proj /\ agents'[Len(agents) + 1].name = job[t].name
         /\ agents'[Len(agents) + 1].st = "active"
  <1>1. /\ Counts /\ QuietLogins /\ QuietKeys
        /\ agents' = Append(agents, AgentRow(job[t].proj, job[t].name))
        /\ job[t].pc \in {"insert", "insertDefault"}
    BY InsertAgentMoves
  <1>2. CountTypes
    BY <1>1 DEF Counts, CountTypes, FInv, RowTypes
  <1>3. job[t].proj \in DOMAIN projects /\ job[t].name \in Names
    BY <1>1, ThreadFits DEF RefersTo, HasProject
  <1>4. /\ DOMAIN agents' = 1..(Len(agents) + 1) /\ DOMAIN agents = 1..Len(agents)
        /\ Len(agents) \in Nat
        /\ agents'[Len(agents) + 1] = AgentRow(job[t].proj, job[t].name)
        /\ \A a \in DOMAIN agents : agents'[a] = agents[a]
    BY <1>1, <1>2, <1>3, AgentAdded
  <1>5. /\ AgentRow(job[t].proj, job[t].name).proj = job[t].proj
        /\ AgentRow(job[t].proj, job[t].name).name = job[t].name
        /\ AgentRow(job[t].proj, job[t].name).st = "active"
    BY DEF AgentRow
  <1> QED BY <1>4, <1>5

\* The agents after the UPDATE of a name.
LEMMA RenameRows ==
  ASSUME FInv, NEW t \in Threads, Rename(t)
  PROVE  /\ DOMAIN agents' = DOMAIN agents /\ job[t].agent \in DOMAIN agents
         /\ agents[job[t].agent].proj = job[t].proj /\ agents'[job[t].agent].name = job[t].name
         /\ \A a \in DOMAIN agents : /\ agents'[a].proj = agents[a].proj /\ agents'[a].st = agents[a].st
                                     /\ a # job[t].agent => agents'[a].name = agents[a].name
  <1> DEFINE r == [agents[job[t].agent] EXCEPT !.name = job[t].name]
  <1>1. job[t].pc = "rename" /\ agents' = [agents EXCEPT ![job[t].agent] = r]
    BY RenameMoves
  <1>2. /\ job[t].agent \in DOMAIN agents /\ agents[job[t].agent] \in AgentRows
        /\ agents[job[t].agent].proj = job[t].proj
    BY <1>1, ThreadFits DEF RefersTo, OwnAgent, FInv, RowTypes
  <1>3. r.proj = agents[job[t].agent].proj /\ r.st = agents[job[t].agent].st /\ r.name = job[t].name
    BY <1>2 DEF AgentRows
  <1> HIDE DEF r
  <1> QED BY <1>1, <1>2, <1>3

\* The agents after the UPDATE that marks one as deleted.
LEMMA MarkDeletedRows ==
  ASSUME FInv, NEW t \in Threads, MarkDeleted(t)
  PROVE  /\ DOMAIN agents' = DOMAIN agents /\ job[t].agent \in DOMAIN agents
         /\ agents[job[t].agent].proj = job[t].proj /\ agents'[job[t].agent].st = "deleted"
         /\ \A a \in DOMAIN agents : /\ agents'[a].proj = agents[a].proj /\ agents'[a].name = agents[a].name
                                     /\ a # job[t].agent => agents'[a].st = agents[a].st
  <1> DEFINE r == [agents[job[t].agent] EXCEPT !.st = "deleted"]
  <1>1. job[t].pc = "mark" /\ agents' = [agents EXCEPT ![job[t].agent] = r]
    BY MarkDeletedMoves
  <1>2. /\ job[t].agent \in DOMAIN agents /\ agents[job[t].agent] \in AgentRows
        /\ agents[job[t].agent].proj = job[t].proj
    BY <1>1, ThreadFits DEF RefersTo, OwnAgent, FInv, RowTypes
  <1>3. r.proj = agents[job[t].agent].proj /\ r.name = agents[job[t].agent].name /\ r.st = "deleted"
    BY <1>2 DEF AgentRows
  <1> HIDE DEF r
  <1> QED BY <1>1, <1>2, <1>3

\* A set of more than one row has another one.
LEMMA AnotherRow ==
  ASSUME FInv, NEW p, NEW a, ~(Cardinality(Active(p)) <= 1)
  PROVE  Active(p) \ {a} # {}
  <1>1. SUFFICES ASSUME Active(p) \subseteq {a} PROVE FALSE
    OBVIOUS
  <1>2. IsFiniteSet({a}) /\ Cardinality({a}) = 1
    BY FS_Singleton
  <1>3. Cardinality(Active(p)) <= Cardinality({a})
    BY <1>1, <1>2, FS_Subset
  <1> QED BY <1>2, <1>3

\* The last agent of a project is not marked as deleted.
LastInv == LastAgentKept /\ MarkSafe

\* A step leaves a project its last agent, unless two deletes overlap.
LEMMA LastStep ==
  ASSUME FInv, FInv', LastInv, NEW t \in Threads, AccountsStep(t)
  PROVE  LastInv'
  <1>1. Moved(t) /\ Touches(t) /\ Leads(t)
    BY StepMoves, StepTouches, StepLeads
  <1>2. CASE Raced({"delete"}, {"delete"})
    <2>1. Raced({"delete"}, {"delete"})'
      BY <1>1, <1>2, RacedStays DEF Moved
    <2> QED BY <2>1 DEF LastInv, LastAgentKept, MarkSafe
  <1>3. CASE ~Raced({"delete"}, {"delete"})
    <2>1. /\ \A a \in DOMAIN agents : Active(agents[a].proj) # {}
          /\ \A u \in Threads : job[u].pc = "mark" => Active(job[u].proj) \ {job[u].agent} # {}
      BY <1>3 DEF LastInv, LastAgentKept, MarkSafe
    <2>2. /\ \A a \in DOMAIN agents' : Active(agents[a].proj)' # {}
          /\ \A u \in Threads : u # t /\ job[u].pc = "mark" => Active(job[u].proj)' \ {job[u].agent} # {}
      <3>1. CASE agents' = agents
        <4>1. \A p : Active(p)' = Active(p)
          BY <3>1 DEF Active
        <4>2. \A u \in Threads : u # t => job'[u] = job[u]
          BY <1>1 DEF Moved, Holds
        <4> QED BY <2>1, <3>1, <4>1, <4>2 DEF Active
      <3>2. CASE InsertAgent(t)
        <4>1. /\ DOMAIN agents' = DOMAIN agents \cup {Len(agents) + 1} /\ Len(agents) + 1 \notin DOMAIN agents
              /\ \A a \in DOMAIN agents : agents'[a] = agents[a]
              /\ agents'[Len(agents) + 1].st = "active"
          BY <3>2, InsertAgentRows
        <4>2. \A u \in Threads : u # t => job'[u] = job[u]
          BY <1>1 DEF Moved, Holds
        <4> QED BY <2>1, <4>1, <4>2 DEF Active
      <3>3. CASE Rename(t)
        <4>1. /\ DOMAIN agents' = DOMAIN agents
              /\ \A a \in DOMAIN agents : agents'[a].proj = agents[a].proj /\ agents'[a].st = agents[a].st
          BY <3>3, RenameRows
        <4>2. \A u \in Threads : u # t => job'[u] = job[u]
          BY <1>1 DEF Moved, Holds
        <4> QED BY <2>1, <4>1, <4>2 DEF Active
      <3>4. CASE MarkDeleted(t)
        <4>1. /\ DOMAIN agents' = DOMAIN agents /\ agents[job[t].agent].proj = job[t].proj
              /\ \A a \in DOMAIN agents : /\ agents'[a].proj = agents[a].proj
                                          /\ a # job[t].agent => agents'[a].st = agents[a].st
          BY <3>4, MarkDeletedRows
        <4>2. job[t].pc = "mark"
          BY <3>4, MarkDeletedMoves
        <4>3. \A u \in Threads : u # t => job[u].pc # "mark"
          <5> SUFFICES ASSUME NEW u \in Threads, u # t, job[u].pc = "mark" PROVE FALSE
            OBVIOUS
          <5>1. job[u].kind = "delete" /\ job[t].kind = "delete"
            BY <4>2, ThreadFits DEF KindFits
          <5>2. Busy(u) /\ Busy(t)
            BY <4>2 DEF Busy
          <5> QED BY <1>3, <5>1, <5>2, RacedWhen
        <4>4. ASSUME NEW a \in DOMAIN agents PROVE Active(agents[a].proj)' # {}
          <5>1. CASE agents[a].proj = job[t].proj
            BY <2>1, <4>1, <4>2, <5>1 DEF Active
          <5>2. CASE agents[a].proj # job[t].proj
            <6>1. Active(agents[a].proj) # {}
              BY <2>1
            <6> QED BY <4>1, <5>2, <6>1 DEF Active
          <5> QED BY <5>1, <5>2
        <4> QED BY <4>1, <4>3, <4>4
      <3> QED BY <1>1, <3>1, <3>2, <3>3, <3>4 DEF Touches
    <2>3. \A u \in Threads : job'[u].pc = "mark" => (Active(job[u].proj) \ {job[u].agent})' # {}
      <3> SUFFICES ASSUME NEW u \in Threads, job'[u].pc = "mark"
                   PROVE  (Active(job[u].proj) \ {job[u].agent})' # {}
        OBVIOUS
      <3>1. CASE u # t
        <4>1. job'[u] = job[u]
          BY <1>1, <3>1 DEF Moved, Holds
        <4> QED BY <2>2, <3>1, <4>1
      <3>2. CASE u = t
        <4>1. Count(t)
          BY <1>1, <3>2 DEF Leads
        <4>2. Quiet /\ Same(t, RefFields) /\ ~(Cardinality(Active(job[t].proj)) <= 1)
          BY <3>2, <4>1, CountMoves
        <4>3. Active(job[t].proj) \ {job[t].agent} # {}
          BY <4>2, AnotherRow
        <4>4. job'[t].proj = job[t].proj /\ job'[t].agent = job[t].agent /\ agents' = agents
          BY <4>2 DEF Quiet, Same, RefFields
        <4> QED BY <3>2, <4>3, <4>4 DEF Active
      <3> QED BY <3>1, <3>2
    <2> QED BY <2>2, <2>3 DEF LastInv, LastAgentKept, MarkSafe
  <1> QED BY <1>2, <1>3

\* The names of a project's active agents are told apart.
NamesInv == NamesUnique /\ NameSafe

\* Requests that are about to name an agent.
LEMMA NamerKinds ==
  ASSUME FInv, NEW t \in Threads, job[t].pc \in {"insert", "insertDefault", "rename"}
  PROVE  job[t].kind \in Namers /\ Busy(t)
  BY ThreadFits DEF KindFits, Namers, Busy

\* A step keeps the names of a project's active agents apart, unless two requests
\* that name agents overlap.
LEMMA NamesStep ==
  ASSUME FInv, FInv', NamesInv, NEW t \in Threads, AccountsStep(t)
  PROVE  NamesInv'
  <1>1. Moved(t) /\ Touches(t) /\ Leads(t)
    BY StepMoves, StepTouches, StepLeads
  <1>2. CASE Raced(Namers, Namers)
    <2>1. Raced(Namers, Namers)'
      BY <1>1, <1>2, RacedStays DEF Moved
    <2> QED BY <2>1 DEF NamesInv, NamesUnique, NameSafe
  <1>3. CASE ~Raced(Namers, Namers)
    <2> DEFINE Apart == \A a, b \in DOMAIN agents :
                 ~(a # b /\ agents[a].proj = agents[b].proj /\ agents[a].name = agents[b].name
                   /\ agents[a].st = "active" /\ agents[b].st = "active")
               Free(u) == /\ job[u].pc \in {"insert", "rename"} => Taken(u) = {}
                          /\ job[u].pc = "insertDefault" => Active(job[u].proj) = {}
    <2>1. Apart /\ \A u \in Threads : Free(u)
      BY <1>3 DEF NamesInv, NamesUnique, NameSafe
    <2>2. \A u \in Threads : u # t => job'[u] = job[u]
      BY <1>1 DEF Moved, Holds
    <2>3. /\ Apart'
          /\ \A u \in Threads : u # t => Free(u)'
      <3>1. CASE agents' = agents
        BY <2>1, <2>2, <3>1 DEF Taken, Active
      <3>2. CASE InsertAgent(t)
        <4>1. /\ DOMAIN agents' = DOMAIN agents \cup {Len(agents) + 1} /\ Len(agents) + 1 \notin DOMAIN agents
              /\ \A a \in DOMAIN agents : agents'[a] = agents[a]
              /\ agents'[Len(agents) + 1].proj = job[t].proj /\ agents'[Len(agents) + 1].name = job[t].name
          BY <3>2, InsertAgentRows
        <4>2. job[t].pc \in {"insert", "insertDefault"}
          BY <3>2, InsertAgentMoves
        <4>3. \A u \in Threads : u # t => job[u].pc \notin {"insert", "insertDefault", "rename"}
          BY <1>3, <4>2, NamerKinds, RacedWhen
        <4>4. \A a \in DOMAIN agents : ~(agents[a].proj = job[t].proj /\ agents[a].name = job[t].name
                                          /\ agents[a].st = "active")
          <5>1. CASE job[t].pc = "insert"
            <6>1. job[t].agent = 0 /\ 0 \notin DOMAIN agents
              <7>1. job[t].kind \in {"create", "login"} /\ RefersTo(job[t])
                BY <5>1, ThreadFits DEF KindFits
              <7>2. DOMAIN agents = 1..Len(agents) /\ Len(agents) \in Nat
                BY DEF FInv, RowTypes
              <7> QED BY <5>1, <7>1, <7>2 DEF RefersTo
            <6>2. Taken(t) = {}
              BY <2>1, <5>1
            <6> QED BY <6>1, <6>2 DEF Taken, Active
          <5>2. CASE job[t].pc = "insertDefault"
            BY <2>1, <5>2 DEF Active
          <5> QED BY <4>2, <5>1, <5>2
        <4>5. Apart'
          BY <2>1, <4>1, <4>4
        <4> QED BY <2>2, <4>3, <4>5
      <3>3. CASE Rename(t)
        <4>1. /\ DOMAIN agents' = DOMAIN agents /\ job[t].agent \in DOMAIN agents
              /\ agents[job[t].agent].proj = job[t].proj /\ agents'[job[t].agent].name = job[t].name
              /\ \A a \in DOMAIN agents : /\ agents'[a].proj = agents[a].proj /\ agents'[a].st = agents[a].st
                                          /\ a # job[t].agent => agents'[a].name = agents[a].name
          BY <3>3, RenameRows
        <4>2. job[t].pc = "rename"
          BY <3>3, RenameMoves
        <4>3. \A u \in Threads : u # t => job[u].pc \notin {"insert", "insertDefault", "rename"}
          BY <1>3, <4>2, NamerKinds, RacedWhen
        <4>4. \A a \in DOMAIN agents : a # job[t].agent =>
                ~(agents[a].proj = job[t].proj /\ agents[a].name = job[t].name /\ agents[a].st = "active")
          BY <2>1, <4>2 DEF Taken, Active
        <4>5. Apart'
          BY <2>1, <4>1, <4>4
        <4> QED BY <2>2, <4>3, <4>5
      <3>4. CASE MarkDeleted(t)
        <4>1. /\ DOMAIN agents' = DOMAIN agents /\ agents'[job[t].agent].st = "deleted"
              /\ \A a \in DOMAIN agents : /\ agents'[a].proj = agents[a].proj /\ agents'[a].name = agents[a].name
                                          /\ a # job[t].agent => agents'[a].st = agents[a].st
          BY <3>4, MarkDeletedRows
        <4>2. \A a \in DOMAIN agents : agents'[a].st = "active" => agents[a].st = "active"
          BY <4>1
        <4>3. Apart'
          BY <2>1, <4>1, <4>2
        <4>4. \A u \in Threads : u # t => Free(u)'
          BY <2>1, <2>2, <4>1, <4>2 DEF Taken, Active
        <4> QED BY <4>3, <4>4
      <3> QED BY <1>1, <3>1, <3>2, <3>3, <3>4 DEF Touches
    <2>4. Free(t)'
      <3>1. job'[t].pc \in {"insert", "rename"} => (Taken(t) = {})'
        <4> SUFFICES ASSUME job'[t].pc \in {"insert", "rename"} PROVE (Taken(t) = {})'
          OBVIOUS
        <4>1. Dup(t)
          BY <1>1 DEF Leads
        <4>2. Quiet /\ Same(t, RefFields) /\ Taken(t) = {}
          BY <4>1, DupMoves
        <4>3. /\ job'[t].proj = job[t].proj /\ job'[t].agent = job[t].agent /\ job'[t].name = job[t].name
              /\ agents' = agents
          BY <4>2 DEF Quiet, Same, RefFields
        <4> QED BY <4>2, <4>3 DEF Taken, Active
      <3>2. job'[t].pc = "insertDefault" => (Active(job[t].proj) = {})'
        <4> SUFFICES ASSUME job'[t].pc = "insertDefault" PROVE (Active(job[t].proj) = {})'
          OBVIOUS
        <4>1. EnsureRows(t)
          BY <1>1 DEF Leads
        <4>2. Quiet /\ Same(t, {"proj"}) /\ Active(job[t].proj) = {}
          BY <4>1, EnsureRowsMoves DEF Same
        <4>3. job'[t].proj = job[t].proj /\ agents' = agents
          BY <4>2 DEF Quiet, Same
        <4> QED BY <4>2, <4>3 DEF Active
      <3> QED BY <3>1, <3>2
    <2>5. \A u \in Threads : Free(u)'
      BY <2>3, <2>4
    <2> QED BY <2>3, <2>5 DEF NamesInv, NamesUnique, NameSafe
  <1> QED BY <1>2, <1>3

\* A step outside the threads, and no step at all, leave agents and threads alone.
LEMMA BackgroundMoves ==
  ASSUME FInv, RevokeApplied \/ CodeMutationApplied \/ Tick \/ UNCHANGED accountVars
  PROVE  /\ job' = job /\ Counts /\ agents' = agents /\ users' = users /\ projects' = projects
         /\ lagged => lagged'
         /\ QuietKeys \/ RevokeApplied
         /\ (codes' = codes /\ codeMuts' = codeMuts) \/ CodeMutationApplied \/ Tick
  <1>1. CASE RevokeApplied
    BY <1>1, RevokeAppliedMoves DEF LateRevoke, QuietLogins
  <1>2. CASE CodeMutationApplied
    BY <1>2, MutationMoves
  <1>3. CASE Tick
    BY <1>3, TickMoves
  <1>4. CASE UNCHANGED accountVars
    BY <1>4 DEF accountVars, tableVars, countVars, Counts, QuietKeys
  <1> QED BY <1>1, <1>2, <1>3, <1>4

\* Applying mutations and time leave the agents alone.
LEMMA AgentsBackground ==
  ASSUME LastInv, NamesInv, job' = job, Counts, agents' = agents
  PROVE  LastInv' /\ NamesInv'
  BY DEF LastInv, NamesInv, LastAgentKept, NamesUnique, MarkSafe, NameSafe, Raced, Taken, Active, Counts

\* The first agents have different names.
LEMMA AgentsInit ==
  ASSUME AccountsInit
  PROVE  LastInv /\ NamesInv
  <1>1. \A u \in Threads : job[u].pc = "idle"
    BY DEF AccountsInit, Idle
  <1>2. \/ agents = <<>>
        \/ agents = <<AgentRow(1, "default"), AgentRow(1, "x")>>
    BY DEF AccountsInit
  <1>3. MarkSafe /\ NameSafe
    BY <1>1 DEF MarkSafe, NameSafe
  <1>4. CASE agents = <<>>
    BY <1>3, <1>4 DEF LastInv, NamesInv, LastAgentKept, NamesUnique
  <1>5. CASE agents = <<AgentRow(1, "default"), AgentRow(1, "x")>>
    <2> DEFINE a1 == AgentRow(1, "default")
               a2 == AgentRow(1, "x")
    <2>1. /\ a1.proj = 1 /\ a2.proj = 1 /\ a1.st = "active" /\ a2.st = "active" /\ a1.name # a2.name
      BY DEF AgentRow
    <2>2. agents = <<a1, a2>>
      BY <1>5
    <2> HIDE DEF a1, a2
    <2>3. DOMAIN agents = {1, 2} /\ agents[1] = a1 /\ agents[2] = a2
      BY <2>2
    <2> QED BY <1>3, <2>1, <2>3 DEF LastInv, NamesInv, LastAgentKept, NamesUnique, Active
  <1> QED BY <1>2, <1>4, <1>5

\* The agents of a project are in order, for any number of threads, requests,
\* errors and names: rows refer to rows, a project that had agents keeps one
\* unless two calls of delete_agent overlapped, and the names of its agents are
\* told apart unless two requests that name agents did.
THEOREM AccountsAgentsInOrder == AccountsSpec => []AgentsInOrder
  <1> DEFINE Inv == FInv /\ LastInv /\ NamesInv
  <1>1. AccountsInit => Inv
    BY InitFInv, AgentsInit
  <1>2. Inv /\ [AccountsNext]_accountVars => Inv'
    <2> SUFFICES ASSUME Inv, [AccountsNext]_accountVars PROVE Inv'
      OBVIOUS
    <2>1. FInv'
      BY NextFInv
    <2>2. ASSUME NEW t \in Threads, AccountsStep(t) PROVE LastInv' /\ NamesInv'
      BY <2>1, <2>2, LastStep, NamesStep
    <2>3. CASE RevokeApplied \/ CodeMutationApplied \/ Tick \/ UNCHANGED accountVars
      <3>1. job' = job /\ Counts /\ agents' = agents
        BY <2>3, BackgroundMoves
      <3> QED BY <2>1, <3>1, AgentsBackground
    <2> QED BY <2>1, <2>2, <2>3 DEF AccountsNext
  <1>3. Inv => AgentsInOrder
    BY TypesFInv DEF AgentsInOrder, LastInv, NamesInv
  <1> QED BY <1>1, <1>2, <1>3, PTL DEF AccountsSpec

-----------------------------------------------------------------------------
(* The keys of agents and projects *)

\* Keys of a project or agent that is still to come: none.
LEMMA KeyPlaces ==
  ASSUME FInv
  PROVE  /\ \A x \in DOMAIN keys :
              /\ keys[x].proj \in DOMAIN projects /\ keys[x].agent \in 0..Len(agents)
              /\ keys[x].agent # 0 =>
                   keys[x].agent \in DOMAIN agents /\ agents[keys[x].agent].proj = keys[x].proj
         /\ DOMAIN agents = 1..Len(agents) /\ Len(agents) \in Nat
         /\ DOMAIN projects = 1..Len(projects) /\ Len(projects) \in Nat
         /\ DOMAIN keys = 1..Len(keys) /\ Len(keys) \in Nat
  <1>1. /\ DOMAIN agents = 1..Len(agents) /\ Len(agents) \in Nat
        /\ DOMAIN projects = 1..Len(projects) /\ Len(projects) \in Nat
        /\ DOMAIN keys = 1..Len(keys) /\ Len(keys) \in Nat
    BY DEF FInv, RowTypes
  <1> QED BY <1>1 DEF FInv, RowRefs

\* The rows of project_api_keys after the ALTER of all keys of an agent.
LEMMA RevokeAgentKeysRows ==
  ASSUME FInv, NEW t \in Threads, RevokeAgentKeys(t)
  PROVE  /\ DOMAIN keys' = DOMAIN keys /\ revoking' = {} /\ agents' = agents
         /\ \A x \in DOMAIN keys :
              /\ keys'[x].proj = keys[x].proj /\ keys'[x].agent = keys[x].agent
              /\ keys'[x].st = IF x \in revoking \cup KeysOf(job[t].proj, job[t].agent)
                               THEN "revoked" ELSE keys[x].st
  <1>1. /\ Counts /\ QuietLogins /\ agents' = agents
        /\ keys' = Revoked(revoking \cup KeysOf(job[t].proj, job[t].agent)) /\ revoking' = {}
    BY RevokeAgentKeysMoves
  <1>2. CountTypes
    BY <1>1 DEF Counts, CountTypes, FInv, RowTypes
  <1> QED BY <1>1, <1>2, KeysRevoked

\* A key keeps its project and agent and is never active again, and the only
\* new one is that of create_api_key.
LEMMA KeyRowsKept ==
  ASSUME FInv, NEW t \in Threads, AccountsStep(t)
  PROVE  /\ \A x \in DOMAIN keys :
              /\ x \in DOMAIN keys' /\ keys'[x].proj = keys[x].proj /\ keys'[x].agent = keys[x].agent
              /\ keys'[x].st = "active" => keys[x].st = "active"
              /\ keys'[x].st = "active" /\ x \notin revoking' => x \notin revoking
         /\ \A x \in DOMAIN keys' : x \notin DOMAIN keys =>
              /\ Issue(t) /\ x = Len(keys) + 1 /\ keys'[x].proj = job[t].proj
              /\ keys'[x].agent = job[t].agent
  <1>1. Touches(t)
    BY StepTouches
  <1>2. CASE QuietKeys
    BY <1>2 DEF QuietKeys
  <1>3. CASE RevokeAgentKeys(t)
    <2>1. /\ DOMAIN keys' = DOMAIN keys
          /\ \A x \in DOMAIN keys :
               /\ keys'[x].proj = keys[x].proj /\ keys'[x].agent = keys[x].agent
               /\ keys'[x].st = IF x \in revoking \cup KeysOf(job[t].proj, job[t].agent)
                                THEN "revoked" ELSE keys[x].st
      BY <1>3, RevokeAgentKeysRows
    <2> QED BY <2>1
  <1>4. CASE RevokeProjectKeys(t)
    BY <1>4, RevokeProjectKeysMoves
  <1>5. CASE RevokeKey(t)
    BY <1>5, RevokeKeyMoves
  <1>6. CASE Issue(t)
    <2>1. /\ DOMAIN keys' = 1..(Len(keys) + 1) /\ DOMAIN keys = 1..Len(keys)
          /\ Len(keys) \in Nat
          /\ keys'[Len(keys) + 1].proj = job[t].proj /\ keys'[Len(keys) + 1].agent = job[t].agent
          /\ \A x \in DOMAIN keys : keys'[x] = keys[x]
      BY <1>6, IssueTables
    <2>2. revoking' = revoking
      BY <1>6, IssueMoves
    <2>3. \A x \in DOMAIN keys' : x \notin DOMAIN keys => x = Len(keys) + 1
      BY <2>1
    <2> QED BY <1>6, <2>1, <2>2, <2>3
  <1> QED BY <1>1, <1>2, <1>3, <1>4, <1>5, <1>6 DEF Touches

\* A request that is about to issue a key of an agent.
LEMMA IssuerKinds ==
  ASSUME FInv, NEW t \in Threads, job[t].pc = "issue"
  PROVE  /\ job[t].kind \in Issuers \cup {"project"} /\ Busy(t)
         /\ job[t].agent # 0 => job[t].kind \in Issuers
  <1>1. KindFits(job[t]) /\ RefersTo(job[t])
    BY ThreadFits
  <1>2. job[t].kind \in {"create", "regen", "list", "project", "auth", "login"}
    BY <1>1 DEF KindFits
  <1> QED BY <1>1, <1>2 DEF RefersTo, Issuers, Busy

\* The agent whose keys are issued or looked for has not been deleted.
LEMMA HolderStep ==
  ASSUME FInv, FInv', HolderActive, NEW t \in Threads, AccountsStep(t)
  PROVE  HolderActive'
  <1>1. Moved(t) /\ Touches(t) /\ Leads(t)
    BY StepMoves, StepTouches, StepLeads
  <1>2. CASE Raced({"delete"}, Issuers)
    <2>1. Raced({"delete"}, Issuers)'
      BY <1>1, <1>2, RacedStays DEF Moved
    <2> QED BY <2>1 DEF HolderActive
  <1>3. CASE ~Raced({"delete"}, Issuers)
    <2> DEFINE Holding(j) == j.agent # 0 /\ j.kind \in Issuers /\ j.pc \in {"issue", "ensureKey", "revokeAgent"}
    <2>1. \A u \in Threads : Holding(job[u]) => agents[job[u].agent].st = "active"
      BY <1>3 DEF HolderActive
    <2>2. ASSUME NEW u \in Threads, u # t, Holding(job[u])
          PROVE  agents'[job[u].agent].st = "active"
      <3>1. Busy(u) /\ job[u].kind \in Issuers
        BY <2>2 DEF Busy
      <3>2. job[u].agent \in DOMAIN agents
        BY <2>2, ThreadFits DEF RefersTo, OwnAgent, Issuers
      <3>3. CASE agents' = agents
        BY <2>1, <2>2, <3>3
      <3>4. CASE InsertAgent(t)
        BY <2>1, <2>2, <3>2, <3>4, InsertAgentRows
      <3>5. CASE Rename(t)
        BY <2>1, <2>2, <3>2, <3>5, RenameRows
      <3>6. CASE MarkDeleted(t)
        <4>1. job[t].pc = "mark"
          BY <3>6, MarkDeletedMoves
        <4>2. job[t].kind \in {"delete"} /\ Busy(t)
          BY <4>1, ThreadFits DEF KindFits, Busy
        <4> QED BY <1>3, <2>2, <3>1, <4>2, RacedWhen
      <3> QED BY <1>1, <3>3, <3>4, <3>5, <3>6 DEF Touches
    <2>3. ASSUME Holding(job'[t]) PROVE agents'[job'[t].agent].st = "active"
      <3>1. CASE InsertAgent(t)
        BY <3>1, InsertAgentMoves, InsertAgentRows
      <3>2. CASE EnsureRows(t) /\ job'[t].pc = "ensureKey"
        BY <3>2, EnsureRowsMoves DEF Active, Quiet
      <3>3. CASE Find(t) /\ job'[t].pc = "revokeAgent"
        <4>1. job'[t].agent = job[t].agent /\ agents' = agents /\ job[t].agent \in Active(job[t].proj)
          BY <3>3, FindMoves DEF Same, RefFields, Quiet
        <4> QED BY <4>1 DEF Active
      <3>4. CASE MarkDeleted(t)
        <4>1. job'[t].kind = job[t].kind /\ job[t].pc = "mark"
          BY <3>4, MarkDeletedMoves DEF Same, RefFields
        <4>2. job[t].kind = "delete"
          BY <4>1, ThreadFits DEF KindFits
        <4> QED BY <2>3, <4>1, <4>2 DEF Issuers
      <3>5. CASE RevokeAgentKeys(t)
        <4>1. /\ job[t].pc = "revokeAgent" /\ agents' = agents
              /\ job'[t].kind = job[t].kind /\ job'[t].agent = job[t].agent
          BY <3>5, RevokeAgentKeysMoves DEF Same, RefFields
        <4> QED BY <2>1, <2>3, <4>1
      <3>6. CASE RevokeProjectKeys(t)
        <4>1. job'[t].kind = job[t].kind /\ job[t].pc = "revokeProject"
          BY <3>6, RevokeProjectKeysMoves DEF Same, RefFields
        <4>2. job[t].kind = "project"
          BY <4>1, ThreadFits DEF KindFits
        <4> QED BY <2>3, <4>1, <4>2 DEF Issuers
      <3>7. CASE EnsureKey(t) /\ job'[t].pc = "issue"
        <4>1. /\ job[t].pc = "ensureKey" /\ agents' = agents
              /\ job'[t].kind = job[t].kind /\ job'[t].agent = job[t].agent
          BY <3>7, EnsureKeyMoves DEF Same, Quiet
        <4> QED BY <2>1, <2>3, <4>1
      <3>8. CASE InsertProjectRow(t)
        BY <2>3, <3>8, InsertProjectRowMoves
      <3> QED BY <1>1, <2>3, <3>1, <3>2, <3>3, <3>4, <3>5, <3>6, <3>7, <3>8 DEF Leads
    <2>4. ASSUME NEW u \in Threads, Holding(job'[u]) PROVE agents'[job'[u].agent].st = "active"
      <3>1. CASE u # t
        <4>1. job'[u] = job[u]
          BY <1>1, <3>1 DEF Moved, Holds
        <4> QED BY <2>2, <2>4, <3>1, <4>1
      <3> QED BY <2>3, <2>4, <3>1
    <2> QED BY <2>4 DEF HolderActive
  <1> QED BY <1>2, <1>3

\* A key of a deleted agent is refused once delete_agent has ended.
LEMMA RefusedStep ==
  ASSUME FInv, FInv', HolderActive, DeletedKeyRefused, NEW t \in Threads, AccountsStep(t)
  PROVE  DeletedKeyRefused'
  <1>1. Moved(t) /\ Touches(t) /\ Leaves(t)
    BY StepMoves, StepTouches, StepLeaves
  <1> DEFINE Ending(a) == \E u \in Threads : job[u].kind = "delete" /\ job[u].agent = a /\ job[u].pc = "revokeAgent"
  <1>2. SUFFICES ASSUME ~Raced({"delete"}, Issuers)', ~(faults' > 0),
                        NEW x \in DOMAIN keys', keys'[x].agent # 0, keys'[x].st = "active",
                        agents'[keys'[x].agent].st = "deleted"
                 PROVE  Ending(keys[x].agent)'
    BY DEF DeletedKeyRefused
  <1>3. ~Raced({"delete"}, Issuers) /\ faults = 0 /\ ~Raise(t)
    <2>1. faults \in Nat /\ faults' \in Nat
      BY DEF FInv, RowTypes
    <2>2. faults = 0 /\ faults' = 0
      BY <1>1, <1>2, <2>1 DEF Moved
    <2>3. ~Raise(t)
      BY <2>2, RaiseMoves
    <2>4. ~Raced({"delete"}, Issuers)
      BY <1>1, <1>2, RacedStays DEF Moved
    <2> QED BY <2>2, <2>3, <2>4
  <1>4. \A u \in Threads : u # t => job'[u] = job[u]
    BY <1>1 DEF Moved, Holds
  <1>5. CASE x \notin DOMAIN keys
    <2>1. Issue(t) /\ keys'[x].agent = job[t].agent
      BY <1>5, KeyRowsKept
    <2>2. job[t].pc = "issue" /\ agents' = agents
      BY <2>1, IssueMoves
    <2>3. job[t].kind \in Issuers
      BY <1>2, <2>1, <2>2, IssuerKinds
    <2>4. agents[job[t].agent].st = "active"
      BY <1>2, <1>3, <2>1, <2>2, <2>3 DEF HolderActive
    <2> QED BY <1>2, <2>1, <2>2, <2>4
  <1>6. CASE x \in DOMAIN keys
    <2> DEFINE a == keys[x].agent
    <2>1. keys'[x].agent = a /\ keys[x].st = "active"
      BY <1>2, <1>6, KeyRowsKept
    <2>2. a # 0 /\ a \in DOMAIN agents /\ agents[a].proj = keys[x].proj /\ agents'[a].st = "deleted"
      BY <1>2, <1>6, <2>1, KeyPlaces
    <2> HIDE DEF a
    <2>3. CASE agents[a].st = "deleted"
      <3>1. PICK u \in Threads : job[u].kind = "delete" /\ job[u].agent = a /\ job[u].pc = "revokeAgent"
        BY <1>3, <1>6, <2>1, <2>2, <2>3 DEF DeletedKeyRefused, a
      <3>2. CASE u # t
        BY <1>4, <2>1, <3>1, <3>2
      <3>3. CASE u = t
        <4>1. RevokeAgentKeys(t)
          BY <1>1, <1>3, <3>1, <3>3 DEF Leaves
        <4>2. job[t].proj = agents[a].proj
          BY <3>1, <3>3, ThreadFits DEF RefersTo, OwnAgent
        <4>3. x \in KeysOf(job[t].proj, job[t].agent)
          BY <1>6, <2>1, <2>2, <3>1, <3>3, <4>2 DEF KeysOf, a
        <4>4. keys'[x].st = "revoked"
          BY <1>6, <4>1, <4>3, RevokeAgentKeysRows
        <4> QED BY <1>2, <4>4
      <3> QED BY <3>2, <3>3
    <2>4. CASE agents[a].st # "deleted"
      <3>1. MarkDeleted(t) /\ job[t].agent = a
        <4>1. agents' # agents
          BY <2>2, <2>4
        <4>2. ~InsertAgent(t)
          BY <2>2, <2>4, InsertAgentRows
        <4>3. ~Rename(t)
          BY <2>2, <2>4, RenameRows
        <4>4. MarkDeleted(t)
          BY <1>1, <4>1, <4>2, <4>3 DEF Touches
        <4> QED BY <2>2, <2>4, <4>4, MarkDeletedRows
      <3>2. job[t].pc = "mark" /\ job'[t].pc = "revokeAgent" /\ job'[t].agent = a /\ job'[t].kind = job[t].kind
        BY <3>1, MarkDeletedMoves DEF Same, RefFields
      <3>3. job[t].kind = "delete"
        BY <3>2, ThreadFits DEF KindFits
      <3> QED BY <2>1, <3>2, <3>3
    <2> QED BY <2>3, <2>4
  <1> QED BY <1>5, <1>6

\* No two keys of an agent, or of a project for itself, are good at once.
LEMMA KeyRoomStep ==
  ASSUME FInv, FInv', KeyRoom, NEW t \in Threads, AccountsStep(t)
  PROVE  KeyRoom'
  <1> DEFINE IP == Issuers \cup {"project"}
             Good(x) == x \in DOMAIN keys /\ keys[x].st = "active" /\ x \notin revoking
  <1>1. Moved(t) /\ Touches(t) /\ Leads(t)
    BY StepMoves, StepTouches, StepLeads
  <1>2. CASE Raced(IP, IP)
    <2>1. Raced(IP, IP)'
      BY <1>1, <1>2, RacedStays DEF Moved
    <2> QED BY <2>1 DEF KeyRoom
  <1>3. CASE ~Raced(IP, IP)
    <2>1. /\ \A u \in Threads : job[u].pc = "issue" =>
               \A x : Good(x) => ~(keys[x].proj = job[u].proj /\ keys[x].agent = job[u].agent)
          /\ \A x, y : Good(x) /\ Good(y) /\ keys[x].proj = keys[y].proj /\ keys[x].agent = keys[y].agent => x = y
      <3>1. \A u \in Threads : job[u].pc = "issue" => Live(job[u].proj, job[u].agent) = {}
        BY <1>3 DEF KeyRoom
      <3>2. \A p \in DOMAIN projects, a \in 0..Len(agents) : \A x, y \in Live(p, a) : x = y
        BY <1>3 DEF KeyRoom
      <3>3. ASSUME NEW x, NEW y, Good(x), Good(y), keys[x].proj = keys[y].proj, keys[x].agent = keys[y].agent
            PROVE  x = y
        <4>1. keys[x].proj \in DOMAIN projects /\ keys[x].agent \in 0..Len(agents)
          BY <3>3, KeyPlaces
        <4>2. x \in Live(keys[x].proj, keys[x].agent) /\ y \in Live(keys[x].proj, keys[x].agent)
          BY <3>3 DEF Live, KeysOf
        <4> QED BY <3>2, <4>1, <4>2
      <3> QED BY <3>1, <3>3 DEF Live, KeysOf
    <2>2. \A x \in DOMAIN keys : Good(x)' =>
            Good(x) /\ keys'[x].proj = keys[x].proj /\ keys'[x].agent = keys[x].agent
      BY KeyRowsKept
    <2>3. \A u \in Threads : u # t => job'[u] = job[u]
      BY <1>1 DEF Moved, Holds
    <2>4. /\ \A u \in Threads : u # t /\ job[u].pc = "issue" =>
               \A x : Good(x)' => ~(keys'[x].proj = job[u].proj /\ keys'[x].agent = job[u].agent)
          /\ \A x, y : Good(x)' /\ Good(y)' /\ keys'[x].proj = keys'[y].proj /\ keys'[x].agent = keys'[y].agent
                       => x = y
      <3>1. CASE Issue(t)
        <4>1. job[t].pc = "issue"
          BY <3>1, IssueMoves
        <4>2. job[t].kind \in IP /\ Busy(t)
          BY <4>1, IssuerKinds
        <4>3. \A u \in Threads : u # t => job[u].pc # "issue"
          BY <1>3, <4>2, IssuerKinds, RacedWhen
        <4>4. \A x \in DOMAIN keys' : x \notin DOMAIN keys =>
                x = Len(keys) + 1 /\ keys'[x].proj = job[t].proj /\ keys'[x].agent = job[t].agent
          BY KeyRowsKept
        <4>5. \A x \in DOMAIN keys : Good(x)' => ~(keys'[x].proj = job[t].proj /\ keys'[x].agent = job[t].agent)
          BY <2>1, <2>2, <4>1
        <4>6. ASSUME NEW x, NEW y, Good(x)', Good(y)', keys'[x].proj = keys'[y].proj, keys'[x].agent = keys'[y].agent
              PROVE  x = y
          <5>1. CASE x \in DOMAIN keys /\ y \in DOMAIN keys
            BY <2>1, <2>2, <4>6, <5>1
          <5>2. CASE x \notin DOMAIN keys
            BY <4>4, <4>5, <4>6, <5>2
          <5>3. CASE y \notin DOMAIN keys
            BY <4>4, <4>5, <4>6, <5>3
          <5> QED BY <5>1, <5>2, <5>3
        <4> QED BY <4>3, <4>6
      <3>2. CASE ~Issue(t)
        <4>1. \A x \in DOMAIN keys' : x \in DOMAIN keys
          BY <3>2, KeyRowsKept
        <4> QED BY <2>1, <2>2, <4>1
      <3> QED BY <3>1, <3>2
    <2>5. ASSUME job'[t].pc = "issue", NEW x, Good(x)', keys'[x].proj = job'[t].proj, keys'[x].agent = job'[t].agent
          PROVE  FALSE
      <3>1. CASE RevokeAgentKeys(t)
        <4>1. job'[t].proj = job[t].proj /\ job'[t].agent = job[t].agent
          BY <3>1, RevokeAgentKeysMoves DEF Same, RefFields
        <4>2. /\ DOMAIN keys' = DOMAIN keys
              /\ keys'[x].proj = keys[x].proj /\ keys'[x].agent = keys[x].agent
              /\ keys'[x].st = IF x \in revoking \cup KeysOf(job[t].proj, job[t].agent)
                               THEN "revoked" ELSE keys[x].st
          BY <2>5, <3>1, RevokeAgentKeysRows
        <4> QED BY <2>5, <4>1, <4>2 DEF KeysOf
      <3>2. CASE RevokeProjectKeys(t)
        <4>1. /\ job'[t].proj = job[t].proj /\ job'[t].agent = job[t].agent /\ job[t].pc = "revokeProject"
              /\ keys' = keys /\ revoking' = revoking \cup KeysOf(job[t].proj, 0)
          BY <3>2, RevokeProjectKeysMoves DEF Same, RefFields
        <4>2. job[t].agent = 0
          BY <4>1, ThreadFits DEF RefersTo
        <4> QED BY <2>5, <4>1, <4>2 DEF KeysOf
      <3>3. CASE EnsureKey(t)
        <4>1. /\ job'[t].proj = job[t].proj /\ job'[t].agent = job[t].agent /\ keys' = keys
              /\ KeysOf(job[t].proj, job[t].agent) = {}
          <5>1. \/ job[t].kind \in {"list", "auth", "login"} /\ Ensured(t, job[t])
                \/ KeysOf(job[t].proj, job[t].agent) = {} /\ Same(t, {"proj", "rows"})
            BY <3>3, EnsureKeyMoves
          <5>2. ~(job[t].kind \in {"list", "auth", "login"} /\ Ensured(t, job[t]))
            BY <2>5, EnsuredMoves
          <5>3. Same(t, {"agent"}) /\ keys' = keys
            BY <3>3, EnsureKeyMoves DEF Same, Quiet, QuietKeys
          <5> QED BY <5>1, <5>2, <5>3 DEF Same
        <4> QED BY <2>5, <4>1 DEF KeysOf
      <3>4. CASE InsertAgent(t)
        <4>1. job'[t].agent = Len(agents) + 1 /\ keys' = keys
          BY <3>4, InsertAgentMoves DEF QuietKeys
        <4> QED BY <2>5, <4>1, KeyPlaces
      <3>5. CASE InsertProjectRow(t)
        <4>1. job'[t].proj = Len(projects) + 1 /\ keys' = keys
          BY <3>5, InsertProjectRowMoves DEF QuietKeys
        <4> QED BY <2>5, <4>1, KeyPlaces
      <3> QED BY <1>1, <2>5, <3>1, <3>2, <3>3, <3>4, <3>5 DEF Leads
    <2>6. \A u \in Threads : job'[u].pc = "issue" =>
            \A x : Good(x)' => ~(keys'[x].proj = job'[u].proj /\ keys'[x].agent = job'[u].agent)
      BY <2>3, <2>4, <2>5
    <2>7. \A u \in Threads : job'[u].pc = "issue" => Live(job[u].proj, job[u].agent)' = {}
      BY <2>6 DEF Live, KeysOf
    <2>8. \A p, a : \A x, y \in Live(p, a)' : x = y
      BY <2>4 DEF Live, KeysOf
    <2> QED BY <2>7, <2>8 DEF KeyRoom
  <1> QED BY <1>2, <1>3

\* All that is said of keys.
KeysInv == HolderActive /\ DeletedKeyRefused /\ KeyRoom

\* Steps outside the threads: a revocation takes effect.
LEMMA KeysBackground ==
  ASSUME FInv, KeysInv, job' = job, Counts, agents' = agents, projects' = projects, QuietKeys \/ RevokeApplied
  PROVE  KeysInv'
  <1>1. /\ DOMAIN keys' = DOMAIN keys
        /\ \A x \in DOMAIN keys :
             /\ keys'[x].proj = keys[x].proj /\ keys'[x].agent = keys[x].agent
             /\ keys'[x].st = "active" => keys[x].st = "active"
             /\ keys'[x].st = "active" /\ x \notin revoking' => x \notin revoking
    BY RevokeAppliedMoves DEF QuietKeys
  <1>2. \A K, L : Raced(K, L)' = Raced(K, L)
    BY DEF Raced, Counts
  <1>3. HolderActive'
    BY <1>2 DEF KeysInv, HolderActive
  <1>4. DeletedKeyRefused'
    BY <1>1, <1>2 DEF KeysInv, DeletedKeyRefused, Counts
  <1>5. \A p, a : Live(p, a)' \subseteq Live(p, a)
    BY <1>1 DEF Live, KeysOf
  <1>6. KeyRoom'
    BY <1>2, <1>5 DEF KeysInv, KeyRoom
  <1> QED BY <1>3, <1>4, <1>6 DEF KeysInv

\* The first keys are one each, of active agents.
LEMMA KeysInit ==
  ASSUME AccountsInit
  PROVE  KeysInv
  <1>1. \A u \in Threads : job[u].pc = "idle"
    BY DEF AccountsInit, Idle
  <1>2. HolderActive
    BY <1>1 DEF HolderActive
  <1>3. \/ agents = <<>> /\ keys = <<>>
        \/ /\ agents = <<AgentRow(1, "default"), AgentRow(1, "x")>>
           /\ \E plain \in BOOLEAN :
                keys = <<KeyRow(1, 0, TRUE), KeyRow(1, 1, TRUE), KeyRow(1, 2, plain)>>
    BY DEF AccountsInit
  <1>4. CASE agents = <<>> /\ keys = <<>>
    <2>1. KeyRoom /\ DeletedKeyRefused
      BY <1>1, <1>4 DEF KeyRoom, Live, KeysOf, DeletedKeyRefused
    <2> QED BY <1>2, <2>1 DEF KeysInv
  <1>5. CASE /\ agents = <<AgentRow(1, "default"), AgentRow(1, "x")>>
             /\ \E plain \in BOOLEAN :
                  keys = <<KeyRow(1, 0, TRUE), KeyRow(1, 1, TRUE), KeyRow(1, 2, plain)>>
    <2>1. PICK plain \in BOOLEAN :
            keys = <<KeyRow(1, 0, TRUE), KeyRow(1, 1, TRUE), KeyRow(1, 2, plain)>>
      BY <1>5
    <2> DEFINE k0 == KeyRow(1, 0, TRUE)
               k1 == KeyRow(1, 1, TRUE)
               k2 == KeyRow(1, 2, plain)
               a1 == AgentRow(1, "default")
               a2 == AgentRow(1, "x")
    <2>2. k0.agent = 0 /\ k1.agent = 1 /\ k2.agent = 2 /\ a1.st = "active" /\ a2.st = "active"
      BY DEF KeyRow, AgentRow
    <2>3. keys = <<k0, k1, k2>> /\ agents = <<a1, a2>>
      BY <1>5, <2>1
    <2> HIDE DEF k0, k1, k2, a1, a2
    <2>4. DOMAIN keys = {1, 2, 3} /\ keys[1] = k0 /\ keys[2] = k1 /\ keys[3] = k2
      BY <2>3
    <2>5. agents[1] = a1 /\ agents[2] = a2
      BY <2>3
    <2>6. DeletedKeyRefused
      BY <2>2, <2>4, <2>5 DEF DeletedKeyRefused
    <2>7. \A x, y \in DOMAIN keys : keys[x].agent = keys[y].agent => x = y
      BY <2>2, <2>4
    <2>8. KeyRoom
      BY <1>1, <2>7 DEF KeyRoom, Live, KeysOf
    <2> QED BY <1>2, <2>6, <2>8 DEF KeysInv
  <1> QED BY <1>3, <1>4, <1>5

\* A set of rows no two of which differ has at most one.
LEMMA AtMostOne ==
  ASSUME NEW S, \A x, y \in S : x = y
  PROVE  Cardinality(S) <= 1
  <1>1. CASE S = {}
    BY <1>1, FS_EmptySet
  <1>2. CASE S # {}
    <2>1. PICK x \in S : TRUE
      BY <1>2
    <2>2. S = {x}
      OBVIOUS
    <2> QED BY <2>2, FS_Singleton
  <1> QED BY <1>1, <1>2

\* The inductive invariant of agents and keys.
LEMMA KeysStep ==
  ASSUME FInv, KeysInv, [AccountsNext]_accountVars
  PROVE  FInv' /\ KeysInv'
  <1>1. FInv'
    BY NextFInv
  <1>2. ASSUME NEW t \in Threads, AccountsStep(t) PROVE KeysInv'
    BY <1>1, <1>2, HolderStep, RefusedStep, KeyRoomStep DEF KeysInv
  <1>3. CASE RevokeApplied \/ CodeMutationApplied \/ Tick \/ UNCHANGED accountVars
    <2>1. job' = job /\ Counts /\ agents' = agents /\ projects' = projects /\ (QuietKeys \/ RevokeApplied)
      BY <1>3, BackgroundMoves
    <2> QED BY <1>1, <2>1, KeysBackground
  <1> QED BY <1>1, <1>2, <1>3 DEF AccountsNext

\* Keys are in order, for any number of threads, requests and errors: no key of
\* an agent is accepted once delete_agent has ended, unless its second ALTER
\* failed or a key was being issued meanwhile; and no agent or project has two
\* good keys, unless two requests that issue keys overlapped.
THEOREM AccountsKeysInOrder == AccountsSpec => []KeysInOrder
  <1> DEFINE Inv == FInv /\ KeysInv
  <1>1. AccountsInit => Inv
    BY InitFInv, KeysInit
  <1>2. Inv /\ [AccountsNext]_accountVars => Inv'
    BY KeysStep
  <1>3. Inv => KeysInOrder
    <2> SUFFICES ASSUME KeysInv PROVE KeysInOrder
      OBVIOUS
    <2>1. ASSUME NEW p \in DOMAIN projects, NEW a \in 0..Len(agents),
                 ~Raced(Issuers \cup {"project"}, Issuers \cup {"project"})
          PROVE  Cardinality(KeysOf(p, a) \ revoking) <= 1
      <3>1. \A x, y \in KeysOf(p, a) \ revoking : x = y
        BY <2>1 DEF KeysInv, KeyRoom, Live
      <3> QED BY <3>1, AtMostOne
    <2> QED BY <2>1 DEF KeysInOrder, KeysInv, OneKeyEach
  <1> QED BY <1>1, <1>2, <1>3, PTL DEF AccountsSpec

-----------------------------------------------------------------------------
(* Login codes *)

\* The ages and the number of codes change by a new code and by time only.
LEMMA CodeAges ==
  ASSUME FInv, NEW t \in Threads, AccountsStep(t), ~InsertCode(t)
  PROVE  /\ DOMAIN codes' = DOMAIN codes /\ Len(codes') = Len(codes)
         /\ \A c \in DOMAIN codes : codes'[c].age = codes[c].age
  <1>1. Touches(t)
    BY StepTouches
  <1>2. CASE codes' = codes
    BY <1>2
  <1>3. CASE WrongCode(t)
    <2>1. CountTypes
      <3>1. Counts
        BY <1>3, WrongCodeMoves
      <3> QED BY <3>1 DEF Counts, CountTypes, FInv, RowTypes
    <2> QED BY <1>3, <2>1, WrongCodeTables
  <1>4. CASE Consume(t)
    <2>1. CountTypes
      BY <1>4, ConsumeMoves DEF Counts, CountTypes, FInv, RowTypes
    <2> QED BY <1>4, <2>1, ConsumeTables
  <1> QED BY <1>1, <1>2, <1>3, <1>4 DEF Touches

\* The row of a new code.
LEMMA NewCode ==
  ASSUME FInv, NEW t \in Threads, InsertCode(t)
  PROVE  /\ DOMAIN codes' = 1..(Len(codes) + 1) /\ DOMAIN codes = 1..Len(codes)
         /\ Len(codes) \in Nat /\ Len(codes') = Len(codes) + 1
         /\ codes'[Len(codes) + 1].age = 0 /\ codes'[Len(codes) + 1].tries = 0
         /\ codes'[Len(codes) + 1].logins = 0 /\ codes'[Len(codes) + 1].guesses = 0
         /\ \A c \in DOMAIN codes : codes'[c] = codes[c]
         /\ codeMuts' = codeMuts
  <1>1. /\ QuietKeys /\ users' = users /\ projects' = projects /\ agents' = agents /\ Counts
        /\ codeMuts' = codeMuts /\ codes' = Append(codes, CodeRow)
    BY InsertCodeMoves
  <1>2. CountTypes
    BY <1>1 DEF Counts, CountTypes, FInv, RowTypes
  <1>3. CodeRow.age = 0 /\ CodeRow.tries = 0 /\ CodeRow.logins = 0 /\ CodeRow.guesses = 0
    BY DEF CodeRow
  <1> QED BY <1>1, <1>2, <1>3, CodeAdded

\* A step keeps codes few, unless two requests for one overlap.
LEMMA CodeRoomStep ==
  ASSUME FInv, FInv', CodeRoom, NEW t \in Threads, AccountsStep(t)
  PROVE  CodeRoom'
  <1>1. Moved(t) /\ Leads(t)
    BY StepMoves, StepLeads
  <1>2. CASE Raced({"code"}, {"code"})
    <2>1. Raced({"code"}, {"code"})'
      BY <1>1, <1>2, RacedStays DEF Moved
    <2> QED BY <2>1 DEF CodeRoom
  <1>3. CASE ~Raced({"code"}, {"code"})
    <2>1. FewCodes /\ \A u \in Threads : RoomFor(u)
      BY <1>3 DEF CodeRoom
    <2>2. \A u \in Threads : u # t => job'[u] = job[u]
      BY <1>1 DEF Moved, Holds
    <2>3. FewCodes' /\ \A u \in Threads : u # t => RoomFor(u)'
      <3>1. CASE InsertCode(t)
        <4>1. job[t].pc = "insertCode"
          BY <3>1, InsertCodeMoves
        <4>2. job[t].kind \in {"code"} /\ Busy(t)
          BY <4>1, ThreadFits DEF KindFits, Busy
        <4>3. ASSUME NEW u \in Threads, u # t PROVE job[u].pc \notin {"limit", "insertCode"}
          <5> SUFFICES ASSUME job[u].pc \in {"limit", "insertCode"} PROVE FALSE
            OBVIOUS
          <5>1. job[u].kind \in {"code"} /\ Busy(u)
            BY ThreadFits DEF KindFits, Busy
          <5> QED BY <1>3, <4>2, <4>3, <5>1, RacedWhen
        <4>4. /\ DOMAIN codes' = 1..(Len(codes) + 1) /\ DOMAIN codes = 1..Len(codes)
              /\ Len(codes) \in Nat /\ Len(codes') = Len(codes) + 1
              /\ codes'[Len(codes) + 1].age = 0
              /\ \A c \in DOMAIN codes : codes'[c] = codes[c]
          BY <3>1, NewCode
        <4>5. Len(codes) < CodeLimit /\ \A c \in DOMAIN codes : codes[c].age # 0
          BY <2>1, <4>1 DEF RoomFor
        <4>6. \A c \in DOMAIN codes' : c = Len(codes) + 1 \/ codes'[c].age # 0
          BY <4>4, <4>5
        <4>7. FewCodes'
          BY <4>4, <4>5, <4>6, AccountsAssumption DEF FewCodes
        <4> QED BY <2>2, <4>3, <4>7 DEF RoomFor
      <3>2. CASE ~InsertCode(t)
        <4>1. /\ DOMAIN codes' = DOMAIN codes /\ Len(codes') = Len(codes)
              /\ \A c \in DOMAIN codes : codes'[c].age = codes[c].age
          BY <3>2, CodeAges
        <4> QED BY <2>1, <2>2, <4>1 DEF FewCodes, RoomFor
      <3> QED BY <3>1, <3>2
    <2>4. RoomFor(t)'
      <3>1. CASE job'[t].pc = "limit"
        <4>1. Recent(t)
          BY <1>1, <3>1 DEF Leads
        <4>2. codes' = codes /\ \A c \in DOMAIN codes : codes[c].age # 0
          BY <3>1, <4>1, RecentMoves DEF Quiet, QuietLogins
        <4> QED BY <3>1, <4>2 DEF RoomFor
      <3>2. CASE job'[t].pc = "insertCode"
        <4>1. Limit(t)
          BY <1>1, <3>2 DEF Leads
        <4>2. codes' = codes /\ ~(Len(codes) >= CodeLimit) /\ job[t].pc = "limit"
          BY <3>2, <4>1, LimitMoves DEF Quiet, QuietLogins
        <4>3. \A c \in DOMAIN codes : codes[c].age # 0
          BY <2>1, <4>2 DEF RoomFor
        <4>4. Len(codes) \in Nat
          BY DEF FInv, RowTypes
        <4> QED BY <4>2, <4>3, <4>4, AccountsAssumption DEF RoomFor
      <3> QED BY <3>1, <3>2 DEF RoomFor
    <2> QED BY <2>3, <2>4 DEF CodeRoom
  <1> QED BY <1>2, <1>3

\* A mutation is sent to a code that has none on its way.
LEMMA MutationSent ==
  ASSUME FInv, Books, NEW c \in DOMAIN codes, NEW op, ~Pending(c),
         Len(codeMuts) \in Nat, DOMAIN codeMuts = 1..Len(codeMuts),
         DOMAIN codeMuts' = 1..(Len(codeMuts) + 1),
         codeMuts'[Len(codeMuts) + 1].code = c, codeMuts'[Len(codeMuts) + 1].op = op,
         \A i \in DOMAIN codeMuts : codeMuts'[i] = codeMuts[i]
  PROVE  /\ OneMutation' /\ Queued(c, op)'
         /\ \A o : o # op => ~Queued(c, o)'
         /\ \A o : ~Queued(c, o)
         /\ \A d, o : d # c => Queued(d, o)' = Queued(d, o)
         /\ \A d : d # c => Pending(d)' = Pending(d)
  <1>1. \A i \in DOMAIN codeMuts : codeMuts[i].code # c
    BY DEF Pending
  <1>2. DOMAIN codeMuts' = DOMAIN codeMuts \cup {Len(codeMuts) + 1} /\ Len(codeMuts) + 1 \notin DOMAIN codeMuts
    OBVIOUS
  <1>3. OneMutation'
    BY <1>1, <1>2 DEF Books, OneMutation
  <1>4. ASSUME NEW d, NEW o, d # c PROVE Queued(d, o)' = Queued(d, o)
    BY <1>2, <1>4 DEF Queued
  <1>5. ASSUME NEW d, d # c PROVE Pending(d)' = Pending(d)
    BY <1>2, <1>5 DEF Pending
  <1>6. Queued(c, op)' /\ (\A o : ~Queued(c, o)) /\ \A o : o # op => ~Queued(c, o)'
    BY <1>1, <1>2 DEF Queued
  <1> QED BY <1>3, <1>4, <1>5, <1>6

\* The books do not depend on the ages of codes.
LEMMA BookKept ==
  ASSUME NEW c, CodeBook(c), codes'[c].guesses = codes[c].guesses, codes'[c].tries = codes[c].tries,
         codes'[c].logins = codes[c].logins, codes'[c].st = codes[c].st,
         \A o : Queued(c, o)' = Queued(c, o)
  PROVE  CodeBook(c)'
  BY DEF CodeBook

\* While a login works on a code no other does.
LEMMA LoneLogin ==
  ASSUME FInv, ~Raced({"login"}, {"login"}), NEW t \in Threads, job[t].kind = "login", Busy(t)
  PROVE  \A u \in Threads : u # t => job[u].pc \notin {"wrong", "consume"}
  <1> SUFFICES ASSUME NEW u \in Threads, u # t, job[u].pc \in {"wrong", "consume"} PROVE FALSE
    OBVIOUS
  <1>1. job[u].kind \in {"login"} /\ Busy(u)
    BY ThreadFits DEF KindFits, Busy
  <1>2. job[t].kind \in {"login"}
    OBVIOUS
  <1> QED BY <1>1, <1>2, RacedWhen

\* The books after the UPDATE for a wrong guess.
LEMMA WrongBooks ==
  ASSUME FInv, Books, ~Raced({"login"}, {"login"}), NEW t \in Threads, WrongCode(t)
  PROVE  Books'
  <1>1. job[t].pc = "wrong" /\ Counts /\ Holds(t) /\ job'[t].pc = "done"
    BY WrongCodeMoves
  <1>2. CountTypes
    BY <1>1 DEF Counts, CountTypes, FInv, RowTypes
  <1>0. PICK c : c = job[t].code
    OBVIOUS
  <1>3. /\ c \in DOMAIN codes
        /\ DOMAIN codes' = DOMAIN codes
        /\ codes'[c].guesses = codes[c].guesses + 1 /\ codes'[c].logins = codes[c].logins
        /\ codes'[c].st = codes[c].st /\ codes'[c].tries = codes[c].tries
        /\ \A d \in DOMAIN codes : d # c => codes'[d] = codes[d]
        /\ Len(codeMuts) \in Nat
        /\ DOMAIN codeMuts' = 1..(Len(codeMuts) + 1) /\ DOMAIN codeMuts = 1..Len(codeMuts)
        /\ codeMuts'[Len(codeMuts) + 1].code = c /\ codeMuts'[Len(codeMuts) + 1].op = "attempt"
        /\ \A i \in DOMAIN codeMuts : codeMuts'[i] = codeMuts[i]
    BY <1>0, <1>2, WrongCodeTables
  <1>4. ~Pending(c) /\ codes[c].st = "active" /\ codes[c].tries < MaxTries
    BY <1>0, <1>1 DEF Books, CodeFresh
  <1>5. /\ OneMutation' /\ Queued(c, "attempt")' /\ ~Queued(c, "consume")'
        /\ ~Queued(c, "attempt") /\ ~Queued(c, "consume")
        /\ \A d, o : d # c => Queued(d, o)' = Queued(d, o)
    BY <1>3, <1>4, MutationSent
  <1>6. CodeBook(c) /\ codes[c].tries \in Nat /\ codes[c].guesses \in Nat
    <2>1. codes[c] \in CodeRows
      BY <1>3 DEF FInv, RowTypes
    <2>2. CodeBook(c)
      BY <1>3 DEF Books
    <2> QED BY <2>1, <2>2 DEF CodeRows
  <1>7. CodeBook(c)'
    BY <1>3, <1>4, <1>5, <1>6, AccountsAssumption DEF CodeBook
  <1>8. ASSUME NEW d \in DOMAIN codes, d # c PROVE CodeBook(d)'
    BY <1>3, <1>5, <1>8, BookKept DEF Books
  <1>9. \A u \in Threads : job'[u].pc \notin {"wrong", "consume"}
    <2>1. job[t].kind = "login" /\ Busy(t)
      BY <1>1, ThreadFits DEF KindFits, Busy
    <2> QED BY <1>1, <2>1, LoneLogin DEF Holds
  <1> QED BY <1>3, <1>5, <1>7, <1>8, <1>9 DEF Books, CodeFresh

\* The books after the UPDATE that consumes a code.
LEMMA ConsumeBooks ==
  ASSUME FInv, Books, ~Raced({"login"}, {"login"}), NEW t \in Threads, Consume(t)
  PROVE  Books'
  <1>1. job[t].pc = "consume" /\ Counts /\ Holds(t) /\ job'[t].pc = "user"
    BY ConsumeMoves
  <1>2. CountTypes
    BY <1>1 DEF Counts, CountTypes, FInv, RowTypes
  <1>0. PICK c : c = job[t].code
    OBVIOUS
  <1>3. /\ c \in DOMAIN codes
        /\ DOMAIN codes' = DOMAIN codes
        /\ codes'[c].logins = codes[c].logins + 1 /\ codes'[c].guesses = codes[c].guesses
        /\ codes'[c].st = codes[c].st /\ codes'[c].tries = codes[c].tries
        /\ \A d \in DOMAIN codes : d # c => codes'[d] = codes[d]
        /\ Len(codeMuts) \in Nat
        /\ DOMAIN codeMuts' = 1..(Len(codeMuts) + 1) /\ DOMAIN codeMuts = 1..Len(codeMuts)
        /\ codeMuts'[Len(codeMuts) + 1].code = c /\ codeMuts'[Len(codeMuts) + 1].op = "consume"
        /\ \A i \in DOMAIN codeMuts : codeMuts'[i] = codeMuts[i]
    BY <1>0, <1>2, ConsumeTables
  <1>4. ~Pending(c) /\ codes[c].st = "active" /\ codes[c].tries < MaxTries
    BY <1>0, <1>1 DEF Books, CodeFresh
  <1>5. /\ OneMutation' /\ Queued(c, "consume")' /\ ~Queued(c, "attempt")'
        /\ ~Queued(c, "attempt") /\ ~Queued(c, "consume")
        /\ \A d, o : d # c => Queued(d, o)' = Queued(d, o)
    BY <1>3, <1>4, MutationSent
  <1>6. CodeBook(c) /\ codes[c].logins \in Nat
    <2>1. codes[c] \in CodeRows
      BY <1>3 DEF FInv, RowTypes
    <2>2. CodeBook(c)
      BY <1>3 DEF Books
    <2> QED BY <2>1, <2>2 DEF CodeRows
  <1>7. codes[c].logins = 0
    BY <1>4, <1>5, <1>6 DEF CodeBook
  <1>10. CodeBook(c)'
    BY <1>3, <1>5, <1>6, <1>7 DEF CodeBook
  <1>8. ASSUME NEW d \in DOMAIN codes, d # c PROVE CodeBook(d)'
    BY <1>3, <1>5, <1>8, BookKept DEF Books
  <1>9. \A u \in Threads : job'[u].pc \notin {"wrong", "consume"}
    <2>1. job[t].kind = "login" /\ Busy(t)
      BY <1>1, ThreadFits DEF KindFits, Busy
    <2> QED BY <1>1, <2>1, LoneLogin DEF Holds
  <1> QED BY <1>3, <1>5, <1>8, <1>9, <1>10 DEF Books, CodeFresh

\* A step keeps the books, unless a mutation is late or two logins overlap.
LEMMA BooksStep ==
  ASSUME FInv, FInv', CodeBooks, NEW t \in Threads, AccountsStep(t)
  PROVE  CodeBooks'
  <1>1. Moved(t) /\ Leads(t) /\ Touches(t)
    BY StepMoves, StepLeads, StepTouches
  <1>2. CASE Raced({"login"}, {"login"})
    <2>1. Raced({"login"}, {"login"})'
      BY <1>1, <1>2, RacedStays DEF Moved
    <2> QED BY <2>1 DEF CodeBooks
  <1>3. CASE lagged
    BY <1>1, <1>3 DEF Moved, CodeBooks
  <1>4. CASE ~Raced({"login"}, {"login"}) /\ ~lagged /\ ~lagged'
    <2>1. Books
      BY <1>4 DEF CodeBooks
    <2>2. \A u \in Threads : u # t => job'[u] = job[u]
      BY <1>1 DEF Moved, Holds
    <2>3. CASE WrongCode(t)
      BY <1>4, <2>1, <2>3, WrongBooks DEF CodeBooks
    <2>4. CASE Consume(t)
      BY <1>4, <2>1, <2>4, ConsumeBooks DEF CodeBooks
    <2>5. CASE InsertCode(t)
      <3>1. /\ DOMAIN codes' = 1..(Len(codes) + 1) /\ DOMAIN codes = 1..Len(codes)
            /\ Len(codes) \in Nat
            /\ codes'[Len(codes) + 1].tries = 0
            /\ codes'[Len(codes) + 1].logins = 0 /\ codes'[Len(codes) + 1].guesses = 0
            /\ \A c \in DOMAIN codes : codes'[c] = codes[c]
            /\ codeMuts' = codeMuts
        BY <2>5, NewCode
      <3>2. OneMutation' /\ (\A c : Pending(c)' = Pending(c)) /\ \A c, o : Queued(c, o)' = Queued(c, o)
        BY <2>1, <3>1 DEF Books, OneMutation, Pending, Queued
      <3>0. PICK n : n = Len(codes) + 1
        OBVIOUS
      <3>3. ~Queued(n, "attempt")
        BY <3>0, <3>1 DEF Queued, FInv, RowRefs
      <3>4. CodeBook(n)'
        <4>1. ~Queued(n, "attempt")' /\ codes'[n].tries = 0 /\ codes'[n].logins = 0 /\ codes'[n].guesses = 0
          BY <3>0, <3>1, <3>2, <3>3
        <4> QED BY <4>1, AccountsAssumption DEF CodeBook
      <3>5. ASSUME NEW c \in DOMAIN codes PROVE CodeBook(c)'
        BY <2>1, <3>1, <3>2, BookKept DEF Books
      <3>6. \A c \in DOMAIN codes' : c = n \/ c \in DOMAIN codes
        BY <3>0, <3>1
      <3>7. ASSUME NEW u \in Threads PROVE CodeFresh(u)'
        <4>1. CASE u = t
          BY <2>5, <4>1, InsertCodeMoves DEF CodeFresh
        <4>2. CASE u # t
          <5>1. job[u].pc \in {"wrong", "consume"} => job[u].code \in DOMAIN codes
            BY ThreadFits DEF RefersTo
          <5> QED BY <2>1, <2>2, <3>1, <3>2, <4>2, <5>1 DEF Books, CodeFresh
        <4> QED BY <4>1, <4>2
      <3>8. \A c \in DOMAIN codes' : CodeBook(c)'
        BY <3>4, <3>5, <3>6
      <3> QED BY <3>2, <3>7, <3>8 DEF CodeBooks, Books
    <2>6. CASE codes' = codes /\ codeMuts' = codeMuts
      <3>2. OneMutation' /\ (\A c : Pending(c)' = Pending(c)) /\ \A c, o : Queued(c, o)' = Queued(c, o)
        BY <2>1, <2>6 DEF Books, OneMutation, Pending, Queued
      <3>5. ASSUME NEW c \in DOMAIN codes PROVE CodeBook(c)'
        BY <2>1, <2>6, <3>2, BookKept DEF Books
      <3>7. ASSUME NEW u \in Threads PROVE CodeFresh(u)'
        <4>1. CASE u = t /\ job'[t].pc \in {"wrong", "consume"}
          <5>1. ReadCode(t)
            BY <1>1, <4>1 DEF Leads
          <5>2. /\ codes[job'[t].code].st = "active" /\ codes[job'[t].code].tries < MaxTries
                /\ lagged' = (lagged \/ Pending(job'[t].code))
            BY <4>1, <5>1, ReadCodeMoves
          <5>3. ~Pending(job'[t].code)
            BY <1>4, <5>2
          <5> QED BY <2>6, <3>2, <4>1, <5>2, <5>3 DEF CodeFresh, Pending
        <4>2. CASE u # t
          BY <2>1, <2>2, <2>6, <3>2, <4>2 DEF Books, CodeFresh
        <4> QED BY <4>1, <4>2 DEF CodeFresh
      <3>8. \A c \in DOMAIN codes' : CodeBook(c)'
        BY <2>6, <3>5
      <3> QED BY <3>2, <3>7, <3>8 DEF CodeBooks, Books
    <2> QED BY <1>1, <2>3, <2>4, <2>5, <2>6 DEF Touches
  <1>5. CASE lagged'
    BY <1>5 DEF CodeBooks
  <1> QED BY <1>2, <1>3, <1>4, <1>5

\* A mutation of phone_login_codes takes effect.
LEMMA MutationBooks ==
  ASSUME FInv, Books, CodeMutationApplied
  PROVE  Books'
  <1>0. PICK c : c = codeMuts[1].code
    OBVIOUS
  <1>1. /\ job' = job
        /\ Len(codeMuts) \in Nat /\ Len(codeMuts) > 0 /\ DOMAIN codeMuts = 1..Len(codeMuts)
        /\ DOMAIN codeMuts' = 1..(Len(codeMuts) - 1)
        /\ \A i \in DOMAIN codeMuts' : codeMuts'[i] = codeMuts[i + 1]
        /\ DOMAIN codes' = DOMAIN codes
        /\ c \in DOMAIN codes
        /\ \A d \in DOMAIN codes : d # c => codes'[d] = codes[d]
    BY <1>0, MutationMoves
  <1>2. /\ codes'[c].logins = codes[c].logins /\ codes'[c].guesses = codes[c].guesses
        /\ \/ /\ codeMuts[1].op = "consume" /\ codes'[c].st = "consumed"
              /\ codes'[c].tries = codes[c].tries
           \/ /\ codeMuts[1].op = "attempt" /\ codes'[c].st = codes[c].st
              /\ codes'[c].tries = codes[c].tries + 1
    BY <1>0, MutationMoves
  <1>3. 1 \in DOMAIN codeMuts /\ \A i \in DOMAIN codeMuts' : i + 1 \in DOMAIN codeMuts /\ i + 1 # 1
    BY <1>1
  <1>4. \A i \in DOMAIN codeMuts : i # 1 => i - 1 \in DOMAIN codeMuts' /\ codeMuts'[i - 1] = codeMuts[i]
    BY <1>1
  <1>5. \A i \in DOMAIN codeMuts : codeMuts[i].code = c => i = 1
    BY <1>0, <1>3 DEF Books, OneMutation
  <1>6. OneMutation'
    <2> SUFFICES ASSUME NEW i \in DOMAIN codeMuts', NEW j \in DOMAIN codeMuts', codeMuts'[i].code = codeMuts'[j].code
                 PROVE  i = j
      BY DEF OneMutation
    <2>1. codeMuts[i + 1].code = codeMuts[j + 1].code /\ i + 1 \in DOMAIN codeMuts /\ j + 1 \in DOMAIN codeMuts
      BY <1>1, <1>3
    <2>2. i + 1 = j + 1
      BY <2>1 DEF Books, OneMutation
    <2>3. i \in Int /\ j \in Int
      BY <1>1
    <2> QED BY <2>2, <2>3
  <1>7. \A i \in DOMAIN codeMuts' : codeMuts'[i].code # c
    BY <1>1, <1>3, <1>5
  <1>8. \A o : ~Queued(c, o)'
    BY <1>7 DEF Queued
  <1>9. ASSUME NEW d, d # c, NEW o PROVE Queued(d, o)' = Queued(d, o)
    <2>1. codeMuts[1].code # d
      BY <1>0, <1>9
    <2>2. ASSUME Queued(d, o) PROVE Queued(d, o)'
      <3>1. PICK i \in DOMAIN codeMuts : codeMuts[i].code = d /\ codeMuts[i].op = o
        BY <2>2 DEF Queued
      <3>2. i - 1 \in DOMAIN codeMuts' /\ codeMuts'[i - 1] = codeMuts[i]
        BY <1>4, <2>1, <3>1
      <3> QED BY <3>1, <3>2 DEF Queued
    <2>3. ASSUME Queued(d, o)' PROVE Queued(d, o)
      <3>1. PICK i \in DOMAIN codeMuts' : codeMuts'[i].code = d /\ codeMuts'[i].op = o
        BY <2>3 DEF Queued
      <3>2. i + 1 \in DOMAIN codeMuts /\ codeMuts'[i] = codeMuts[i + 1]
        BY <1>1, <1>3
      <3> QED BY <3>1, <3>2 DEF Queued
    <2>4. Queued(d, o) \in BOOLEAN /\ Queued(d, o)' \in BOOLEAN
      BY DEF Queued
    <2> QED BY <2>2, <2>3, <2>4
  <1>10. CodeBook(c)'
    <2>1. CodeBook(c) /\ codes[c].tries \in Nat /\ codes[c].guesses \in Nat
      <3>1. codes[c] \in CodeRows
        BY <1>1 DEF FInv, RowTypes
      <3>2. CodeBook(c)
        BY <1>1 DEF Books
      <3> QED BY <3>1, <3>2 DEF CodeRows
    <2>2. CASE codeMuts[1].op = "consume" /\ codes'[c].st = "consumed" /\ codes'[c].tries = codes[c].tries
      <3>1. ~Queued(c, "attempt")
        BY <1>5, <2>2 DEF Queued
      <3> QED BY <1>2, <1>8, <2>1, <2>2, <3>1 DEF CodeBook
    <2>3. CASE /\ codeMuts[1].op = "attempt" /\ codes'[c].st = codes[c].st
               /\ codes'[c].tries = codes[c].tries + 1
      <3>1. Queued(c, "attempt") /\ ~Queued(c, "consume")
        BY <1>0, <1>3, <1>5, <2>3 DEF Queued
      <3> QED BY <1>2, <1>8, <2>1, <2>3, <3>1 DEF CodeBook
    <2> QED BY <1>2, <2>2, <2>3
  <1>11. ASSUME NEW d \in DOMAIN codes, d # c PROVE CodeBook(d)'
    BY <1>1, <1>9, <1>11, BookKept DEF Books
  <1>12. ASSUME NEW u \in Threads PROVE CodeFresh(u)'
    <2> SUFFICES ASSUME job[u].pc \in {"wrong", "consume"}
                 PROVE  /\ ~Pending(job[u].code)' /\ codes'[job[u].code].st = "active"
                        /\ codes'[job[u].code].tries < MaxTries
      BY <1>1 DEF CodeFresh
    <2>1. ~Pending(job[u].code) /\ codes[job[u].code].st = "active" /\ codes[job[u].code].tries < MaxTries
      BY DEF Books, CodeFresh
    <2>2. job[u].code # c
      BY <1>0, <1>3, <2>1 DEF Pending
    <2>3. job[u].code \in DOMAIN codes
      BY ThreadFits DEF RefersTo
    <2>4. ~Pending(job[u].code)'
      BY <1>1, <1>3, <2>1 DEF Pending
    <2> QED BY <1>1, <2>1, <2>2, <2>3, <2>4
  <1> QED BY <1>1, <1>6, <1>10, <1>11, <1>12 DEF Books

\* Steps outside the threads: a mutation takes effect, time passes.
LEMMA CodesBackground ==
  ASSUME FInv, CodeRoom, CodeBooks, job' = job, Counts, lagged => lagged',
         (codes' = codes /\ codeMuts' = codeMuts) \/ CodeMutationApplied \/ Tick
  PROVE  CodeRoom' /\ CodeBooks'
  <1>1. \A K, L : Raced(K, L)' = Raced(K, L)
    BY DEF Raced, Counts
  <1>2. /\ DOMAIN codes' = DOMAIN codes /\ Len(codes') = Len(codes)
        /\ \A c \in DOMAIN codes : codes'[c].age = 0 => codes[c].age = 0
    <2>1. CASE codes' = codes /\ codeMuts' = codeMuts
      BY <2>1
    <2>2. CASE Tick
      BY <2>2, TickMoves
    <2>3. CASE CodeMutationApplied
      <3>1. /\ DOMAIN codes' = DOMAIN codes /\ Len(codes') = Len(codes)
            /\ \A d \in DOMAIN codes : d # codeMuts[1].code => codes'[d] = codes[d]
            /\ codes'[codeMuts[1].code].age = codes[codeMuts[1].code].age
        BY <2>3, MutationMoves
      <3> QED BY <3>1
    <2> QED BY <2>1, <2>2, <2>3
  <1>3. CodeRoom'
    BY <1>1, <1>2 DEF CodeRoom, FewCodes, RoomFor
  <1>4. CASE Books
    <2>1. CASE CodeMutationApplied
      BY <1>3, <1>4, <2>1, MutationBooks DEF CodeBooks
    <2>2. CASE (codes' = codes /\ codeMuts' = codeMuts) \/ Tick
      <3>1. /\ codeMuts' = codeMuts /\ DOMAIN codes' = DOMAIN codes
            /\ \A c \in DOMAIN codes :
                 /\ codes'[c].st = codes[c].st /\ codes'[c].tries = codes[c].tries
                 /\ codes'[c].logins = codes[c].logins /\ codes'[c].guesses = codes[c].guesses
        BY <2>2, TickMoves
      <3>2. OneMutation' /\ (\A c : Pending(c)' = Pending(c)) /\ \A c, o : Queued(c, o)' = Queued(c, o)
        BY <1>4, <3>1 DEF Books, OneMutation, Pending, Queued
      <3>3. ASSUME NEW c \in DOMAIN codes PROVE CodeBook(c)'
        BY <1>4, <3>1, <3>2, BookKept DEF Books
      <3>4. ASSUME NEW u \in Threads PROVE CodeFresh(u)'
        <4>1. job[u].pc \in {"wrong", "consume"} => job[u].code \in DOMAIN codes
          BY ThreadFits DEF RefersTo
        <4> QED BY <1>4, <3>1, <3>2, <4>1 DEF Books, CodeFresh
      <3> QED BY <1>3, <3>1, <3>2, <3>3, <3>4 DEF Books, CodeBooks
    <2> QED BY <2>1, <2>2
  <1>5. CASE lagged \/ Raced({"login"}, {"login"})
    BY <1>1, <1>3, <1>5 DEF CodeBooks
  <1> QED BY <1>3, <1>4, <1>5 DEF CodeBooks

\* The first code has not been used.
LEMMA CodesInit ==
  ASSUME AccountsInit
  PROVE  CodeRoom /\ CodeBooks
  <1>1. \A u \in Threads : job[u].pc = "idle"
    BY DEF AccountsInit, Idle
  <1>2. codes = <<>> \/ codes = <<[CodeRow EXCEPT !.age = 1]>>
    BY DEF AccountsInit
  <1>3. codeMuts = <<>> /\ DOMAIN codeMuts = {}
    BY DEF AccountsInit
  <1>4. OneMutation /\ \A c, o : ~Queued(c, o)
    BY <1>3 DEF OneMutation, Queued
  <1>5. \A u \in Threads : RoomFor(u) /\ CodeFresh(u)
    BY <1>1 DEF RoomFor, CodeFresh
  <1>6. CASE codes = <<>>
    <2>1. DOMAIN codes = {} /\ Len(codes) = 0
      BY <1>6
    <2> QED BY <1>4, <1>5, <2>1, AccountsAssumption DEF CodeRoom, CodeBooks, FewCodes, Books
  <1>7. CASE codes = <<[CodeRow EXCEPT !.age = 1]>>
    <2> DEFINE r == [CodeRow EXCEPT !.age = 1]
    <2>1. r.age = 1 /\ r.tries = 0 /\ r.guesses = 0 /\ r.logins = 0
      BY DEF CodeRow
    <2>2. codes = <<r>>
      BY <1>7
    <2> HIDE DEF r
    <2>3. DOMAIN codes = {1} /\ Len(codes) = 1 /\ codes[1] = r
      BY <2>2
    <2>4. FewCodes
      BY <2>1, <2>3, AccountsAssumption DEF FewCodes
    <2>5. \A c \in DOMAIN codes : CodeBook(c)
      BY <1>4, <2>1, <2>3, AccountsAssumption DEF CodeBook
    <2> QED BY <1>4, <1>5, <2>4, <2>5 DEF CodeRoom, CodeBooks, Books
  <1> QED BY <1>2, <1>6, <1>7

\* A code logs in once and bears MaxTries wrong guesses, and codes are limited
\* in number, for every limit and any number of threads and requests: unless
\* logins, or requests for a code, overlapped, or a login came before the
\* mutation of an earlier one was applied.
THEOREM AccountsCodeUsedOnce == AccountsSpec => []CodeUsedOnce
  <1> DEFINE Inv == FInv /\ CodeRoom /\ CodeBooks
  <1>1. AccountsInit => Inv
    BY InitFInv, CodesInit
  <1>2. Inv /\ [AccountsNext]_accountVars => Inv'
    <2> SUFFICES ASSUME Inv, [AccountsNext]_accountVars PROVE Inv'
      OBVIOUS
    <2>1. FInv'
      BY NextFInv
    <2>2. ASSUME NEW t \in Threads, AccountsStep(t) PROVE CodeRoom' /\ CodeBooks'
      BY <2>1, <2>2, CodeRoomStep, BooksStep
    <2>3. CASE RevokeApplied \/ CodeMutationApplied \/ Tick \/ UNCHANGED accountVars
      <3>1. /\ job' = job /\ Counts /\ (lagged => lagged')
            /\ (codes' = codes /\ codeMuts' = codeMuts) \/ CodeMutationApplied \/ Tick
        BY <2>3, BackgroundMoves
      <3> QED BY <2>1, <3>1, CodesBackground
    <2> QED BY <2>1, <2>2, <2>3 DEF AccountsNext
  <1>3. Inv => CodeUsedOnce
    <2> SUFFICES ASSUME Inv PROVE CodeUsedOnce
      OBVIOUS
    <2>1. CodesLimited
      <3>1. CASE FewCodes
        <4>1. \A c, d \in {e \in DOMAIN codes : codes[e].age = 0} : c = d
          BY <3>1 DEF FewCodes
        <4>2. Cardinality({c \in DOMAIN codes : codes[c].age = 0}) <= 1
          BY <4>1, AtMostOne
        <4> QED BY <3>1, <4>2 DEF CodesLimited, FewCodes
      <3> QED BY <3>1 DEF CodeRoom, CodesLimited
    <2>2. CASE Books
      BY <2>1, <2>2 DEF CodeUsedOnce, Books, CodeBook
    <2>3. CASE ~Books
      BY <2>1, <2>3 DEF CodeUsedOnce, CodeBooks
    <2> QED BY <2>2, <2>3
  <1> QED BY <1>1, <1>2, <1>3, PTL DEF AccountsSpec

-----------------------------------------------------------------------------
(* list_agents *)

\* A request that is being served is of one of the kinds.
LEMMA BusyKinds ==
  ASSUME FInv, NEW u \in Threads, Busy(u)
  PROVE  job[u].kind \in AccountKinds
  <1>1. job[u] \in JobRows /\ KindFits(job[u])
    BY ThreadFits
  <1>2. job[u].pc \in JobPlaces \ {"idle", "done"} /\ job[u].kind \in AccountKinds \cup {"none"}
    BY <1>1 DEF JobRows, Busy
  <1>3. job[u].kind # "none"
    BY <1>1, <1>2 DEF KindFits, JobPlaces
  <1> QED BY <1>2, <1>3

\* While a list is being made, only its thread moves.
LEMMA ListAlone ==
  ASSUME FInv, FInv', NEW t \in Threads, AccountsStep(t), NEW u \in Threads, u # t,
         job[u].kind = "list", Busy(u)
  PROVE  Raced({"list"}, AccountKinds)'
  <1>1. Moved(t)
    BY StepMoves
  <1>2. job[u].kind \in {"list"} /\ job'[u] = job[u]
    BY <1>1 DEF Moved, Holds
  <1>3. CASE Request(t)
    <2>1. Arrived(job'[t])
      BY <1>3, RequestMoves
    <2>2. Busy(t)'
      BY <2>1 DEF Arrived, Busy
    <2>3. Busy(u)' /\ job'[u].kind = "list"
      BY <1>2 DEF Busy
    <2>4. job'[t].kind \in AccountKinds
      BY <1>3, RequestMoves
    <2>5. {job'[u].kind, job'[t].kind} \in raced'
      BY <2>2, <2>3 DEF FInv, Overlaps
    <2> QED BY <2>3, <2>4, <2>5 DEF Raced
  <1>4. CASE Busy(t)
    <2>1. job[t].kind \in AccountKinds
      BY <1>4, BusyKinds
    <2>2. Raced({"list"}, AccountKinds)
      BY <1>2, <1>4, <2>1, RacedWhen
    <2> QED BY <1>1, <2>2, RacedStays DEF Moved
  <1> QED BY <1>1, <1>3, <1>4 DEF Moved

\* One more key is listed.
LEMMA NextListedGood ==
  ASSUME FInv, NEW t \in Threads, NEW x \in Nat, NextListed(t, x), Listing(job[t]), ListParts(t),
         keys'[x].st = "active", keys'[x].agent = job[t].agent, agents' = agents,
         \A y \in DOMAIN keys : keys'[y] = keys[y]
  PROVE  ListParts(t)' /\ (job'[t].pc = "done" => ListGood(t)')
  <1>1. /\ job'[t].proj = job[t].proj
        /\ job'[t].listed = job[t].listed \cup {x}
        /\ job'[t].rows = job[t].rows \ {job[t].agent}
        /\ job'[t].pc = "done" => job'[t].rows = {}
    BY NextListedMoves DEF Same
  <1>2. job[t].agent \in job[t].rows /\ job[t].listed \subseteq DOMAIN keys
    BY ThreadFits DEF RefersTo
  <1>3. Active(job[t].proj)' = Active(job[t].proj)
    BY <1>1 DEF Active
  <1>4. \A y \in job'[t].listed : /\ keys'[y].st = "active" /\ keys'[y].agent \in Active(job[t].proj)
                                  /\ keys'[y].agent \notin job'[t].rows
    BY <1>1, <1>2 DEF ListParts
  <1>5. \A a \in job'[t].rows : a \in Active(job[t].proj)
    BY <1>1 DEF ListParts
  <1>6. ASSUME NEW a \in Active(job[t].proj) PROVE a \in job'[t].rows \/ \E y \in job'[t].listed : keys'[y].agent = a
    <2>1. CASE a = job[t].agent
      BY <1>1, <2>1
    <2>2. CASE a # job[t].agent /\ a \in job[t].rows
      BY <1>1, <2>2
    <2>3. CASE a \notin job[t].rows
      <3>1. PICK y \in job[t].listed : keys[y].agent = a
        BY <2>3 DEF ListParts
      <3> QED BY <1>1, <1>2, <3>1
    <2> QED BY <2>1, <2>2, <2>3
  <1>7. ListParts(t)'
    BY <1>3, <1>4, <1>5, <1>6 DEF ListParts
  <1>8. ASSUME job'[t].pc = "done" PROVE ListGood(t)'
    <2>1. \A a : a \in Active(job[t].proj) <=> \E y \in job'[t].listed : keys'[y].agent = a
      BY <1>1, <1>4, <1>6, <1>8
    <2>2. {keys'[y].agent : y \in job'[t].listed} = Active(job[t].proj)
      BY <2>1
    <2> QED BY <1>3, <1>4, <2>2 DEF ListGood
  <1> QED BY <1>7, <1>8

\* A step of a list: keys found or made are kept, and the agents go on to be
\* the active ones.
LEMMA ListWork ==
  ASSUME FInv, FInv', NEW t \in Threads, ListSafe(t), job[t].kind = "list", Busy(t), AccountsStep(t),
         RevokeAgentKeys(t) => revoking = {}
  PROVE  /\ ListSafe(t)'
         /\ (job'[t].pc = "done" /\ job'[t].answer = 200 => ListGood(t)')
         /\ ~(job'[t].pc = "done" /\ job'[t].answer = 404)
  <1>1. Moved(t) /\ Leaves(t) /\ KindFits(job[t]) /\ ThenFits(job[t]) /\ RefersTo(job[t])
    BY StepMoves, StepLeaves, ThreadFits
  <1>2. job'[t].kind = "list"
    <2>1. ~Request(t)
      BY RequestMoves
    <2> QED BY <1>1, <2>1 DEF Moved
  <1>3. job[t].pc \in {"find", "revokeAgent", "issue", "ensure", "insertDefault", "ensureKey", "rows", "listKey"}
    <2>1. job[t].pc \in JobPlaces \ {"idle", "done"}
      BY ThreadFits DEF JobRows, Busy
    <2> QED BY <1>1, <2>1 DEF JobPlaces, KindFits
  <1>4. CASE Raise(t)
    <2>1. job'[t].pc = "done" /\ job'[t].answer = 500
      BY <1>4, RaiseMoves
    <2> QED BY <2>1 DEF ListSafe, Listing, Busy
  <1>5. CASE job[t].pc \in {"ensure", "insertDefault"} /\ ~Raise(t)
    <2>1. EnsureRows(t) \/ InsertAgent(t)
      BY <1>1, <1>5 DEF Leaves
    <2>2. /\ job'[t].listed = job[t].listed
          /\ job'[t].pc \in {"insertDefault", "ensureKey"} \/ (job[t].pc = "insert" /\ job'[t].pc = "issue")
      <3>1. CASE EnsureRows(t)
        BY <3>1, EnsureRowsMoves DEF Same
      <3>2. CASE InsertAgent(t)
        BY <3>2, InsertAgentMoves DEF Same
      <3> QED BY <2>1, <3>1, <3>2
    <2>3. job[t].listed = {}
      BY <1>5 DEF ListSafe, Listing
    <2> QED BY <1>5, <2>2, <2>3 DEF ListSafe, Listing
  <1>6. CASE job[t].pc = "ensureKey" /\ ~Raise(t)
    <2>1. EnsureKey(t)
      BY <1>1, <1>6 DEF Leaves
    <2>2. /\ job'[t].listed = job[t].listed
          /\ Ensured(t, job[t]) \/ (job'[t].pc = "issue" /\ job'[t].then = "ensured")
      BY <2>1, EnsureKeyMoves DEF Same
    <2>3. Ensured(t, job[t]) => job'[t].pc = "rows"
      BY EnsuredMoves
    <2>4. job[t].listed = {}
      BY <1>6 DEF ListSafe, Listing
    <2> QED BY <2>2, <2>3, <2>4 DEF ListSafe, Listing
  <1>7. CASE job[t].pc = "rows" /\ ~Raise(t)
    <2>1. ListRows(t)
      BY <1>1, <1>7 DEF Leaves
    <2>2. /\ job'[t].listed = job[t].listed /\ job'[t].proj = job[t].proj /\ agents' = agents
          /\ \/ Active(job[t].proj) = {} /\ job'[t].pc = "done" /\ job'[t].answer = 200
             \/ job'[t].rows = Active(job[t].proj) /\ job'[t].pc = "listKey"
      BY <2>1, ListRowsMoves DEF Same, Quiet
    <2>3. job[t].listed = {}
      BY <1>7 DEF ListSafe, Listing
    <2>4. Active(job[t].proj)' = Active(job[t].proj)
      BY <2>2 DEF Active
    <2>5. CASE Active(job[t].proj) = {} /\ job'[t].pc = "done" /\ job'[t].answer = 200
      BY <2>2, <2>3, <2>4, <2>5 DEF ListSafe, Listing, Busy, ListGood
    <2>6. CASE job'[t].rows = Active(job[t].proj) /\ job'[t].pc = "listKey"
      BY <1>2, <2>2, <2>3, <2>4, <2>6 DEF ListSafe, ListParts, Listing
    <2> QED BY <2>2, <2>5, <2>6
  <1>8. CASE job[t].pc = "listKey" /\ ~Raise(t)
    <2>1. ListKey(t) /\ Listing(job[t])
      BY <1>1, <1>8 DEF Leaves, Listing
    <2>2. /\ Quiet
          /\ \/ \E x \in KeysOf(job[t].proj, job[t].agent) : x \in Nat /\ NextListed(t, x)
             \/ job'[t].pc = "find" /\ Same(t, {"agent", "rows", "listed", "proj"})
      BY <2>1, ListKeyMoves DEF Same
    <2>3. CASE \E x \in KeysOf(job[t].proj, job[t].agent) : x \in Nat /\ NextListed(t, x)
      <3>1. PICK x \in KeysOf(job[t].proj, job[t].agent) : x \in Nat /\ NextListed(t, x)
        BY <2>3
      <3>2. keys'[x].st = "active" /\ keys'[x].agent = job[t].agent /\ agents' = agents /\ keys' = keys
        BY <2>2 DEF KeysOf, Quiet, QuietKeys
      <3>3. ListParts(t)' /\ (job'[t].pc = "done" => ListGood(t)')
        BY <2>1, <3>1, <3>2, NextListedGood DEF ListSafe
      <3>4. job'[t].pc = "listKey" \/ (job'[t].pc = "done" /\ job'[t].answer = 200)
        BY <3>1, NextListedMoves
      <3> QED BY <1>2, <3>3, <3>4 DEF ListSafe, Listing, Busy
    <2>4. CASE job'[t].pc = "find" /\ Same(t, {"agent", "rows", "listed", "proj"})
      <3>1. /\ job'[t].agent = job[t].agent /\ job'[t].rows = job[t].rows /\ job'[t].listed = job[t].listed
            /\ job'[t].proj = job[t].proj /\ keys' = keys /\ agents' = agents
        BY <2>2, <2>4 DEF Same, Quiet, QuietKeys
      <3>2. ListParts(t)'
        BY <2>1, <3>1 DEF ListSafe, ListParts, Active
      <3> QED BY <1>2, <2>4, <3>2 DEF ListSafe, Listing
    <2> QED BY <2>2, <2>3, <2>4
  <1>9. CASE job[t].pc = "find" /\ ~Raise(t)
    <2>1. Find(t) /\ Listing(job[t])
      BY <1>1, <1>9 DEF Leaves, Listing
    <2>2. ListParts(t) /\ job[t].agent \in Active(job[t].proj)
      BY <1>1, <2>1 DEF ListSafe, ListParts, RefersTo
    <2>3. /\ job'[t].rows = job[t].rows /\ job'[t].listed = job[t].listed
          /\ job'[t].proj = job[t].proj /\ keys' = keys /\ agents' = agents /\ job'[t].pc = "revokeAgent"
      BY <2>1, <2>2, FindMoves DEF Same, RefFields, Quiet, QuietKeys
    <2>4. ListParts(t)'
      BY <2>2, <2>3 DEF ListParts, Active
    <2> QED BY <1>2, <2>3, <2>4 DEF ListSafe, Listing
  <1>10. CASE job[t].pc = "revokeAgent" /\ ~Raise(t)
    <2>1. RevokeAgentKeys(t) /\ Listing(job[t]) /\ job[t].then = "listKey"
      BY <1>1, <1>10 DEF Leaves, Listing, ThenFits
    <2>2. ListParts(t) /\ job[t].agent \in job[t].rows /\ revoking = {} /\ job[t].listed \subseteq DOMAIN keys
      BY <1>1, <2>1 DEF ListSafe, RefersTo
    <2>3. /\ job'[t].rows = job[t].rows /\ job'[t].listed = job[t].listed /\ job'[t].then = job[t].then
          /\ job'[t].proj = job[t].proj /\ agents' = agents /\ job'[t].pc = "issue"
      BY <2>1, RevokeAgentKeysMoves DEF Same, RefFields
    <2>4. \A x \in DOMAIN keys :
              /\ keys'[x].agent = keys[x].agent
              /\ keys'[x].st = IF x \in KeysOf(job[t].proj, job[t].agent) THEN "revoked" ELSE keys[x].st
      BY <2>1, <2>2, RevokeAgentKeysRows
    <2>5. \A x \in job[t].listed : keys'[x].agent = keys[x].agent /\ keys'[x].st = keys[x].st
      BY <2>2, <2>4 DEF ListParts, KeysOf
    <2>6. Active(job[t].proj)' = Active(job[t].proj)
      BY <2>3 DEF Active
    <2>7. ListParts(t)'
      BY <2>2, <2>3, <2>5, <2>6 DEF ListParts
    <2> QED BY <1>2, <2>1, <2>3, <2>7 DEF ListSafe, Listing
  <1>11. CASE job[t].pc = "issue" /\ ~Raise(t)
    <2>1. Issue(t) /\ job[t].then \in {"ensured", "listKey"}
      BY <1>1, <1>11 DEF Leaves, ThenFits
    <2>2. /\ agents' = agents
          /\ \/ job[t].then = "listKey" /\ NextListed(t, Len(keys) + 1)
             \/ job[t].then = "ensured" /\ Ensured(t, job[t])
      BY <2>1, IssueMoves
    <2>3. CASE job[t].then = "listKey" /\ NextListed(t, Len(keys) + 1)
      <3>1. Listing(job[t])
        BY <1>11, <2>3 DEF Listing
      <3>2. /\ Len(keys) + 1 \in Nat /\ keys'[Len(keys) + 1].agent = job[t].agent
            /\ keys'[Len(keys) + 1].st = "active"
            /\ \A y \in DOMAIN keys : keys'[y] = keys[y]
        BY <2>1, IssueTables
      <3>3. ListParts(t)' /\ (job'[t].pc = "done" => ListGood(t)')
        BY <2>2, <2>3, <3>1, <3>2, NextListedGood DEF ListSafe
      <3>4. job'[t].pc = "listKey" \/ (job'[t].pc = "done" /\ job'[t].answer = 200)
        BY <2>3, <3>2, NextListedMoves
      <3> QED BY <1>2, <3>3, <3>4 DEF ListSafe, Listing, Busy
    <2>4. CASE job[t].then = "ensured" /\ Ensured(t, job[t])
      <3>1. job'[t].pc = "rows" /\ job'[t].listed = job[t].listed
        BY <2>4, EnsuredMoves DEF Same
      <3>2. job[t].listed = {}
        BY <1>11, <2>4 DEF ListSafe, Listing
      <3> QED BY <3>1, <3>2 DEF ListSafe, Listing
    <2> QED BY <2>2, <2>3, <2>4
  <1> QED BY <1>3, <1>4, <1>5, <1>6, <1>7, <1>8, <1>9, <1>10, <1>11

\* A step keeps what list_agents has gathered good, unless another request
\* overlaps.
LEMMA ListsStep ==
  ASSUME FInv, FInv', ListsSafe, NEW t \in Threads, AccountsStep(t)
  PROVE  ListsSafe'
  <1>1. Moved(t)
    BY StepMoves
  <1>2. CASE lagged \/ Raced({"list"}, AccountKinds)
    <2>1. lagged' \/ Raced({"list"}, AccountKinds)'
      BY <1>1, <1>2, RacedStays DEF Moved
    <2> QED BY <2>1 DEF ListsSafe
  <1>3. CASE lagged' \/ Raced({"list"}, AccountKinds)'
    BY <1>3 DEF ListsSafe
  <1>4. CASE /\ ~lagged /\ ~Raced({"list"}, AccountKinds)
             /\ ~lagged' /\ ~Raced({"list"}, AccountKinds)'
    <2>1. \A u \in Threads : ListSafe(u)
      BY <1>4 DEF ListsSafe
    <2>2. ASSUME NEW u \in Threads, u # t PROVE ListSafe(u)'
      <3>1. job'[u] = job[u]
        BY <1>1, <2>2 DEF Moved, Holds
      <3>2. ~(job[u].kind = "list" /\ Busy(u))
        BY <1>4, <2>2, ListAlone
      <3> QED BY <3>1, <3>2 DEF ListSafe, Listing, Busy
    <2>3. ListSafe(t)'
      <3>1. CASE Request(t)
        <4>1. Arrived(job'[t])
          BY <3>1, RequestMoves
        <4> QED BY <4>1 DEF Arrived, ListSafe, Listing
      <3>2. CASE Busy(t) /\ job'[t].kind = job[t].kind /\ job[t].kind # "list"
        BY <3>2 DEF ListSafe, Listing
      <3>3. CASE Busy(t) /\ job[t].kind = "list"
        <4>1. RevokeAgentKeys(t) => revoking = {}
          <5> SUFFICES ASSUME RevokeAgentKeys(t) PROVE revoking = {}
            OBVIOUS
          <5>1. LateRevoke
            BY RevokeAgentKeysMoves
          <5> QED BY <1>4, <3>3, <5>1 DEF LateRevoke
        <4> QED BY <2>1, <3>3, <4>1, ListWork
      <3> QED BY <1>1, <3>1, <3>2, <3>3 DEF Moved
    <2> QED BY <2>2, <2>3 DEF ListsSafe
  <1> QED BY <1>2, <1>3, <1>4

\* So does the end of a revocation, unless it is late for a list.
LEMMA ListsBackground ==
  ASSUME FInv, ListsSafe, job' = job, Counts, agents' = agents, lagged => lagged', QuietKeys \/ RevokeApplied
  PROVE  ListsSafe'
  <1>1. Raced({"list"}, AccountKinds)' = Raced({"list"}, AccountKinds)
    BY DEF Raced, Counts
  <1>2. CASE lagged \/ Raced({"list"}, AccountKinds) \/ lagged'
    BY <1>1, <1>2 DEF ListsSafe
  <1>3. CASE ~lagged /\ ~Raced({"list"}, AccountKinds) /\ ~lagged'
    <2>1. \A u \in Threads : ListSafe(u)
      BY <1>3 DEF ListsSafe
    <2>2. CASE QuietKeys
      BY <2>1, <2>2 DEF ListsSafe, ListSafe, ListParts, Listing, Active, QuietKeys, Busy
    <2>3. CASE RevokeApplied
      <3>1. revoking # {} /\ LateRevoke
        BY <2>3, RevokeAppliedMoves
      <3>2. \A u \in Threads : ~(Busy(u) /\ job[u].kind = "list")
        BY <1>3, <3>1 DEF LateRevoke
      <3> QED BY <3>2 DEF ListsSafe, ListSafe, Listing, Busy
    <2> QED BY <2>2, <2>3
  <1> QED BY <1>2, <1>3

\* The keys list_agents answers with work, and they are one for every active
\* agent, for any number of agents, keys, threads and errors: unless another
\* request or the end of a revocation overlapped.
THEOREM AccountsListedKeysWork == AccountsSpec => ListedKeysWork
  <1> DEFINE Inv == FInv /\ ListsSafe
             Act == \A t \in Threads :
                      \/ (Answers(t, "list", 200) => ListGood(t)') /\ ~Answers(t, "list", 404)
                      \/ Raced({"list"}, AccountKinds) \/ lagged
  <1>1. AccountsInit => Inv
    <2> SUFFICES ASSUME AccountsInit PROVE Inv
      OBVIOUS
    <2>1. \A u \in Threads : job[u].pc = "idle"
      BY DEF AccountsInit, Idle
    <2>2. ListsSafe
      BY <2>1 DEF ListsSafe, ListSafe, Listing, Busy
    <2> QED BY <2>2, InitFInv
  <1>2. Inv /\ [AccountsNext]_accountVars => Inv' /\ [Act]_accountVars
    <2> SUFFICES ASSUME Inv, [AccountsNext]_accountVars PROVE Inv' /\ [Act]_accountVars
      OBVIOUS
    <2>1. FInv'
      BY NextFInv
    <2>2. ASSUME NEW t \in Threads, AccountsStep(t) PROVE ListsSafe' /\ Act
      <3>1. ListsSafe'
        BY <2>1, <2>2, ListsStep
      <3>2. ASSUME NEW u \in Threads, ~Raced({"list"}, AccountKinds), ~lagged
            PROVE  (Answers(u, "list", 200) => ListGood(u)') /\ ~Answers(u, "list", 404)
        <4>1. Moved(t)
          BY <2>2, StepMoves
        <4>2. CASE u # t
          <5>1. job'[u] = job[u]
            BY <4>1, <4>2 DEF Moved, Holds
          <5> QED BY <5>1 DEF Answers
        <4>3. CASE u = t /\ Request(t)
          <5>1. Arrived(job'[t])
            BY <4>3, RequestMoves
          <5> QED BY <4>3, <5>1 DEF Answers, Arrived
        <4>4. CASE u = t /\ Busy(t) /\ job'[t].kind = job[t].kind
          <5> SUFFICES ASSUME job'[t].pc = "done", job[t].kind = "list"
                       PROVE  (job'[t].answer = 200 => ListGood(t)') /\ job'[t].answer # 404
            BY <4>4 DEF Answers
          <5>1. ListSafe(t)
            BY <3>2 DEF ListsSafe
          <5>2. ~RevokeAgentKeys(t)
            BY RevokeAgentKeysMoves
          <5> QED BY <2>1, <2>2, <4>4, <5>1, <5>2, ListWork
        <4> QED BY <4>1, <4>2, <4>3, <4>4 DEF Moved
      <3> QED BY <3>1, <3>2
    <2>3. CASE RevokeApplied \/ CodeMutationApplied \/ Tick \/ UNCHANGED accountVars
      <3>1. /\ job' = job /\ Counts /\ agents' = agents /\ (lagged => lagged') /\ (QuietKeys \/ RevokeApplied)
        BY <2>3, BackgroundMoves
      <3>2. ListsSafe'
        BY <3>1, ListsBackground
      <3>3. Act
        BY <3>1 DEF Answers
      <3> QED BY <2>1, <3>2, <3>3
    <2> QED BY <2>1, <2>2, <2>3 DEF AccountsNext
  <1> QED BY <1>1, <1>2, PTL DEF AccountsSpec, ListedKeysWork

-----------------------------------------------------------------------------
(* authenticate_api_key *)

\* A request with a key leaves the project's agents to itself.
LEMMA AuthKeepsAgents ==
  ASSUME FInv, IngestClean, NEW t \in Threads, AccountsStep(t), NEW u \in Threads, u # t,
         job[u].kind = "auth", Busy(u)
  PROVE  agents' = agents
  <1>1. Touches(t)
    BY StepTouches
  <1>2. job[u].kind \in {"auth"} /\ ~Raced({"auth"}, Namers \cup {"delete"})
    BY DEF IngestClean
  <1>3. ASSUME job[t].kind \in Namers \cup {"delete"}, Busy(t) PROVE FALSE
    BY <1>2, <1>3, RacedWhen
  <1>4. CASE InsertAgent(t)
    <2>1. job[t].pc \in {"insert", "insertDefault"}
      BY <1>4, InsertAgentMoves
    <2> QED BY <1>3, <2>1, NamerKinds
  <1>5. CASE Rename(t)
    <2>1. job[t].pc = "rename"
      BY <1>5, RenameMoves
    <2> QED BY <1>3, <2>1, NamerKinds
  <1>6. CASE MarkDeleted(t)
    <2>1. job[t].pc = "mark"
      BY <1>6, MarkDeletedMoves
    <2>2. job[t].kind = "delete" /\ Busy(t)
      BY <2>1, ThreadFits DEF KindFits, Busy
    <2> QED BY <1>3, <2>2
  <1> QED BY <1>1, <1>4, <1>5, <1>6 DEF Touches

\* An active key is that of an active agent or of none.
LEMMA ActiveKeyAgent ==
  ASSUME FInv, DeletedKeyRefused, IngestClean, NEW t \in Threads, job[t].kind = "auth", Busy(t),
         NEW x \in DOMAIN keys, keys[x].st = "active", keys[x].agent # 0
  PROVE  agents[keys[x].agent].st = "active"
  <1>1. SUFFICES ASSUME agents[keys[x].agent].st # "active" PROVE FALSE
    OBVIOUS
  <1>2. keys[x].agent \in DOMAIN agents
    BY KeyPlaces
  <1>3. agents[keys[x].agent] \in AgentRows
    BY <1>2 DEF FInv, RowTypes
  <1>4. agents[keys[x].agent].st = "deleted"
    BY <1>1, <1>3 DEF AgentRows
  <1>5. PICK u \in Threads : job[u].kind = "delete" /\ job[u].pc = "revokeAgent"
    BY <1>4 DEF DeletedKeyRefused, IngestClean
  <1>6. job[u].kind \in Namers \cup {"delete"} /\ job[t].kind \in {"auth"} /\ Busy(u) /\ u # t
    BY <1>5 DEF Busy
  <1>7. Raced({"auth"}, Namers \cup {"delete"})
    BY <1>6, RacedWhen
  <1> QED BY <1>7 DEF IngestClean

\* ensure_default_agent has ended, with the default agent of the project.
LEMMA EnsuredName ==
  ASSUME FInv, NEW t \in Threads, job[t].kind = "auth", Ensured(t, job[t]),
         OwnAgent(job[t]), agents' = agents, agents[job[t].agent].st = "active",
         agents[job[t].agent].name = job[t].name, keys'[job[t].key].agent = 0
  PROVE  job'[t].pc = "done" /\ NameGood(t)'
  <1>1. /\ job'[t].pc = "done" /\ job'[t].proj = job[t].proj /\ job'[t].agent = job[t].agent
        /\ job'[t].name = job[t].name /\ job'[t].key = job[t].key
    BY EnsuredMoves DEF Same
  <1>2. job[t].agent \in Active(job[t].proj)'
    BY <1>1 DEF Active, OwnAgent
  <1> QED BY <1>1, <1>2 DEF NameGood

\* A step of a request with a key leads to the right agent, under its name.
LEMMA AuthWork ==
  ASSUME FInv, FInv', DeletedKeyRefused, IngestClean, NEW t \in Threads, AuthSafe(t), job[t].kind = "auth",
         Busy(t), AccountsStep(t)
  PROVE  AuthSafe(t)' /\ (job'[t].pc = "done" /\ job'[t].answer = 200 => NameGood(t)')
  <1>1. Leaves(t) /\ KindFits(job[t]) /\ ThenFits(job[t]) /\ RefersTo(job[t])
    BY StepLeaves, ThreadFits
  <1>2. job[t].pc \in {"issue", "ensure", "insertDefault", "ensureKey", "authKey", "authAgent"}
    <2>1. job[t].pc \in JobPlaces \ {"idle", "done"}
      BY ThreadFits DEF JobRows, Busy
    <2> QED BY <1>1, <2>1 DEF JobPlaces, KindFits
  <1>3. CASE Raise(t)
    <2>1. job'[t].pc = "done" /\ job'[t].answer = 500
      BY <1>3, RaiseMoves
    <2> QED BY <2>1 DEF AuthSafe
  <1>4. CASE job[t].pc = "authKey" /\ ~Raise(t)
    <2>1. AuthKey(t)
      BY <1>1, <1>4 DEF Leaves
    <2>2. /\ agents' = agents /\ keys' = keys /\ job'[t].key = job[t].key
          /\ \/ job'[t].pc = "done" /\ job'[t].answer = 401
             \/ /\ job[t].key \in DOMAIN keys /\ keys[job[t].key].st = "active"
                /\ job'[t].pc = "authAgent"
      BY <2>1, AuthKeyMoves DEF Same, Quiet, QuietKeys
    <2>3. CASE job'[t].pc = "done" /\ job'[t].answer = 401
      BY <2>3 DEF AuthSafe
    <2>4. CASE /\ job[t].key \in DOMAIN keys /\ keys[job[t].key].st = "active"
               /\ job'[t].pc = "authAgent"
      <3>1. keys[job[t].key].agent # 0 => agents[keys[job[t].key].agent].st = "active"
        BY <2>4, ActiveKeyAgent
      <3> QED BY <2>2, <2>4, <3>1 DEF AuthSafe
    <2> QED BY <2>2, <2>3, <2>4
  <1>5. CASE job[t].pc = "authAgent" /\ ~Raise(t)
    <2>1. AuthAgent(t)
      BY <1>1, <1>5 DEF Leaves
    <2>2. /\ agents' = agents /\ keys' = keys /\ job'[t].key = job[t].key /\ job'[t].proj = job[t].proj
          /\ \/ keys[job[t].key].agent = 0 /\ job'[t].pc = "ensure"
             \/ /\ keys[job[t].key].agent # 0 /\ job'[t].pc = "done" /\ job'[t].answer = 200
                /\ job'[t].agent = keys[job[t].key].agent
                /\ job'[t].agent \in Active(job[t].proj) => job'[t].name = agents[job'[t].agent].name
      BY <2>1, AuthAgentMoves DEF Same, Quiet, QuietKeys
    <2>3. job[t].key \in DOMAIN keys /\ keys[job[t].key].proj = job[t].proj
      BY <1>1, <1>5 DEF RefersTo
    <2>4. CASE keys[job[t].key].agent = 0 /\ job'[t].pc = "ensure"
      BY <2>2, <2>3, <2>4 DEF AuthSafe
    <2>5. CASE keys[job[t].key].agent # 0 /\ job'[t].pc = "done"
      <3> DEFINE a == keys[job[t].key].agent
      <3>1. a \in DOMAIN agents /\ agents[a].proj = job[t].proj /\ agents[a].st = "active"
        BY <1>5, <2>3, <2>5, KeyPlaces DEF AuthSafe
      <3>2. a \in Active(job[t].proj)
        BY <3>1 DEF Active
      <3>3. a \in Active(job[t].proj)' /\ agents'[a].name = job'[t].name /\ keys'[job'[t].key].agent = a
        BY <2>2, <2>5, <3>2 DEF Active
      <3>4. NameGood(t)'
        BY <3>3 DEF NameGood
      <3> QED BY <2>5, <3>4 DEF AuthSafe
    <2> QED BY <2>2, <2>4, <2>5
  <1>6. CASE job[t].pc = "ensure" /\ ~Raise(t)
    <2>1. EnsureRows(t)
      BY <1>1, <1>6 DEF Leaves
    <2>2. /\ agents' = agents /\ keys' = keys /\ job'[t].key = job[t].key
          /\ \/ job'[t].pc = "insertDefault"
             \/ /\ job'[t].agent \in Active(job[t].proj)
                /\ job'[t].pc = "ensureKey" /\ job'[t].name = agents[job'[t].agent].name
      BY <2>1, EnsureRowsMoves DEF Same, Quiet, QuietKeys
    <2>3. job[t].key \in DOMAIN keys /\ keys[job[t].key].agent = 0
      BY <1>6 DEF AuthSafe
    <2> QED BY <2>2, <2>3 DEF AuthSafe, Active
  <1>7. CASE job[t].pc = "insertDefault" /\ ~Raise(t)
    <2>1. InsertAgent(t)
      BY <1>1, <1>7 DEF Leaves
    <2>2. /\ keys' = keys /\ job'[t].key = job[t].key /\ job'[t].name = job[t].name
          /\ job'[t].agent = Len(agents) + 1 /\ job'[t].pc = "ensureKey"
      BY <1>7, <2>1, InsertAgentMoves DEF Same, QuietKeys
    <2>3. agents'[Len(agents) + 1].name = job[t].name /\ agents'[Len(agents) + 1].st = "active"
      BY <2>1, InsertAgentRows
    <2>4. job[t].key \in DOMAIN keys /\ keys[job[t].key].agent = 0
      BY <1>7 DEF AuthSafe
    <2> QED BY <2>2, <2>3, <2>4 DEF AuthSafe
  <1>8. CASE job[t].pc = "ensureKey" /\ ~Raise(t)
    <2>1. EnsureKey(t)
      BY <1>1, <1>8 DEF Leaves
    <2>2. /\ agents' = agents /\ keys' = keys /\ job'[t].key = job[t].key /\ job'[t].agent = job[t].agent
          /\ job'[t].name = job[t].name
          /\ Ensured(t, job[t]) \/ job'[t].pc = "issue"
      BY <2>1, EnsureKeyMoves DEF Same, Quiet, QuietKeys
    <2>3. /\ job[t].key \in DOMAIN keys /\ keys[job[t].key].agent = 0 /\ OwnAgent(job[t])
          /\ agents[job[t].agent].st = "active" /\ agents[job[t].agent].name = job[t].name
      BY <1>1, <1>8 DEF AuthSafe, RefersTo
    <2>4. CASE Ensured(t, job[t])
      <3>1. job'[t].pc = "done" /\ NameGood(t)'
        BY <2>2, <2>3, <2>4, EnsuredName
      <3> QED BY <3>1 DEF AuthSafe
    <2>5. CASE job'[t].pc = "issue"
      BY <2>2, <2>3, <2>5 DEF AuthSafe
    <2> QED BY <2>2, <2>4, <2>5
  <1>9. CASE job[t].pc = "issue" /\ ~Raise(t)
    <2>1. Issue(t) /\ job[t].then = "ensured"
      BY <1>1, <1>9 DEF Leaves, ThenFits
    <2>2. agents' = agents /\ Ensured(t, job[t])
      BY <2>1, IssueMoves
    <2>3. /\ job[t].key \in DOMAIN keys /\ keys[job[t].key].agent = 0 /\ OwnAgent(job[t])
          /\ agents[job[t].agent].st = "active" /\ agents[job[t].agent].name = job[t].name
      BY <1>1, <1>9, <2>1 DEF AuthSafe, RefersTo
    <2>4. keys'[job[t].key].agent = 0
      BY <2>3, KeyRowsKept
    <2>5. job'[t].pc = "done" /\ NameGood(t)'
      BY <2>2, <2>3, <2>4, EnsuredName
    <2> QED BY <2>5 DEF AuthSafe
  <1> QED BY <1>2, <1>3, <1>4, <1>5, <1>6, <1>7, <1>8, <1>9

\* A step keeps what requests with a key have found out, unless a request that
\* names or deletes agents overlaps.
LEMMA AuthStep ==
  ASSUME FInv, FInv', DeletedKeyRefused, AuthsSafe, NEW t \in Threads, AccountsStep(t)
  PROVE  AuthsSafe'
  <1>1. Moved(t)
    BY StepMoves
  <1>2. SUFFICES ASSUME IngestClean', NEW u \in Threads PROVE AuthSafe(u)'
    BY DEF AuthsSafe
  <1>3. IngestClean
    <2>1. faults \in Nat /\ faults' \in {faults, faults + 1}
      BY <1>1 DEF Moved, FInv, RowTypes
    <2>2. faults' = 0 => faults = 0
      BY <2>1
    <2>3. faults' = 0 /\ faults \in Nat
      BY <1>2, <2>1 DEF IngestClean
    <2>4. \A K, L : Raced(K, L) => Raced(K, L)'
      BY <1>1 DEF Moved, Raced
    <2> QED BY <1>2, <2>2, <2>3, <2>4 DEF IngestClean
  <1>4. AuthSafe(u)
    BY <1>3 DEF AuthsSafe
  <1>5. CASE u # t
    <2>1. job'[u] = job[u]
      BY <1>1, <1>5 DEF Moved, Holds
    <2>2. CASE job[u].kind = "auth" /\ Busy(u)
      <3>1. agents' = agents
        BY <1>3, <1>5, <2>2, AuthKeepsAgents
      <3>2. job[u].pc = "authAgent" => job[u].key \in DOMAIN keys
        BY ThreadFits DEF RefersTo
      <3>3. \A x \in DOMAIN keys : x \in DOMAIN keys' /\ keys'[x].agent = keys[x].agent
        BY KeyRowsKept
      <3> QED BY <1>4, <2>1, <3>1, <3>2, <3>3 DEF AuthSafe
    <2>3. CASE ~(job[u].kind = "auth" /\ Busy(u))
      BY <2>1, <2>3 DEF AuthSafe, Busy
    <2> QED BY <2>2, <2>3
  <1>6. CASE u = t /\ Request(t)
    <2>1. Arrived(job'[t])
      BY <1>6, RequestMoves
    <2> QED BY <1>6, <2>1 DEF Arrived, AuthSafe
  <1>7. CASE u = t /\ Busy(t) /\ job'[t].kind = job[t].kind
    <2>1. CASE job[t].kind = "auth"
      BY <1>3, <1>4, <1>7, <2>1, AuthWork
    <2>2. CASE job[t].kind # "auth"
      BY <1>7, <2>2 DEF AuthSafe
    <2> QED BY <2>1, <2>2
  <1> QED BY <1>1, <1>5, <1>6, <1>7 DEF Moved

\* Applying mutations and time leave it alone.
LEMMA AuthBackground ==
  ASSUME FInv, AuthsSafe, job' = job, Counts, agents' = agents, QuietKeys \/ RevokeApplied
  PROVE  AuthsSafe'
  <1>1. IngestClean' = IngestClean
    BY DEF IngestClean, Raced, Counts
  <1>2. DOMAIN keys' = DOMAIN keys /\ \A x \in DOMAIN keys : keys'[x].agent = keys[x].agent
    BY RevokeAppliedMoves DEF QuietKeys
  <1>3. SUFFICES ASSUME IngestClean, NEW u \in Threads PROVE AuthSafe(u)'
    BY <1>1 DEF AuthsSafe
  <1>4. AuthSafe(u) /\ (job[u].pc = "authAgent" => job[u].key \in DOMAIN keys)
    BY <1>3, ThreadFits DEF AuthsSafe, RefersTo
  <1> QED BY <1>2, <1>4 DEF AuthSafe

\* Data is stored under the name of the agent whose key came with it, or of the
\* project's default agent for a key without one, for any number of agents and
\* keys: unless a request that names or deletes agents overlapped or a delete
\* had failed halfway.
THEOREM AccountsIngestUnderOwnName == AccountsSpec => IngestUnderOwnName
  <1> DEFINE Inv == FInv /\ KeysInv /\ AuthsSafe
             Act == \A t \in Threads :
                      Answers(t, "auth", 200) =>
                        \/ NameGood(t)'
                        \/ Raced({"auth"}, Namers \cup {"delete"}) \/ Raced({"delete"}, Issuers) \/ faults > 0
  <1>1. AccountsInit => Inv
    <2> SUFFICES ASSUME AccountsInit PROVE Inv
      OBVIOUS
    <2>1. \A u \in Threads : job[u].pc = "idle"
      BY DEF AccountsInit, Idle
    <2>2. AuthsSafe
      BY <2>1 DEF AuthsSafe, AuthSafe
    <2> QED BY <2>2, InitFInv, KeysInit
  <1>2. Inv /\ [AccountsNext]_accountVars => Inv' /\ [Act]_accountVars
    <2> SUFFICES ASSUME Inv, [AccountsNext]_accountVars PROVE Inv' /\ [Act]_accountVars
      OBVIOUS
    <2>1. FInv' /\ KeysInv'
      BY KeysStep
    <2>2. ASSUME NEW t \in Threads, AccountsStep(t) PROVE AuthsSafe' /\ Act
      <3>0. DeletedKeyRefused
        BY DEF KeysInv
      <3>1. AuthsSafe'
        BY <2>1, <2>2, <3>0, AuthStep
      <3>2. ASSUME NEW u \in Threads, Answers(u, "auth", 200), IngestClean
            PROVE  NameGood(u)'
        <4>1. Moved(t)
          BY <2>2, StepMoves
        <4>2. CASE u # t
          <5>1. job'[u] = job[u]
            BY <4>1, <4>2 DEF Moved, Holds
          <5> QED BY <3>2, <5>1 DEF Answers
        <4>3. CASE u = t /\ Request(t)
          <5>1. Arrived(job'[t])
            BY <4>3, RequestMoves
          <5> QED BY <3>2, <4>3, <5>1 DEF Answers, Arrived
        <4>4. CASE u = t /\ Busy(t) /\ job'[t].kind = job[t].kind
          <5>1. job'[t].pc = "done" /\ job[t].kind = "auth" /\ job'[t].answer = 200
            BY <3>2, <4>4 DEF Answers
          <5>2. AuthSafe(t)
            BY <3>2 DEF AuthsSafe
          <5> QED BY <2>1, <2>2, <3>0, <3>2, <4>4, <5>1, <5>2, AuthWork
        <4> QED BY <4>1, <4>2, <4>3, <4>4 DEF Moved
      <3>3. Act
        BY <3>2 DEF IngestClean
      <3> QED BY <3>1, <3>3
    <2>3. CASE RevokeApplied \/ CodeMutationApplied \/ Tick \/ UNCHANGED accountVars
      <3>1. /\ job' = job /\ Counts /\ agents' = agents /\ (QuietKeys \/ RevokeApplied)
        BY <2>3, BackgroundMoves
      <3>2. AuthsSafe'
        BY <3>1, AuthBackground
      <3>3. Act
        BY <3>1 DEF Answers
      <3> QED BY <2>1, <3>2, <3>3
    <2> QED BY <2>1, <2>2, <2>3 DEF AccountsNext
  <1> QED BY <1>1, <1>2, PTL DEF AccountsSpec, IngestUnderOwnName

-----------------------------------------------------------------------------
(* login_with_phone_code *)

\* The places of a login from latest_user_by_phone on.
HomePlaces == HasProject \cup {"insertUser", "projects", "insertProject"}

\* Where logins and requests for a code are all there is, only a login is there.
LEMMA HomeKinds ==
  ASSUME FInv, LoginSide, clients = LoginKinds, NEW t \in Threads, job[t].pc \in HomePlaces
  PROVE  job[t].kind \in {"login"} /\ Busy(t)
  <1>1. KindFits(job[t]) /\ job[t].kind \in LoginKinds \cup {"none"}
    BY ThreadFits DEF LoginSide
  <1> QED BY <1>1 DEF KindFits, LoginKinds, HomePlaces, HasProject, Busy

\* What only the other kinds of request do.
LEMMA LoginsOnly ==
  ASSUME FInv, LoginSide, clients = LoginKinds, NEW t \in Threads
  PROVE  /\ ~MarkDeleted(t) /\ ~Rename(t) /\ ~RevokeAgentKeys(t) /\ ~RevokeProjectKeys(t)
         /\ ~RevokeKey(t) /\ ~AuthKey(t)
  <1>1. KindFits(job[t]) /\ job[t].kind \in LoginKinds \cup {"none"}
    BY ThreadFits DEF LoginSide
  <1>2. job[t].pc \notin {"mark", "rename", "revokeAgent", "revokeProject", "revokeKey", "authKey"}
    BY <1>1 DEF KindFits, LoginKinds
  <1>3. ~MarkDeleted(t) /\ ~Rename(t)
    BY <1>2, MarkDeletedMoves, RenameMoves
  <1>4. ~RevokeAgentKeys(t) /\ ~RevokeProjectKeys(t) /\ ~RevokeKey(t)
    BY <1>2, RevokeAgentKeysMoves, RevokeProjectKeysMoves, RevokeKeyMoves
  <1>5. ~AuthKey(t)
    BY <1>2, AuthKeyMoves
  <1> QED BY <1>3, <1>4, <1>5

\* A step leaves agents active and keys good where nobody deletes or revokes.
LEMMA LoginSideStep ==
  ASSUME FInv, LoginSide, NEW t \in Threads, AccountsStep(t)
  PROVE  LoginSide'
  <1>1. Moved(t) /\ Touches(t)
    BY StepMoves, StepTouches
  <1>2. ASSUME NEW u \in Threads PROVE job'[u].kind \in clients' \cup {"none"}
    <2>1. job[u].kind \in clients \cup {"none"} /\ clients' = clients
      BY <1>1 DEF LoginSide, Moved
    <2>2. u # t => job'[u] = job[u]
      BY <1>1 DEF Moved, Holds
    <2>3. Request(t) => job'[t].kind \in clients
      BY RequestMoves
    <2> QED BY <1>1, <2>1, <2>2, <2>3 DEF Moved
  <1>3. SUFFICES ASSUME clients = LoginKinds
                 PROVE  /\ revoking' = {}
                        /\ \A x \in DOMAIN keys' : keys'[x].st = "active"
                        /\ \A a \in DOMAIN agents' : agents'[a].st = "active"
    BY <1>1, <1>2 DEF LoginSide, Moved
  <1>4. /\ agents' = agents \/ InsertAgent(t)
        /\ QuietKeys \/ Issue(t)
    BY <1>1, <1>3, LoginsOnly DEF Touches
  <1>5. /\ revoking = {} /\ (\A x \in DOMAIN keys : keys[x].st = "active")
        /\ \A a \in DOMAIN agents : agents[a].st = "active"
    BY <1>3 DEF LoginSide
  <1>6. \A a \in DOMAIN agents' : agents'[a].st = "active"
    <2>1. CASE InsertAgent(t)
      BY <1>5, <2>1, InsertAgentRows
    <2> QED BY <1>4, <1>5, <2>1
  <1>7. revoking' = {} /\ \A x \in DOMAIN keys' : keys'[x].st = "active"
    <2>1. CASE Issue(t)
      <3>1. revoking' = revoking
        BY <2>1, IssueMoves
      <3>2. /\ DOMAIN keys' = 1..(Len(keys) + 1) /\ DOMAIN keys = 1..Len(keys) /\ Len(keys) \in Nat
            /\ keys'[Len(keys) + 1].st = "active" /\ \A x \in DOMAIN keys : keys'[x] = keys[x]
        BY <2>1, IssueTables
      <3>3. ASSUME NEW x \in DOMAIN keys' PROVE keys'[x].st = "active"
        <4>1. x \in DOMAIN keys \/ x = Len(keys) + 1
          BY <3>2
        <4> QED BY <1>5, <3>2, <4>1
      <3> QED BY <1>5, <3>1, <3>3
    <2> QED BY <1>4, <1>5, <2>1 DEF QuietKeys
  <1> QED BY <1>6, <1>7

\* The steps that make a user or a project, and those that go by what they read.
LEMMA HomeStep ==
  ASSUME FInv, LoginSide, clients = LoginKinds, NEW t \in Threads, AccountsStep(t),
         users <= 1, Len(projects) <= 1, LoginSafe(t)
  PROVE  /\ users' <= 1 /\ Len(projects') <= 1 /\ LoginSafe(t)'
         /\ \/ users' = users /\ projects' = projects
            \/ job[t].pc \in {"insertUser", "insertProject"}
  <1>1. Moved(t) /\ Touches(t) /\ Leads(t)
    BY StepMoves, StepTouches, StepLeads
  <1>2. users \in Nat /\ projects \in Seq(Nat)
    BY DEF FInv, RowTypes
  <1>3. CASE InsertUser(t)
    <2>1. /\ job[t].pc = "insertUser" /\ users' = users + 1 /\ projects' = projects
          /\ job'[t].pc = "projects"
      BY <1>3, InsertUserMoves
    <2>2. users = 0
      BY <2>1 DEF LoginSafe
    <2> QED BY <2>1, <2>2 DEF LoginSafe, HasProject
  <1>4. CASE InsertProjectRow(t)
    <2>1. /\ job[t].pc = "insertProject" /\ users' = users /\ projects' = Append(projects, job[t].key)
          /\ job'[t].pc = "issue"
      BY <1>4, InsertProjectRowMoves
    <2>2. users = 1 /\ projects = <<>>
      BY <2>1 DEF LoginSafe
    <2>3. Len(projects') = 1
      BY <2>1, <2>2
    <2> QED BY <2>1, <2>2, <2>3 DEF LoginSafe
  <1>5. CASE ~InsertUser(t) /\ ~InsertProjectRow(t)
    <2>1. users' = users /\ projects' = projects
      BY <1>1, <1>5 DEF Touches
    <2>2. job'[t].pc = "insertUser" => users = 0
      <3>1. ReadUser(t) => (job'[t].pc = "insertUser" => users = 0)
        BY ReadUserMoves
      <3> QED BY <1>1, <3>1 DEF Leads
    <2>3. job'[t].pc = "projects" => users = 1
      <3>1. ReadUser(t) => (job'[t].pc = "projects" => users # 0)
        BY ReadUserMoves
      <3>2. job'[t].pc = "projects" => users # 0
        BY <1>1, <1>5, <3>1 DEF Leads
      <3> QED BY <1>2, <3>2
    <2>4. job'[t].pc = "insertProject" => users = 1 /\ projects = <<>>
      <3>1. SUFFICES ASSUME job'[t].pc = "insertProject" PROVE users = 1 /\ projects = <<>>
        OBVIOUS
      <3>2. job[t].pc = "projects" /\ \A p \in DOMAIN projects : projects[p] # job[t].key
        BY <1>1, <3>1, ReadProjectsMoves DEF Leads
      <3>3. users = 1 /\ job[t].key \in 1..users
        BY <3>2, ThreadFits DEF LoginSafe, RefersTo
      <3>4. \A p \in DOMAIN projects : projects[p] \in 1..users
        BY DEF FInv, RowRefs
      <3>5. DOMAIN projects = {}
        BY <3>2, <3>3, <3>4
      <3> QED BY <1>2, <3>3, <3>5
    <2>5. job'[t].pc \in HasProject => users = 1 /\ Len(projects) = 1
      <3>1. SUFFICES ASSUME job'[t].pc \in HasProject PROVE users = 1 /\ Len(projects) = 1
        OBVIOUS
      <3>2. job[t].pc \in HasProject \/ Request(t) \/ ReadProjects(t)
        BY <1>1, <1>5, <3>1, LoginsOnly DEF Leads
      <3>3. CASE job[t].pc \in HasProject
        BY <3>3 DEF LoginSafe
      <3>4. CASE Request(t)
        <4>1. job'[t].kind \in LoginKinds /\ Arrived(job'[t])
          BY <3>4, RequestMoves
        <4> QED BY <3>1, <4>1 DEF LoginKinds, Arrived, HasProject
      <3>5. CASE ReadProjects(t)
        <4>1. /\ job[t].pc = "projects"
              /\ \/ job'[t].pc = "insertProject"
                 \/ job'[t].proj \in job'[t].rows /\ job'[t].rows \subseteq DOMAIN projects
          BY <3>5, ReadProjectsMoves
        <4>2. DOMAIN projects # {}
          BY <3>1, <4>1 DEF HasProject
        <4>3. Len(projects) # 0
          BY <1>2, <4>2
        <4>4. users = 1
          BY <4>1 DEF LoginSafe
        <4>5. PICK n \in Nat : n = Len(projects)
          BY <1>2
        <4>6. n = 1
          BY <4>3, <4>5
        <4> QED BY <4>4, <4>5, <4>6
      <3> QED BY <3>2, <3>3, <3>4, <3>5
    <2> QED BY <2>1, <2>2, <2>3, <2>4, <2>5 DEF LoginSafe
  <1> QED BY <1>3, <1>4, <1>5

\* A step keeps to one user and one project, unless two logins overlap.
LEMMA LoginsStep ==
  ASSUME FInv, LoginSide, LoginsSafe, NEW t \in Threads, AccountsStep(t)
  PROVE  LoginsSafe'
  <1>1. Moved(t)
    BY StepMoves
  <1>2. SUFFICES ASSUME clients = LoginKinds, ~Raced({"login"}, {"login"})
                 PROVE  users' <= 1 /\ Len(projects') <= 1 /\ \A u \in Threads : LoginSafe(u)'
    <2>1. clients' = clients /\ raced \subseteq raced'
      BY <1>1 DEF Moved
    <2> QED BY <2>1, RacedStays DEF LoginsSafe
  <1>3. users <= 1 /\ Len(projects) <= 1 /\ \A u \in Threads : LoginSafe(u)
    BY <1>2 DEF LoginsSafe
  <1>4. /\ users' <= 1 /\ Len(projects') <= 1 /\ LoginSafe(t)'
        /\ \/ users' = users /\ projects' = projects
           \/ job[t].pc \in {"insertUser", "insertProject"}
    BY <1>2, <1>3, HomeStep
  <1>5. ASSUME NEW u \in Threads, u # t PROVE LoginSafe(u)'
    <2>1. job'[u] = job[u] /\ LoginSafe(u)
      BY <1>1, <1>3, <1>5 DEF Moved, Holds
    <2>2. CASE users' = users /\ projects' = projects
      BY <2>1, <2>2 DEF LoginSafe
    <2>3. CASE job[t].pc \in {"insertUser", "insertProject"}
      <3>1. job[t].kind \in {"login"} /\ Busy(t)
        BY <1>2, <2>3, HomeKinds DEF HomePlaces
      <3>2. job[u].pc \notin HomePlaces
        BY <1>2, <1>5, <3>1, HomeKinds, RacedWhen
      <3> QED BY <2>1, <3>2 DEF LoginSafe, HomePlaces
    <2> QED BY <1>4, <2>2, <2>3
  <1> QED BY <1>4, <1>5

\* The statements of the background leave users, projects and agents alone.
LEMMA LoginsBackground ==
  ASSUME FInv, LoginSide, LoginsSafe, job' = job, Counts, agents' = agents, users' = users,
         projects' = projects, QuietKeys \/ RevokeApplied
  PROVE  LoginSide' /\ LoginsSafe'
  <1>1. clients = LoginKinds => QuietKeys
    <2>1. RevokeApplied => \E y \in revoking : TRUE
      BY RevokeAppliedMoves
    <2> QED BY <2>1 DEF LoginSide
  <1>2. LoginSide'
    BY <1>1 DEF LoginSide, Counts, QuietKeys
  <1>3. LoginsSafe'
    BY DEF LoginsSafe, LoginSafe, Raced, Counts
  <1> QED BY <1>2, <1>3

\* The login that answers has an agent with a key.
LEMMA LoginAnswers ==
  ASSUME FInv, FInv', LoginSide, LoginSide', LoginsSafe, clients = LoginKinds, ~Raced({"login"}, {"login"}),
         NEW t \in Threads, AccountsStep(t), job[t].kind = "login", job'[t].kind = "login",
         job'[t].pc = "done", job'[t].answer = 200
  PROVE  HomeGood'
  <1>1. EnsureKey(t) \/ Issue(t)
    BY StepAnswers
  <1>2. /\ job[t].pc \in {"ensureKey", "issue"} /\ QuietLogins /\ agents' = agents
        /\ EnsureKey(t) => job[t].pc = "ensureKey" /\ QuietKeys
        /\ Issue(t) => job[t].pc = "issue"
    BY <1>1, EnsureKeyMoves, IssueMoves DEF Quiet
  <1>3. users = 1 /\ Len(projects) = 1
    BY <1>2 DEF LoginsSafe, LoginSafe, HasProject
  <1>4. users' = 1 /\ Len(projects') = 1 /\ projects' = projects
    BY <1>2, <1>3 DEF QuietLogins
  <1>5. KindFits(job[t]) /\ ThenFits(job[t]) /\ RefersTo(job[t])
    BY ThreadFits
  <1>6. job[t].proj \in DOMAIN projects
    BY <1>2, <1>5 DEF RefersTo, HasProject
  <1>7. PICK q, b : q = job[t].proj /\ b = job[t].agent
    OBVIOUS
  <1>8. \A p \in DOMAIN projects' : p = q
    BY <1>3, <1>4, <1>6, <1>7 DEF FInv, RowTypes
  <1>9. CASE EnsureKey(t)
    <2>1. PICK x \in DOMAIN keys : keys[x].proj = q /\ keys[x].agent = b /\ keys[x].st = "active"
      <3>1. CASE KeysOf(job[t].proj, job[t].agent) # {}
        BY <1>7, <3>1 DEF KeysOf
      <3>2. CASE job'[t].pc = "issue"
        BY <3>2
      <3> QED BY <1>9, <3>1, <3>2, EnsureKeyMoves
    <2>2. x \in KeysOf(q, b)'
      BY <1>2, <1>9, <2>1 DEF KeysOf, QuietKeys
    <2>3. OwnAgent(job[t])
      BY <1>2, <1>5, <1>9 DEF RefersTo
    <2>4. b \in Active(q)'
      BY <1>2, <1>7, <2>3 DEF Active, OwnAgent, LoginSide
    <2> QED BY <1>4, <1>8, <2>2, <2>4 DEF HomeGood
  <1>10. CASE Issue(t)
    <2>1. job[t].pc = "issue" /\ job[t].then \in {"firstAgent", "ensureFirst", "ensured"}
      BY <1>2, <1>5, <1>10 DEF ThenFits
    <2>2. job[t].then = "ensured"
      BY <1>10, <2>1, IssueMoves
    <2>3. OwnAgent(job[t])
      BY <1>5, <2>1, <2>2 DEF RefersTo
    <2>4. Len(keys) + 1 \in DOMAIN keys' /\ Len(keys) + 1 \in KeysOf(q, b)'
      BY <1>7, <1>10, IssueTables DEF KeysOf
    <2>5. b \in Active(q)'
      BY <1>2, <1>7, <2>3 DEF Active, OwnAgent, LoginSide
    <2> QED BY <1>4, <1>8, <2>4, <2>5 DEF HomeGood
  <1> QED BY <1>1, <1>9, <1>10

\* A login leaves the phone number with one user and one project, which has an
\* agent with a key, for any number of codes and logins and also after one that
\* failed halfway through create_project: unless two logins overlapped.
THEOREM AccountsLoginLeavesWorkingProject == AccountsSpec => LoginLeavesWorkingProject
  <1> DEFINE Inv == FInv /\ LoginSide /\ LoginsSafe
             Act == \A t \in Threads : Answers(t, "login", 200) => HomeGood' \/ Raced({"login"}, {"login"})
  <1>1. AccountsInit => Inv
    <2> SUFFICES ASSUME AccountsInit PROVE Inv
      OBVIOUS
    <2>1. \A u \in Threads : job[u].pc = "idle" /\ job[u].kind = "none"
      BY DEF AccountsInit, Idle
    <2>2. clients = LoginKinds => users = 0 /\ projects = <<>> /\ agents = <<>> /\ keys = <<>>
      BY DEF AccountsInit, LoginKinds, AgentKinds
    <2>3. LoginSide
      BY <2>1, <2>2 DEF AccountsInit, LoginSide
    <2>4. LoginsSafe
      BY <2>1, <2>2 DEF LoginsSafe, LoginSafe, HasProject
    <2> QED BY <2>3, <2>4, InitFInv
  <1>2. Inv /\ [AccountsNext]_accountVars => Inv' /\ [Act]_accountVars
    <2> SUFFICES ASSUME Inv, [AccountsNext]_accountVars PROVE Inv' /\ [Act]_accountVars
      OBVIOUS
    <2>1. FInv'
      BY NextFInv
    <2>2. ASSUME NEW t \in Threads, AccountsStep(t) PROVE LoginSide' /\ LoginsSafe' /\ Act
      <3>1. LoginSide' /\ LoginsSafe'
        BY <2>2, LoginSideStep, LoginsStep
      <3>2. ASSUME NEW u \in Threads, Answers(u, "login", 200), ~Raced({"login"}, {"login"})
            PROVE  HomeGood'
        <4>1. Moved(t) /\ job'[u].pc = "done" /\ job[u].pc # "done" /\ job'[u].kind = "login" /\ job'[u].answer = 200
          BY <2>2, <3>2, StepMoves DEF Answers
        <4>2. u = t
          BY <4>1 DEF Moved, Holds
        <4>3. ~Request(t)
          BY <4>1, <4>2, RequestMoves DEF Arrived
        <4>4. job[t].kind = "login"
          BY <4>1, <4>2, <4>3 DEF Moved
        <4>5. clients = LoginKinds
          BY <4>4 DEF LoginSide, FInv, RowTypes, AgentKinds
        <4> QED BY <2>1, <2>2, <3>1, <3>2, <4>1, <4>2, <4>4, <4>5, LoginAnswers
      <3>3. Act
        BY <3>2
      <3> QED BY <3>1, <3>3
    <2>3. CASE RevokeApplied \/ CodeMutationApplied \/ Tick \/ UNCHANGED accountVars
      <3>1. /\ job' = job /\ Counts /\ agents' = agents /\ users' = users /\ projects' = projects
            /\ (QuietKeys \/ RevokeApplied)
        BY <2>3, BackgroundMoves
      <3>2. LoginSide' /\ LoginsSafe'
        BY <3>1, LoginsBackground
      <3>3. Act
        BY <3>1 DEF Answers
      <3> QED BY <2>1, <3>2, <3>3
    <2> QED BY <2>1, <2>2, <2>3 DEF AccountsNext
  <1> QED BY <1>1, <1>2, PTL DEF AccountsSpec, LoginLeavesWorkingProject
=============================================================================
