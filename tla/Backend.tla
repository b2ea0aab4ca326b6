------------------------------- MODULE Backend -------------------------------
(***************************************************************************)
(* The request threads of backend-api (server/backend-api/backend_api.py,  *)
(* a ThreadingHTTPServer) around the one global CLICKHOUSE_URL: telemetry  *)
(* ingest, queries of a project, the unscoped queries, project creation    *)
(* and the project part of a login.                                        *)
(*                                                                         *)
(* project_database(db) saves the global, points it at db, runs the body   *)
(* and restores it; every ch_post reads it.  Statements on META_DB name    *)
(* their database and only need the one in the URL to exist.  One ch_post  *)
(* is one step: it works on the database the URL names when the request is *)
(* built.                                                                  *)
(*                                                                         *)
(* pc[t]: "idle", "save" and "set" (entering project_database), "post"     *)
(* (at the next statement), "reply" (statements done, answer not sent),    *)
(* "restore" (the finally clause), and in create_project and login         *)
(* "insert" (the projects row), "database", "key" and "ensure".            *)
(***************************************************************************)
EXTENDS Server, SequencesExt

CONSTANTS Users, Projects,
          DefaultDb,    \* the database CLICKHOUSE_URL starts with
          None,
          Existing,     \* projects set up before this process started
          Owner,        \* the user an existing project belongs to
          OneAtATime    \* clients send a request when all others are answered

ASSUME BackendAssumption ==
  /\ DefaultDb \notin Projects /\ None \notin Projects \cup {DefaultDb} \cup Users
  /\ Existing \subseteq Projects /\ Owner \in Users
  /\ OneAtATime \in BOOLEAN /\ MaxRequests \in Nat /\ MaxFaults \in Nat

VARIABLES
  url,                    \* CLICKHOUSE_URL, by the database it names
  databases,              \* the databases ClickHouse has
  tables,                 \* the tables each database has
  owner,                  \* META_DB.projects: owner_user_id, None without a row
  keyed,                  \* projects with an active row in project_api_keys
  pc, old, k, ok,         \* threads: position, old_url, statement, no error
  log,                    \* history: where statements were meant for, and executed
  stored,                 \* history: the tables each ingest has filled, per database
  overlap                 \* history: a statement ran inside another's with block

threadVars == <<pc, job, old, k, ok>>
metaVars == <<databases, owner, keyed>>
logVars == <<log, stored>>
histVars == <<logVars, overlap>>
vars == <<url, tables, metaVars, threadVars, requests, faults, histVars>>

Tables == {"observations", "traces", "sessions"}
Dbs == Projects \cup {DefaultDb}

\* The statements of a request, by the table they work on.  Rows without a
\* session.id leave the sessions alone; an empty payload, or a search without
\* session_id, has no statement at all.
Statements(kind) ==
  CASE kind = "ingest"      -> <<"observations", "traces", "sessions">>
    [] kind = "sessionless" -> <<"observations", "traces">>
    [] kind = "silent"      -> <<>>
    [] kind = "create"      -> <<"sessions", "traces", "observations">>
    [] OTHER                -> <<"traces", "observations">>   \* trace_detail

Kinds == {"ingest", "sessionless", "silent", "create", "query", "unscoped", "login"}

Jobs == [kind : Kinds, id : 1..MaxRequests, db : Dbs \cup {None}, user : Users \cup {None}]

Init ==
  /\ url = DefaultDb
  /\ databases = Existing \cup {DefaultDb}
  /\ tables = [d \in Dbs |-> IF d \in Existing \cup {DefaultDb} THEN Tables ELSE {}]
  /\ owner = [p \in Projects |-> IF p \in Existing THEN Owner ELSE None]
  /\ keyed = Existing
  /\ pc = [t \in Threads |-> "idle"] /\ job = [t \in Threads |-> None]
  /\ old = [t \in Threads |-> None] /\ k = [t \in Threads |-> 1]
  /\ ok = [t \in Threads |-> TRUE]
  /\ requests = 0 /\ faults = 0
  /\ log = {} /\ overlap = FALSE
  /\ stored = [i \in 1..MaxRequests |-> [d \in Dbs |-> {}]]

\* Threads between `old_url = CLICKHOUSE_URL` and `CLICKHOUSE_URL = old_url`.
Inside == {t \in Threads : pc[t] \in {"set", "post", "reply", "restore"}
                           /\ job[t].kind # "unscoped"}

Go(t, next) == pc' = [pc EXCEPT ![t] = next]

-----------------------------------------------------------------------------
(* A request arrives *)

\* The answer of a scoped query or ingest is sent inside the with block.
Unanswered == {t \in Threads : pc[t] \notin {"idle"}
                 /\ ~(pc[t] = "restore" /\ ok[t] /\ job[t].kind # "create")}

Accept(t, kind, db, user, next) ==
  /\ pc[t] = "idle" /\ requests < MaxRequests
  /\ OneAtATime => Unanswered = {}
  /\ requests' = requests + 1
  /\ job' = [job EXCEPT ![t] = [kind |-> kind, id |-> requests + 1, db |-> db, user |-> user]]
  /\ k' = [k EXCEPT ![t] = 1] /\ ok' = [ok EXCEPT ![t] = TRUE]
  /\ Go(t, next)
  /\ UNCHANGED <<url, tables, metaVars, old, faults, histVars>>

\* POST /v1/traces with a key of p: authenticate_api_key finds key and project.
Ingest(t) ==
  /\ url \in databases
  /\ \E p \in keyed, kind \in {"ingest", "sessionless", "silent"} :
       owner[p] # None /\ Accept(t, kind, p, None, "save")

\* GET /api/projects/p/traces/...: require_project_owner finds the project.
ProjectQuery(t) ==
  /\ url \in databases
  /\ \E p \in Projects, kind \in {"query", "silent"} :
       owner[p] # None /\ Accept(t, kind, p, None, "save")

\* GET /traces/...: on whatever database the URL names, meant for DefaultDb.
UnscopedQuery(t) == Accept(t, "unscoped", DefaultDb, None, "post")

\* POST /api/projects
CreateProject(t) == \E u \in Users : Accept(t, "create", None, u, "insert")

\* POST /api/auth/phone/login, from ensure_user_default_project on: the
\* decision rests on the SELECT made now.
Login(t) ==
  /\ url \in databases
  /\ \E u \in Users :
       IF \E p \in Projects : owner[p] = u THEN Accept(t, "login", None, u, "ensure")
                                           ELSE Accept(t, "create", None, u, "insert")

-----------------------------------------------------------------------------
(* project_database *)

SaveUrl(t) ==
  /\ pc[t] = "save"
  /\ old' = [old EXCEPT ![t] = url]
  /\ overlap' = (overlap \/ Inside # {})
  /\ Go(t, "set")
  /\ UNCHANGED <<url, tables, metaVars, job, k, ok, requests, faults, logVars>>

SetUrl(t) ==
  /\ pc[t] = "set"
  /\ url' = job[t].db
  /\ Go(t, IF job[t].kind = "silent" THEN "reply" ELSE "post")
  /\ UNCHANGED <<tables, metaVars, job, old, k, ok, requests, faults, histVars>>

After(kind) == CASE kind = "create" -> "restore"
                 [] kind = "unscoped" -> "idle"
                 [] OTHER -> "reply"

\* A CREATE TABLE needs the database url, the others the table in it.
Accepted(t, tab) == IF job[t].kind = "create" THEN url \in databases ELSE tab \in tables[url]

\* The statement works on database url.
Executed(t, tab) ==
  /\ log' = log \cup {[home |-> job[t].db, at |-> url]}
  /\ stored' = IF job[t].kind \in {"ingest", "sessionless"}
               THEN [stored EXCEPT ![job[t].id][url] = @ \cup {tab}] ELSE stored
  /\ tables' = IF job[t].kind = "create" THEN [tables EXCEPT ![url] = @ \cup {tab}]
                                         ELSE tables

Post(t) ==
  LET tab == Statements(job[t].kind)[k[t]]
      last == k[t] = Len(Statements(job[t].kind))
  IN /\ pc[t] = "post"
     /\ Accepted(t, tab)
     /\ Executed(t, tab)
     /\ overlap' = (overlap \/ Inside \ {t} # {})
     /\ k' = [k EXCEPT ![t] = IF last THEN 1 ELSE @ + 1]
     /\ Go(t, IF last THEN After(job[t].kind) ELSE "post")
     /\ UNCHANGED <<url, metaVars, job, old, ok, requests, faults>>

\* Mutant of PostRaises: the error is swallowed and the request goes on.
PostRaisesNothing(t) ==
  LET tab == Statements(job[t].kind)[k[t]]
      last == k[t] = Len(Statements(job[t].kind))
  IN /\ pc[t] = "post"
     /\ faults < MaxFaults /\ faults' = faults + 1
     /\ k' = [k EXCEPT ![t] = IF last THEN 1 ELSE @ + 1]
     /\ Go(t, IF last THEN After(job[t].kind) ELSE "post")
     /\ UNCHANGED <<url, tables, metaVars, job, old, ok, requests, histVars>>

\* ch_post raises: database or table is missing, or ClickHouse fails, or the answer is
\* not there after 10 s and the statement may have been executed.
PostRaises(t) ==
  LET tab == Statements(job[t].kind)[k[t]]
  IN /\ pc[t] = "post"
     /\ \/ ~Accepted(t, tab) /\ UNCHANGED <<tables, logVars, faults>>
        \/ /\ faults < MaxFaults /\ faults' = faults + 1
           /\ \/ UNCHANGED <<tables, logVars>>
              \/ Accepted(t, tab) /\ Executed(t, tab)
     /\ overlap' = (overlap \/ Inside \ {t} # {})
     /\ ok' = [ok EXCEPT ![t] = FALSE]
     /\ Go(t, IF job[t].kind = "unscoped" THEN "idle" ELSE "restore")
     /\ UNCHANGED <<url, metaVars, job, old, k, requests>>

\* _send_json(200, ...), still inside the with block.
Reply(t) ==
  /\ pc[t] = "reply"
  /\ Go(t, "restore")
  /\ UNCHANGED <<url, tables, metaVars, job, old, k, ok, requests, faults, histVars>>

\* Mutant of Restore: no try/finally, an error leaves the URL behind.
RestoreUnlessError(t) ==
  /\ pc[t] = "restore"
  /\ url' = IF ok[t] THEN old[t] ELSE url
  /\ old' = [old EXCEPT ![t] = None]
  /\ Go(t, IF job[t].kind = "create" /\ ok[t] THEN "key" ELSE "idle")
  /\ UNCHANGED <<tables, metaVars, job, k, ok, requests, faults, histVars>>

\* The finally clause; an error goes on to the handler, which answers 500.
Restore(t) ==
  /\ pc[t] = "restore"
  /\ url' = old[t]
  /\ old' = [old EXCEPT ![t] = None]
  /\ Go(t, IF job[t].kind = "create" /\ ok[t] THEN "key" ELSE "idle")
  /\ UNCHANGED <<tables, metaVars, job, k, ok, requests, faults, histVars>>

-----------------------------------------------------------------------------
(* create_project and ensure_default_agent: statements on META_DB *)

\* INSERT INTO META_DB.projects under a fresh project_id.
ProjectRow(t) ==
  /\ \E p \in Projects :
       /\ owner[p] = None
       /\ owner' = [owner EXCEPT ![p] = job[t].user]
       /\ job' = [job EXCEPT ![t].db = p]
  /\ UNCHANGED <<databases, keyed>>

DatabaseMade(t) == databases' = databases \cup {job[t].db} /\ UNCHANGED <<owner, keyed, job>>

\* INSERT INTO META_DB.project_api_keys, a row for each project of ps.
KeyRows(ps) == keyed' = keyed \cup ps /\ UNCHANGED <<databases, owner, job>>

Owned(u) == {p \in Projects : owner[p] = u}

\* A statement raises, done or not: the request ends with a 500.  With the URL
\* on a database that is not there every statement raises.
MetaRaises(t) ==
  /\ pc[t] \in {"insert", "database", "key", "ensure"}
  /\ \/ url \notin databases /\ UNCHANGED <<metaVars, job, faults>>
     \/ /\ faults < MaxFaults /\ faults' = faults + 1
        /\ \/ UNCHANGED <<metaVars, job>>
           \/ /\ url \in databases
              /\ \/ pc[t] = "insert" /\ ProjectRow(t)
                 \/ pc[t] = "database" /\ DatabaseMade(t)
                 \/ pc[t] = "key" /\ KeyRows({job[t].db})
                 \/ pc[t] = "ensure" /\ \E ps \in SUBSET Owned(job[t].user) : KeyRows(ps)
  /\ ok' = [ok EXCEPT ![t] = FALSE]
  /\ Go(t, "idle")
  /\ overlap' = (overlap \/ Inside # {})
  /\ UNCHANGED <<url, tables, old, k, requests, logVars>>

InsertProject(t) ==
  /\ pc[t] = "insert" /\ url \in databases
  /\ ProjectRow(t)
  /\ Go(t, "database")
  /\ overlap' = (overlap \/ Inside # {})
  /\ UNCHANGED <<url, tables, old, k, ok, requests, faults, logVars>>

\* Mutant of CreateDatabase: the tables are not created.
CreateDatabaseOnly(t) ==
  /\ pc[t] = "database" /\ url \in databases
  /\ DatabaseMade(t)
  /\ Go(t, "key")
  /\ overlap' = (overlap \/ Inside # {})
  /\ UNCHANGED <<url, tables, old, k, ok, requests, faults, logVars>>

CreateDatabase(t) ==
  /\ pc[t] = "database" /\ url \in databases
  /\ DatabaseMade(t)
  /\ Go(t, "save")
  /\ overlap' = (overlap \/ Inside # {})
  /\ UNCHANGED <<url, tables, old, k, ok, requests, faults, logVars>>

\* create_api_key, then create_agent with a key of its own.
CreateKey(t) ==
  /\ pc[t] = "key" /\ url \in databases
  /\ KeyRows({job[t].db})
  /\ Go(t, "idle")
  /\ overlap' = (overlap \/ Inside # {})
  /\ UNCHANGED <<url, tables, old, k, ok, requests, faults, logVars>>

\* ensure_default_agent for each project of the user: a missing key is made.
EnsureAgents(t) ==
  /\ pc[t] = "ensure" /\ url \in databases
  /\ KeyRows(Owned(job[t].user))
  /\ Go(t, "idle")
  /\ overlap' = (overlap \/ Inside # {})
  /\ UNCHANGED <<url, tables, old, k, ok, requests, faults, logVars>>

Step(t) ==
  \/ Ingest(t) \/ ProjectQuery(t) \/ UnscopedQuery(t) \/ CreateProject(t) \/ Login(t)
  \/ SaveUrl(t) \/ SetUrl(t) \/ Post(t) \/ PostRaises(t) \/ Reply(t) \/ Restore(t)
  \/ InsertProject(t) \/ CreateDatabase(t) \/ CreateKey(t) \/ EnsureAgents(t)
  \/ MetaRaises(t)

Next == \E t \in Threads : Step(t)

Spec == Init /\ [][Next]_vars
-----------------------------------------------------------------------------
TypeOK ==
  /\ url \in Dbs
  /\ databases \subseteq Dbs
  /\ tables \in [Dbs -> SUBSET Tables]
  /\ owner \in [Projects -> Users \cup {None}]
  /\ keyed \subseteq Projects
  /\ pc \in [Threads -> {"idle", "save", "set", "post", "reply", "restore", "insert",
                         "database", "key", "ensure"}]
  /\ job \in [Threads -> Jobs \cup {None}]
  /\ old \in [Threads -> Dbs \cup {None}]
  /\ k \in [Threads -> 1..3]
  /\ ok \in [Threads -> BOOLEAN]
  /\ requests \in 0..MaxRequests /\ faults \in 0..MaxFaults
  /\ log \subseteq [home : Dbs, at : Dbs]
  /\ stored \in [1..MaxRequests -> [Dbs -> SUBSET Tables]]
  /\ overlap \in BOOLEAN

\* Every statement works on the database its request is about: telemetry of a
\* project is stored in, and queries are answered from, that project's
\* database.
AtHome == \A e \in log : e.at = e.home

\* The statements stay at home, over any sequence of requests and errors, as
\* long as no request runs inside the with block of another.
StatementsStayHome == overlap \/ AtHome

\* Under the same condition the URL is back at its default whenever nobody is
\* in a with block, after errors too.
UrlRestored == overlap \/ Inside # {} \/ url = DefaultDb

\* The tables each ingest has filled, in whatever database.
Filled == [i \in 1..MaxRequests |-> UNION {stored[i][d] : d \in Dbs}]

\* A table comes after those its rows refer to.
InOrder(S) ==
  /\ "traces" \in S => "observations" \in S
  /\ "sessions" \in S => "traces" \in S

\* What the ingest has stored is in one database.
Together(i) == \E d \in Dbs : \A e \in Dbs \ {d} : stored[i][e] = {}

\* An ingest that is about to answer 200 has stored rows in every table its
\* payload has rows for, and one that failed half way has not filled a later
\* table without the earlier one.  Unless a with block was entered while another
\* was open, all of it is in one database, that of the project when the ingest
\* answers: in no database are there traces without their observations, or
\* sessions without their traces.  Overlapping blocks scatter the rows; then
\* only the first half is claimed.
IngestInOrder ==
  /\ \A i \in 1..MaxRequests : InOrder(Filled[i]) /\ (overlap \/ Together(i))
  /\ \A t \in Threads :
       pc[t] = "reply" /\ job[t].kind \in {"ingest", "sessionless"} =>
         /\ Filled[job[t].id] = ToSet(Statements(job[t].kind))
         /\ overlap \/ stored[job[t].id][job[t].db] = Filled[job[t].id]

\* A project whose key lets telemetry in has the tables to store it: once the
\* thread that creates the project is done with them, and unless a statement
\* failed or a with block was entered while another was open.
KeyMeansTables ==
  \/ overlap \/ faults > 0
  \/ \A p \in keyed :
       \/ tables[p] = Tables
       \/ \E t \in Threads : /\ pc[t] \in {"database", "save", "set", "post"}
                           /\ job[t].kind = "create" /\ job[t].db = p
=============================================================================
