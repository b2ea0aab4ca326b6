------------------------------- MODULE Accounts -------------------------------
(***************************************************************************)
(* The accounts of backend_api.py: phone login codes, users, projects,     *)
(* agents and API keys, rows of ClickHouse tables that the threads of the  *)
(* HTTP server read and write one statement at a time, without             *)
(* transactions or locks.  Each step of a request is one statement.        *)
(*                                                                         *)
(* A row is never removed: tables are sequences in the order of            *)
(* created_at, ids are positions.  An ALTER TABLE ... UPDATE with          *)
(* mutations_sync=1 is done when it returns, together with the mutations   *)
(* before it; any other one returns at once and is applied later           *)
(* (RevokeApplied, CodeMutationApplied: external).  One phone number       *)
(* logs in.                                                                *)
(***************************************************************************)
EXTENDS Server

CONSTANTS Names,        \* names of agents clients ask for, and those of AccountsInit
          MaxTries,     \* the 5 attempts a code allows
          CodeLimit     \* PHONE_CODE_DAILY_LIMIT, under which a code was sent

ASSUME AccountsAssumption ==
  /\ {"default", "x"} \subseteq Names /\ MaxTries \in Nat /\ CodeLimit \in Nat \ {0}
  /\ MaxRequests \in Nat /\ MaxFaults \in Nat

VARIABLES
  users,     \* number of rows of users with the phone number
  projects,  \* projects: the owner of each
  agents,    \* project_agents
  keys,      \* project_api_keys
  revoking,  \* keys that a mutation not yet applied revokes
  codes,     \* phone_login_codes, and how often each was accepted and guessed at
  codeMuts,  \* mutations of phone_login_codes not yet applied
  clients,   \* the kinds of request the clients send
  raced,     \* history: kinds of two requests that overlapped
  lagged     \* history: a mutation was applied too late for a login or a list

tableVars == <<users, projects, agents, keys, revoking, codes, codeMuts>>
loginVars == <<users, projects, codes, codeMuts, lagged>>
countVars == <<clients, requests, faults, raced>>
accountVars == <<tableVars, job, countVars, lagged>>

AgentKinds == {"create", "rename", "delete", "regen", "list", "project", "revoke", "auth"}
LoginKinds == {"code", "login"}
AccountKinds == AgentKinds \cup LoginKinds

\* proj, agent, name, key, code: parameters and local variables; rows: what a
\* loop has left; listed: the answer of list_agents; then: where the request
\* goes after create_api_key; answer: the HTTP status.
Idle == [kind |-> "none", pc |-> "idle", proj |-> 0, agent |-> 0, name |-> "",
         key |-> 0, code |-> 0, rows |-> {}, listed |-> {}, then |-> "done", answer |-> 0]

Busy(t) == job[t].pc \notin {"idle", "done"}

AgentRow(p, name) == [proj |-> p, name |-> name, st |-> "active"]
KeyRow(p, a, plain) == [proj |-> p, agent |-> a, st |-> "active", plain |-> plain]
CodeRow == [st |-> "active", age |-> 0, tries |-> 0, logins |-> 0, guesses |-> 0]

\* A project with two agents, of which one may have a key from before
\* key_plaintext, or a phone number without a user that has got a code.
AccountsInit ==
  /\ \/ /\ clients = AgentKinds
        /\ users = 1 /\ projects = <<1>>
        /\ agents = <<AgentRow(1, "default"), AgentRow(1, "x")>>
        /\ \E plain \in BOOLEAN :
             keys = <<KeyRow(1, 0, TRUE), KeyRow(1, 1, TRUE), KeyRow(1, 2, plain)>>
        /\ codes = <<>>
     \/ /\ clients = LoginKinds
        /\ users = 0 /\ projects = <<>> /\ agents = <<>> /\ keys = <<>>
        /\ codes = <<[CodeRow EXCEPT !.age = 1]>>
  /\ codeMuts = <<>> /\ revoking = {}
  /\ job = [t \in Threads |-> Idle]
  /\ requests = 0 /\ faults = 0 /\ raced = {} /\ lagged = FALSE

-----------------------------------------------------------------------------
(* SELECTs *)

Active(p) == {a \in DOMAIN agents : agents[a].proj = p /\ agents[a].st = "active"}
KeysOf(p, a) == {k \in DOMAIN keys : keys[k].proj = p /\ keys[k].agent = a /\ keys[k].st = "active"}
Latest(S) == CHOOSE x \in S : \A y \in S : y <= x
Oldest(S) == CHOOSE x \in S : \A y \in S : x <= y

-----------------------------------------------------------------------------
(* control *)

Set(t, j) == job' = [job EXCEPT ![t] = j]
Goto(t, pc) == Set(t, [job[t] EXCEPT !.pc = pc])
Answer(t, status) == Set(t, [job[t] EXCEPT !.pc = "done", !.answer = status])

\* A request arrives at a thread that has answered the one before.
Begin(t, kind, j) ==
  /\ ~Busy(t) /\ kind \in clients /\ requests < MaxRequests
  /\ Set(t, [j EXCEPT !.kind = kind])
  /\ requests' = requests + 1
  /\ raced' = raced \cup {{kind, job[u].kind} : u \in {v \in Threads : Busy(v)}}
  /\ UNCHANGED <<tableVars, lagged, clients, faults>>

Request(t) ==
  \/ \E p \in DOMAIN projects :
       \/ \E n \in Names : Begin(t, "create", [Idle EXCEPT !.pc = "dup", !.proj = p, !.name = n])
       \/ \E a \in DOMAIN agents, n \in Names :
            Begin(t, "rename", [Idle EXCEPT !.pc = "find", !.proj = p, !.agent = a, !.name = n])
       \/ \E a \in DOMAIN agents, kind \in {"delete", "regen"} :
            Begin(t, kind, [Idle EXCEPT !.pc = "find", !.proj = p, !.agent = a])
       \/ Begin(t, "list", [Idle EXCEPT !.pc = "ensure", !.proj = p])
       \/ Begin(t, "project", [Idle EXCEPT !.pc = "revokeProject", !.proj = p])
       \/ \E k \in DOMAIN keys :
            Begin(t, "revoke", [Idle EXCEPT !.pc = "revokeKey", !.proj = p, !.key = k])
  \/ \E k \in DOMAIN keys : Begin(t, "auth", [Idle EXCEPT !.pc = "authKey", !.key = k])
  \/ Begin(t, "code", [Idle EXCEPT !.pc = "recent"])
  \/ \E c \in 0..Len(codes) : Begin(t, "login", [Idle EXCEPT !.pc = "readCode", !.code = c])

\* A statement (or the SMS service) raises: the handler answers 500.
Raise(t) ==
  /\ Busy(t) /\ faults < MaxFaults
  /\ faults' = faults + 1 /\ Answer(t, 500)
  /\ UNCHANGED <<tableVars, clients, requests, raced, lagged>>

At(t, pc) == job[t].pc = pc /\ UNCHANGED countVars
Reads(t, pc) == At(t, pc) /\ UNCHANGED <<tableVars, lagged>>

-----------------------------------------------------------------------------
(* agents *)

\* agent_for_project in rename_agent, delete_agent, regenerate_agent_api_key.
AfterFind == [rename |-> "dup", delete |-> "count", regen |-> "revokeAgent", list |-> "revokeAgent"]

Find(t) ==
  /\ Reads(t, "find")
  /\ IF job[t].agent \in Active(job[t].proj) THEN Goto(t, AfterFind[job[t].kind]) ELSE Answer(t, 404)

\* Mutant of Taken: the comparison with the agent's own id is inverted.
TakenByItself(t) == {a \in Active(job[t].proj) \cap {job[t].agent} : agents[a].name = job[t].name}

Taken(t) == {a \in Active(job[t].proj) \ {job[t].agent} : agents[a].name = job[t].name}

Dup(t) ==
  /\ Reads(t, "dup")
  /\ IF Taken(t) # {} THEN Answer(t, 400)
                      ELSE Goto(t, IF job[t].kind = "rename" THEN "rename" ELSE "insert")

\* create_agent goes on to create_api_key, ensure_default_agent to its SELECT.
InsertAgent(t) ==
  /\ At(t, "insert") \/ At(t, "insertDefault")
  /\ agents' = Append(agents, AgentRow(job[t].proj, job[t].name))
  /\ Set(t, [job[t] EXCEPT !.agent = Len(agents) + 1,
                           !.pc = IF @ = "insertDefault" THEN "ensureKey" ELSE "issue"])
  /\ UNCHANGED <<keys, revoking, loginVars>>

Rename(t) ==
  /\ At(t, "rename")
  /\ agents' = [agents EXCEPT ![job[t].agent].name = job[t].name]
  /\ Answer(t, 200)
  /\ UNCHANGED <<keys, revoking, loginVars>>

Count(t) ==
  /\ Reads(t, "count")
  /\ IF Cardinality(Active(job[t].proj)) <= 1 THEN Answer(t, 400) ELSE Goto(t, "mark")

MarkDeleted(t) ==
  /\ At(t, "mark")
  /\ agents' = [agents EXCEPT ![job[t].agent].st = "deleted"]
  /\ Goto(t, "revokeAgent")
  /\ UNCHANGED <<keys, revoking, loginVars>>

-----------------------------------------------------------------------------
(* keys *)

Revoked(S) == [k \in DOMAIN keys |-> IF k \in S THEN [keys[k] EXCEPT !.st = "revoked"] ELSE keys[k]]

\* History: an earlier revocation takes effect while a list is being made.
LateRevoke == lagged' = (lagged \/ (revoking # {} /\ \E t \in Threads : Busy(t) /\ job[t].kind = "list"))

AfterRevoke(t) == IF job[t].kind = "delete" THEN Answer(t, 200) ELSE Goto(t, "issue")

\* Mutant of RevokeAgentKeys: without mutations_sync.
RevokeAgentKeysLater(t) ==
  /\ At(t, "revokeAgent")
  /\ revoking' = revoking \cup KeysOf(job[t].proj, job[t].agent)
  /\ AfterRevoke(t)
  /\ UNCHANGED <<agents, keys, loginVars>>

RevokeAgentKeys(t) ==
  /\ At(t, "revokeAgent")
  /\ keys' = Revoked(revoking \cup KeysOf(job[t].proj, job[t].agent)) /\ revoking' = {}
  /\ AfterRevoke(t) /\ LateRevoke
  /\ UNCHANGED <<users, projects, agents, codes, codeMuts>>

\* regenerate_api_key: the keys that belong to no agent.
RevokeProjectKeys(t) ==
  /\ At(t, "revokeProject")
  /\ revoking' = revoking \cup KeysOf(job[t].proj, 0)
  /\ Goto(t, "issue")
  /\ UNCHANGED <<agents, keys, loginVars>>

\* DELETE /api/projects/../api-keys/..: any key of the project.
RevokeKey(t) ==
  /\ At(t, "revokeKey")
  /\ revoking' = revoking \cup {k \in {job[t].key} : keys[k].proj = job[t].proj /\ keys[k].st = "active"}
  /\ Answer(t, 200)
  /\ UNCHANGED <<agents, keys, loginVars>>

RevokeApplied ==
  /\ \E k \in revoking : keys' = Revoked({k}) /\ revoking' = revoking \ {k}
  /\ LateRevoke
  /\ UNCHANGED <<users, projects, agents, codes, codeMuts, job, countVars>>

\* list_agents: the next agent of the loop, or the end.
NextListed(t, k) ==
  LET rest == job[t].rows \ {job[t].agent} IN
  Set(t, [job[t] EXCEPT !.listed = @ \cup {k}, !.rows = rest,
                        !.agent = IF rest = {} THEN 0 ELSE Oldest(rest),
                        !.pc = IF rest = {} THEN "done" ELSE "listKey",
                        !.answer = IF rest = {} THEN 200 ELSE 0])

\* The end of ensure_default_agent for one project.
Ensured(t, j) ==
  CASE j.kind = "list" -> Set(t, [j EXCEPT !.pc = "rows"])
    [] j.kind = "auth" -> Set(t, [j EXCEPT !.pc = "done", !.answer = 200])
    [] j.kind = "login" ->
         LET rest == j.rows \ {j.proj} IN
         IF rest = {} THEN Set(t, [j EXCEPT !.pc = "done", !.answer = 200])
         ELSE Set(t, [j EXCEPT !.pc = "ensure", !.rows = rest, !.proj = Oldest(rest)])

\* create_api_key.
Issue(t) ==
  LET j == job[t] IN
  /\ At(t, "issue")
  /\ keys' = Append(keys, KeyRow(j.proj, j.agent, TRUE))
  /\ UNCHANGED <<agents, revoking, loginVars>>
  /\ CASE j.then = "done" -> Answer(t, 200)
       [] j.then = "listKey" -> NextListed(t, Len(keys) + 1)
       [] j.then = "ensured" -> Ensured(t, j)
       [] j.then = "firstAgent" ->
            Set(t, [j EXCEPT !.pc = "dup", !.name = "default", !.then = "ensureFirst"])
       [] j.then = "ensureFirst" -> Set(t, [j EXCEPT !.pc = "ensure"])

-----------------------------------------------------------------------------
(* ensure_default_agent, list_agents, authenticate_api_key *)

EnsureRows(t) ==
  LET rows == Active(job[t].proj)
      default == {a \in rows : agents[a].name = "default"}
  IN /\ Reads(t, "ensure")
     /\ IF rows = {} THEN Set(t, [job[t] EXCEPT !.pc = "insertDefault", !.name = "default"])
        ELSE LET a == Oldest(IF default # {} THEN default ELSE rows) IN
             Set(t, [job[t] EXCEPT !.pc = "ensureKey", !.agent = a, !.name = agents[a].name])

\* Mutant of EnsureKey: any key of the project will do.
EnsureKeyAny(t) ==
  /\ Reads(t, "ensureKey")
  /\ IF \E a \in 0..Len(agents) : KeysOf(job[t].proj, a) # {}
     THEN Ensured(t, job[t])
     ELSE Set(t, [job[t] EXCEPT !.pc = "issue", !.then = "ensured"])

EnsureKey(t) ==
  /\ Reads(t, "ensureKey")
  /\ IF KeysOf(job[t].proj, job[t].agent) # {}
     THEN Ensured(t, job[t])
     ELSE Set(t, [job[t] EXCEPT !.pc = "issue", !.then = "ensured"])

ListRows(t) ==
  LET rows == Active(job[t].proj) IN
  /\ Reads(t, "rows")
  /\ IF rows = {} THEN Answer(t, 200)
     ELSE Set(t, [job[t] EXCEPT !.pc = "listKey", !.rows = rows, !.agent = Oldest(rows)])

\* Mutant of ListKey: the latest key, active or not.
ListKeyAnyStatus(t) ==
  LET j == job[t]
      found == {k \in DOMAIN keys : keys[k].proj = j.proj /\ keys[k].agent = j.agent}
  IN /\ Reads(t, "listKey")
     /\ IF found # {} /\ keys[Latest(found)].plain
        THEN NextListed(t, Latest(found))
        ELSE Set(t, [j EXCEPT !.pc = "find", !.then = "listKey"])

ListKey(t) ==
  LET found == KeysOf(job[t].proj, job[t].agent) IN
  /\ Reads(t, "listKey")
  /\ IF found # {} /\ keys[Latest(found)].plain
     THEN NextListed(t, Latest(found))
     ELSE Set(t, [job[t] EXCEPT !.pc = "find", !.then = "listKey"])

\* Mutant of AuthKey: a revoked key is still good.
AuthKeyAnyStatus(t) ==
  /\ Reads(t, "authKey")
  /\ Set(t, [job[t] EXCEPT !.proj = keys[job[t].key].proj, !.pc = "authAgent"])

AuthKey(t) ==
  /\ Reads(t, "authKey")
  /\ IF keys[job[t].key].st # "active" THEN Answer(t, 401)
     ELSE Set(t, [job[t] EXCEPT !.proj = keys[job[t].key].proj, !.pc = "authAgent"])

\* A key without an agent uses the default one; a key whose agent is gone
\* ingests under the name "default".
AuthAgent(t) ==
  LET a == keys[job[t].key].agent IN
  /\ Reads(t, "authAgent")
  /\ IF a = 0 THEN Goto(t, "ensure")
     ELSE Set(t, [job[t] EXCEPT !.pc = "done", !.answer = 200, !.agent = a,
                                !.name = IF a \in Active(job[t].proj) THEN agents[a].name ELSE "default"])

-----------------------------------------------------------------------------
(* request_phone_code, login_with_phone_code *)

Recent(t) ==
  /\ Reads(t, "recent")
  /\ IF \E c \in DOMAIN codes : codes[c].age = 0 THEN Answer(t, 400) ELSE Goto(t, "limit")

\* The daily limit of the number; the hourly one of the address is alike.
Limit(t) ==
  /\ Reads(t, "limit")
  /\ IF Len(codes) >= CodeLimit THEN Answer(t, 400) ELSE Goto(t, "insertCode")

InsertCode(t) ==
  /\ At(t, "insertCode")
  /\ codes' = Append(codes, CodeRow)
  /\ Goto(t, "sms")
  /\ UNCHANGED <<users, projects, agents, keys, revoking, codeMuts, lagged>>

SendSms(t) == Reads(t, "sms") /\ Answer(t, 200)

\* Time passes: age 0 is within the resend interval, age 2 past expires_at.
Tick ==
  /\ \E c \in DOMAIN codes : codes[c].age < 2
  /\ codes' = [c \in DOMAIN codes |-> [codes[c] EXCEPT !.age = IF @ = 2 THEN 2 ELSE @ + 1]]
  /\ UNCHANGED <<users, projects, agents, keys, revoking, codeMuts, lagged, job, countVars>>

Pending(c) == \E i \in DOMAIN codeMuts : codeMuts[i].code = c

\* The latest active code; the code the client sends is that of row job.code,
\* or of none.
ReadCode(t) ==
  LET active == {c \in DOMAIN codes : codes[c].st = "active"}
      c == Latest(active)
  IN /\ At(t, "readCode")
     /\ IF active = {} \/ codes[c].tries >= MaxTries \/ codes[c].age = 2
        THEN Answer(t, 401) /\ UNCHANGED lagged
        ELSE /\ lagged' = (lagged \/ Pending(c))
             /\ Set(t, [job[t] EXCEPT !.code = c, !.pc = IF c = job[t].code THEN "consume" ELSE "wrong"])
     /\ UNCHANGED tableVars

\* Mutant of CodeMutation: the mutation matches no row.
CodeMutationLost(c, op) == UNCHANGED codeMuts

\* ALTER TABLE phone_login_codes UPDATE, not waited for.
CodeMutation(c, op) == codeMuts' = Append(codeMuts, [code |-> c, op |-> op])

WrongCode(t) ==
  /\ At(t, "wrong")
  /\ CodeMutation(job[t].code, "attempt")
  /\ codes' = [codes EXCEPT ![job[t].code].guesses = @ + 1]
  /\ Answer(t, 401)
  /\ UNCHANGED <<users, projects, agents, keys, revoking, lagged>>

Consume(t) ==
  /\ At(t, "consume")
  /\ CodeMutation(job[t].code, "consume")
  /\ codes' = [codes EXCEPT ![job[t].code].logins = @ + 1]
  /\ Goto(t, "user")
  /\ UNCHANGED <<users, projects, agents, keys, revoking, lagged>>

CodeMutationApplied ==
  /\ codeMuts # <<>> /\ codeMuts' = Tail(codeMuts)
  /\ codes' = LET m == Head(codeMuts) IN
       IF m.op = "consume" THEN [codes EXCEPT ![m.code].st = "consumed"]
                           ELSE [codes EXCEPT ![m.code].tries = @ + 1]
  /\ UNCHANGED <<users, projects, agents, keys, revoking, lagged, job, countVars>>

\* latest_user_by_phone; job.key is the local variable user from here on.
ReadUser(t) ==
  /\ Reads(t, "user")
  /\ IF users = 0 THEN Goto(t, "insertUser")
                  ELSE Set(t, [job[t] EXCEPT !.pc = "projects", !.key = users])

InsertUser(t) ==
  /\ At(t, "insertUser")
  /\ users' = users + 1
  /\ Set(t, [job[t] EXCEPT !.pc = "projects", !.key = users + 1])
  /\ UNCHANGED <<projects, agents, keys, revoking, codes, codeMuts, lagged>>

\* ensure_user_default_project.
ReadProjects(t) ==
  LET mine == {p \in DOMAIN projects : projects[p] = job[t].key} IN
  /\ Reads(t, "projects")
  /\ IF mine = {} THEN Goto(t, "insertProject")
     ELSE Set(t, [job[t] EXCEPT !.pc = "ensure", !.rows = mine, !.proj = Oldest(mine)])

\* create_project: its key without an agent, then its first agent.
InsertProjectRow(t) ==
  /\ At(t, "insertProject")
  /\ projects' = Append(projects, job[t].key)
  /\ Set(t, [job[t] EXCEPT !.pc = "issue", !.proj = Len(projects) + 1, !.agent = 0, !.then = "firstAgent"])
  /\ UNCHANGED <<users, agents, keys, revoking, codes, codeMuts, lagged>>

-----------------------------------------------------------------------------
AccountsStep(t) ==
  \/ Request(t) \/ Raise(t)
  \/ Find(t) \/ Dup(t) \/ InsertAgent(t) \/ Rename(t) \/ Count(t) \/ MarkDeleted(t)
  \/ RevokeAgentKeys(t) \/ RevokeProjectKeys(t) \/ RevokeKey(t) \/ Issue(t)
  \/ EnsureRows(t) \/ EnsureKey(t) \/ ListRows(t) \/ ListKey(t)
  \/ AuthKey(t) \/ AuthAgent(t)
  \/ Recent(t) \/ Limit(t) \/ InsertCode(t) \/ SendSms(t)
  \/ ReadCode(t) \/ WrongCode(t) \/ Consume(t) \/ ReadUser(t) \/ InsertUser(t)
  \/ ReadProjects(t) \/ InsertProjectRow(t)

AccountsNext == (\E t \in Threads : AccountsStep(t)) \/ RevokeApplied \/ CodeMutationApplied \/ Tick

AccountsSpec == AccountsInit /\ [][AccountsNext]_accountVars

-----------------------------------------------------------------------------
(* properties *)

Raced(K, L) == \E k \in K, l \in L : {k, l} \in raced

Issuers == {"create", "regen", "list", "auth", "login"}
Namers == {"create", "rename", "list", "auth", "login"}

\* Every local variable and row is well-formed, and rows refer to rows.
AccountsTypes ==
  /\ users \in Nat
  /\ \A p \in DOMAIN projects : projects[p] \in 1..users
  /\ \A a \in DOMAIN agents :
       agents[a] \in [proj : DOMAIN projects, name : Names, st : {"active", "deleted"}]
  /\ \A k \in DOMAIN keys :
       keys[k] \in [proj : DOMAIN projects, agent : 0..Len(agents),
                    st : {"active", "revoked"}, plain : BOOLEAN]
  /\ \A k \in DOMAIN keys : keys[k].agent # 0 => agents[keys[k].agent].proj = keys[k].proj
  /\ revoking \subseteq DOMAIN keys
  /\ \A i \in DOMAIN codeMuts : codeMuts[i].code \in DOMAIN codes
  /\ \A t \in Threads : job[t].kind \in AccountKinds \cup {"none"} /\ job[t].listed \subseteq DOMAIN keys
  /\ raced \subseteq SUBSET AccountKinds /\ lagged \in BOOLEAN

\* delete_agent keeps the last agent: a project that had agents has one,
\* unless two deletes overlapped, each counting the other's agent.
LastAgentKept ==
  \A a \in DOMAIN agents : Active(agents[a].proj) = {} => Raced({"delete"}, {"delete"})

\* create_agent, rename_agent and ensure_default_agent keep the names of a
\* project's active agents apart, unless two requests that name agents
\* overlapped between the SELECT and the write.
NamesUnique ==
  \A a, b \in DOMAIN agents :
    (a # b /\ agents[a].proj = agents[b].proj /\ agents[a].name = agents[b].name
     /\ agents[a].st = "active" /\ agents[b].st = "active") => Raced(Namers, Namers)

\* The agents of a project are in order, for the ways clients name and delete
\* them.  (With the types of the rows.)
AgentsInOrder == AccountsTypes /\ LastAgentKept /\ NamesUnique

\* Once a delete has ended no key of the agent is accepted, unless its second
\* ALTER failed or a key was being issued meanwhile.
DeletedKeyRefused ==
  \A k \in DOMAIN keys :
    LET a == keys[k].agent IN
    (a # 0 /\ keys[k].st = "active" /\ agents[a].st = "deleted") =>
      \/ \E t \in Threads : job[t].kind = "delete" /\ job[t].agent = a /\ job[t].pc = "revokeAgent"
      \/ faults > 0 \/ Raced({"delete"}, Issuers)

\* Issuing a key replaces the one before: an agent, and a project for itself,
\* has at most one key that is not revoked or about to be, unless two
\* requests that issue keys overlapped.
OneKeyEach ==
  \A p \in DOMAIN projects, a \in 0..Len(agents) :
    Cardinality(KeysOf(p, a) \ revoking) <= 1 \/ Raced(Issuers \cup {"project"}, Issuers \cup {"project"})

\* Issuing and revoking keys leaves no key too many.
KeysInOrder == DeletedKeyRefused /\ OneKeyEach

\* The step that answers a request with a status.
Answers(t, kind, status) ==
  job[t].pc # "done" /\ job'[t].pc = "done" /\ job'[t].kind = kind /\ job'[t].answer = status

ListGood(t) ==
  /\ \A k \in job[t].listed : keys[k].st = "active"
  /\ {keys[k].agent : k \in job[t].listed} = Active(job[t].proj)

\* The keys list_agents answers with are accepted, and one for every active
\* agent, whatever failed before; and it answers 404 to nobody.  Unless another
\* request or the end of a revocation overlapped.
ListedKeysWork ==
  [][\A t \in Threads :
       \/ (Answers(t, "list", 200) => ListGood(t)') /\ ~Answers(t, "list", 404)
       \/ Raced({"list"}, AccountKinds) \/ lagged]_accountVars

NameGood(t) ==
  \E a \in Active(job[t].proj) :
    agents[a].name = job[t].name /\ keys[job[t].key].agent \in {0, a}

\* Data is stored under the name of the agent whose key came with it, or of
\* the project's default agent for a key without an agent, unless a request
\* that names or deletes agents overlapped or a delete had failed halfway.
IngestUnderOwnName ==
  [][\A t \in Threads :
       Answers(t, "auth", 200) =>
         \/ NameGood(t)'
         \/ Raced({"auth"}, Namers \cup {"delete"}) \/ Raced({"delete"}, Issuers) \/ faults > 0]_accountVars

HomeGood ==
  /\ users = 1 /\ Len(projects) = 1
  /\ \A p \in DOMAIN projects : \E a \in Active(p) : KeysOf(p, a) # {}

\* A login leaves the phone number with one user and one project, which has an
\* agent with a key, also when an earlier login failed halfway through
\* create_project, unless two logins overlapped.
LoginLeavesWorkingProject ==
  [][\A t \in Threads :
       Answers(t, "login", 200) => HomeGood' \/ Raced({"login"}, {"login"})]_accountVars

\* There is one code per resend interval and CodeLimit in all, unless two
\* requests for a code overlapped.
CodesLimited ==
  \/ Cardinality({c \in DOMAIN codes : codes[c].age = 0}) <= 1 /\ Len(codes) <= CodeLimit
  \/ Raced({"code"}, {"code"})

\* A code logs in once and bears MaxTries wrong guesses, unless logins
\* overlapped or one came before an earlier one's mutation was applied; and
\* codes are limited in number.
CodeUsedOnce ==
  /\ CodesLimited
  /\ \A c \in DOMAIN codes :
       \/ codes[c].logins <= 1 /\ codes[c].guesses <= MaxTries
       \/ lagged \/ Raced({"login"}, {"login"})
=============================================================================
