----------------------------- MODULE McpServers -----------------------------
(***************************************************************************)
(* The MCP servers of a project: core/mcp_manager.py over                  *)
(* db/repositories/mcp_repo.py, with its callers, the actions deploy_mcp   *)
(* and request_capability, DELETE /mcp/servers, and the set-up in main.py. *)
(*                                                                         *)
(* A server that is deployed to an agent is a row naming the agent, an     *)
(* entry in the agent's configuration file, and a path on the agent, which *)
(* its invocations pass to the CLI. Every repository call is a transaction *)
(* of its own that does nothing when the row has gone, and each await lets *)
(* the others run. Rory alone deploys, one action at a time; any agent may *)
(* ask for a capability, and the user may remove servers, meanwhile. The   *)
(* table has SQLite's ids (the default database): one more than the        *)
(* greatest, so that the id of a removed row is given again.               *)
(***************************************************************************)
EXTENDS Naturals, FiniteSets, FiniteSetsExt

CONSTANTS
  Clients,     \* agents that may be deployed to
  Recruits,    \* those who are not there at first, and may get a container
  Servers,     \* server ids
  Removers,    \* removals that may be under way at once
  MaxRows,     \* bound on the ids
  MaxDeploys, MaxAsks, MaxRemovals, MaxStops \* bounds on the calls

ASSUME McpAssumption ==
  /\ Recruits \subseteq Clients
  /\ {MaxRows, MaxDeploys, MaxAsks, MaxRemovals, MaxStops} \subseteq Nat

VARIABLES
  rows,      \* table mcp_servers: a function of the ids there are
  config,    \* config[a]: the servers in a's file; there is no file for none
  path,      \* path[a]: whether mcp_config_path is set
  staff,     \* the registry
  container, \* ContainerManager._containers
  up,        \* whether the project runs
  deploy,    \* the deployment under way
  ask,       \* ask[a]: the server a is about to create a request for
  removal,   \* removal[j]: the removal under way
  calls,     \* so far, for the bounds
  stale      \* history: agents whose file was left behind by one of the windows

team == <<staff, container, up>>
files == <<config, path>>
mcpVars == <<rows, files, team, deploy, ask, removal, calls, stale>>

NoRow == 0
NoServer == "none"
Ids == 1..MaxRows

\* package: whether the row names one; a request for a capability does not.
Row == [server: Servers, package: BOOLEAN, agents: SUBSET Clients,
        status: {"pending", "deploying", "installed", "failed"}]

\* lost: history, the row was removed since the deployment knows its id.
NoDeploy == [at |-> "none", agent |-> NoServer, server |-> NoServer, package |-> TRUE,
             row |-> NoRow, read |-> {}, lost |-> FALSE]
NoRemoval == [at |-> "none", row |-> NoRow, todo |-> {}, agent |-> NoServer, read |-> {}]

DeployStages == {"none", "create", "read", "mark", "install", "name", "installed",
           "build", "write", "drop", "failed"}

Deployment == [at: DeployStages, agent: Clients \cup {NoServer},
               server: Servers \cup {NoServer}, package: BOOLEAN,
               row: Ids \cup {NoRow}, read: SUBSET Servers, lost: BOOLEAN]
Removal == [at: {"none", "delete", "build", "write"}, row: Ids \cup {NoRow},
            todo: SUBSET Clients, agent: Clients \cup {NoServer}, read: SUBSET Servers]

McpTypeOK ==
  /\ DOMAIN rows \subseteq Ids /\ \A i \in DOMAIN rows : rows[i] \in Row
  /\ \A i \in DOMAIN rows : rows[i].agents \subseteq staff
  /\ config \in [Clients -> SUBSET Servers] /\ path \in [Clients -> BOOLEAN]
  /\ staff \subseteq Clients /\ container \subseteq staff /\ up \in BOOLEAN
  /\ deploy \in Deployment
  /\ ask \in [Clients -> Servers \cup {NoServer}]
  /\ removal \in [Removers -> Removal]
  /\ calls \in [deploys: 0..MaxDeploys, asks: 0..MaxAsks,
                removals: 0..MaxRemovals, stops: 0..MaxStops]
  /\ stale \subseteq Clients

McpInit ==
  /\ rows = <<>>
  /\ config = [a \in Clients |-> {}] /\ path = [a \in Clients |-> FALSE]
  /\ staff = Clients \ Recruits /\ container = {} /\ up = TRUE
  /\ deploy = NoDeploy /\ ask = [a \in Clients |-> NoServer]
  /\ removal = [j \in Removers |-> NoRemoval]
  /\ calls = [deploys |-> 0, asks |-> 0, removals |-> 0, stops |-> 0]
  /\ stale = {}

-----------------------------------------------------------------------------
(* The repository *)

NewId == IF DOMAIN rows = {} THEN 1 ELSE Max(DOMAIN rows) + 1

Create(server, package) ==
  rows' = [i \in DOMAIN rows \cup {NewId} |->
             IF i = NewId THEN [server |-> server, package |-> package,
                                status |-> "pending", agents |-> {}]
             ELSE rows[i]]

UpdateStatus(r, status) ==
  rows' = [i \in DOMAIN rows |-> IF i = r THEN [rows[i] EXCEPT !.status = status]
                                          ELSE rows[i]]

AddAgent(r, a) ==
  rows' = [i \in DOMAIN rows |-> IF i = r THEN [rows[i] EXCEPT !.agents = @ \cup {a}]
                                          ELSE rows[i]]

Delete(r) == rows' = [i \in DOMAIN rows \ {r} |-> rows[i]]

\* get_for_agent: what a configuration of a that is built now would list.
Served(a) == {rows[i].server : i \in {k \in DOMAIN rows :
                                        rows[k].status = "installed" /\ a \in rows[k].agents}}

\* The servers whose row names the agent, whatever its status.
NamedFor(a) == {rows[i].server : i \in {k \in DOMAIN rows : a \in rows[k].agents}}

\* get_by_server_id: LIMIT 1 without an order takes any of several rows.
Found(server) ==
  LET named == {i \in DOMAIN rows : rows[i].server = server}
  IN  IF named = {} THEN {NoRow} ELSE named

\* request_server, up to the decision: the id it returns, or NoRow if it goes on
\* to create a row. No code makes a row "proposed", the third status that counts.
Existing(server) ==
  {IF i # NoRow /\ rows[i].status \in {"installed", "deploying"} THEN i ELSE NoRow :
     i \in Found(server)}

-----------------------------------------------------------------------------
(* The configuration file *)

\* The end of build_mcp_config, from rows read before: the file is written, or
\* removed when there is nothing to list.
WriteConfig(a, servers) ==
  /\ config' = [config EXCEPT ![a] = servers]
  /\ stale' = IF servers = Served(a) THEN stale \ {a} ELSE stale \cup {a}

-----------------------------------------------------------------------------
(* request_capability *)

RequestCapability(a, s) ==
  /\ up /\ a \in staff /\ ask[a] = NoServer /\ calls.asks < MaxAsks
  /\ NoRow \in Existing(s)
  /\ ask' = [ask EXCEPT ![a] = s]
  /\ calls' = [calls EXCEPT !.asks = @ + 1]
  /\ UNCHANGED <<rows, files, team, deploy, removal, stale>>

\* The request is a row with no package.
CreateRequest(a) ==
  /\ ask[a] # NoServer /\ NewId \in Ids
  /\ Create(ask[a], FALSE)
  /\ ask' = [ask EXCEPT ![a] = NoServer]
  /\ UNCHANGED <<files, team, deploy, removal, calls, stale>>

-----------------------------------------------------------------------------
(* deploy_mcp *)

\* Mutant: whoever Rory names is deployed to.
DeployMcpToAnyone(a, s) ==
  /\ up /\ deploy.at = "none" /\ calls.deploys < MaxDeploys
  /\ \E r \in Existing(s) :
       deploy' = [NoDeploy EXCEPT !.at = IF r = NoRow THEN "create" ELSE "read",
                                  !.agent = a, !.server = s, !.row = r]
  /\ calls' = [calls EXCEPT !.deploys = @ + 1]
  /\ UNCHANGED <<rows, files, team, ask, removal, stale>>

DeployMcp(a, s) ==
  /\ up /\ deploy.at = "none" /\ calls.deploys < MaxDeploys
  /\ a \in staff
  /\ \E r \in Existing(s) :
       deploy' = [NoDeploy EXCEPT !.at = IF r = NoRow THEN "create" ELSE "read",
                                  !.agent = a, !.server = s, !.row = r]
  /\ calls' = [calls EXCEPT !.deploys = @ + 1]
  /\ UNCHANGED <<rows, files, team, ask, removal, stale>>

DeployCreate ==
  /\ deploy.at = "create" /\ NewId \in Ids
  /\ Create(deploy.server, TRUE)
  /\ deploy' = [deploy EXCEPT !.at = "read", !.row = NewId]
  /\ UNCHANGED <<files, team, ask, removal, calls, stale>>

\* The record is read once: its package is what will be installed. Without it
\* the deployment fails.
DeployRead ==
  /\ deploy.at = "read"
  /\ deploy' = IF deploy.row \in DOMAIN rows
               THEN [deploy EXCEPT !.at = "mark", !.package = rows[deploy.row].package]
               ELSE NoDeploy
  /\ UNCHANGED <<rows, files, team, ask, removal, calls, stale>>

DeployMark ==
  /\ deploy.at = "mark"
  /\ UpdateStatus(deploy.row, "deploying")
  /\ deploy' = [deploy EXCEPT !.at = IF deploy.agent \in container THEN "install" ELSE "name"]
  /\ UNCHANGED <<files, team, ask, removal, calls, stale>>

\* docker exec: a row without a package is refused.
DeployInstall ==
  /\ deploy.at = "install" /\ deploy.package
  /\ deploy' = [deploy EXCEPT !.at = "name"]
  /\ UNCHANGED <<rows, files, team, ask, removal, calls, stale>>

\* No package, an invalid name for one, a failed or timed-out installation, or a database error.
DeployFails ==
  /\ deploy.at \in {"install", "name", "installed", "build"}
  /\ deploy' = [deploy EXCEPT !.at = "failed"]
  /\ UNCHANGED <<rows, files, team, ask, removal, calls, stale>>

DeployFailed ==
  /\ deploy.at = "failed"
  /\ UpdateStatus(deploy.row, "failed")
  /\ deploy' = NoDeploy
  /\ UNCHANGED <<files, team, ask, removal, calls, stale>>

\* Mutant: the configuration is built before the row is installed.
AfterBuildFirst(stage) ==
  CASE stage = "name" -> "build"
    [] stage = "build" -> "write"
    [] stage = "write" -> "installed"
    [] stage = "installed" -> "drop"

\* The order of the last steps: update_env and add_agent, the status, the
\* configuration, the session.
After(stage) ==
  CASE stage = "name" -> "installed"
    [] stage = "installed" -> "build"
    [] stage = "build" -> "write"
    [] stage = "write" -> "drop"

DeployName ==
  /\ deploy.at = "name"
  /\ AddAgent(deploy.row, deploy.agent)
  /\ deploy' = [deploy EXCEPT !.at = After("name")]
  /\ UNCHANGED <<files, team, ask, removal, calls, stale>>

DeployInstalled ==
  /\ deploy.at = "installed"
  /\ UpdateStatus(deploy.row, "installed")
  /\ deploy' = [deploy EXCEPT !.at = After("installed")]
  /\ UNCHANGED <<files, team, ask, removal, calls, stale>>

DeployBuild ==
  /\ deploy.at = "build"
  /\ deploy' = [deploy EXCEPT !.at = After("build"), !.read = Served(deploy.agent)]
  /\ UNCHANGED <<rows, files, team, ask, removal, calls, stale>>

\* build_mcp_config returns to connect_to_agent without another await: the path
\* is set if the file was written.
DeployWrite ==
  /\ deploy.at = "write"
  /\ WriteConfig(deploy.agent, deploy.read)
  /\ path' = [path EXCEPT ![deploy.agent] = @ \/ deploy.read # {}]
  /\ deploy' = [deploy EXCEPT !.at = After("write")]
  /\ UNCHANGED <<rows, team, ask, removal, calls>>

\* The agent's session is invalidated and both agents are told of the success.
DeployDone ==
  /\ deploy.at = "drop"
  /\ deploy' = NoDeploy
  /\ UNCHANGED <<rows, files, team, ask, removal, calls, stale>>

-----------------------------------------------------------------------------
(* DELETE /mcp/servers/{id}: the row and its agents are read, *)
(* then the row is deleted, then each of these agents' files is built again. *)

RemoveServer(j, r) ==
  /\ up /\ removal[j].at = "none" /\ calls.removals < MaxRemovals
  /\ r \in DOMAIN rows
  /\ removal' = [removal EXCEPT ![j] = [NoRemoval EXCEPT !.at = "delete", !.row = r,
                                                         !.todo = rows[r].agents]]
  /\ calls' = [calls EXCEPT !.removals = @ + 1]
  /\ UNCHANGED <<rows, files, team, deploy, ask, stale>>

\* Where a removal goes when it has `todo` agents left.
Rebuilding(j, todo) ==
  removal' = [removal EXCEPT ![j] = IF todo = {} THEN NoRemoval
                                    ELSE [@ EXCEPT !.at = "build", !.todo = todo]]

\* Mutant: the record alone is removed.
RemoveRecordOnly(j) ==
  /\ removal[j].at = "delete"
  /\ LET r == removal[j].row
     IN  /\ Delete(r)
         /\ stale' = stale \cup (IF r \in DOMAIN rows THEN rows[r].agents \ removal[j].todo
                                                      ELSE {})
         /\ deploy' = [deploy EXCEPT !.lost = @ \/ deploy.row = r]
  /\ Rebuilding(j, {})
  /\ UNCHANGED <<files, team, ask, calls>>

RemoveRecord(j) ==
  /\ removal[j].at = "delete"
  /\ LET r == removal[j].row
     IN  /\ Delete(r)
         /\ stale' = stale \cup (IF r \in DOMAIN rows THEN rows[r].agents \ removal[j].todo
                                                      ELSE {})
         /\ deploy' = [deploy EXCEPT !.lost = @ \/ deploy.row = r]
  /\ Rebuilding(j, removal[j].todo)
  /\ UNCHANGED <<files, team, ask, calls>>

RemoveBuild(j, a) ==
  /\ removal[j].at = "build" /\ a \in removal[j].todo
  /\ removal' = [removal EXCEPT ![j].at = "write", ![j].agent = a, ![j].read = Served(a)]
  /\ UNCHANGED <<rows, files, team, deploy, ask, calls, stale>>

\* The path of an agent that is left without a file stays set.
RemoveWrite(j) ==
  /\ removal[j].at = "write"
  /\ WriteConfig(removal[j].agent, removal[j].read)
  /\ Rebuilding(j, removal[j].todo \ {removal[j].agent})
  /\ UNCHANGED <<rows, path, team, deploy, ask, calls>>

-----------------------------------------------------------------------------
(* Agents come, and the project or the process stops and starts. *)

\* create_container finds, starts or makes the container of the agent, or raises.
Contained(a) == {container, container \cup {a}}

\* A container is started for a recruit; if that fails the agent runs locally.
Recruit(a) ==
  /\ up /\ a \notin staff
  /\ staff' = staff \cup {a}
  /\ container' \in Contained(a)
  /\ UNCHANGED <<rows, files, up, deploy, ask, removal, calls, stale>>

\* stop_all, and the table that a new process starts with.
NoContainer == {}

\* stop_project cancels the agents in the middle of what they do, and stops the
\* containers; requests go on. A crash ends these too.
Stop(crash) ==
  /\ up /\ calls.stops < MaxStops
  /\ up' = FALSE /\ container' = NoContainer
  /\ path' = [a \in Clients |-> FALSE]
  /\ deploy' = NoDeploy /\ ask' = [a \in Clients |-> NoServer]
  /\ IF crash
     THEN /\ removal' = [j \in Removers |-> NoRemoval]
          /\ stale' = stale \cup UNION {removal[j].todo : j \in {k \in Removers :
                                          removal[k].at \in {"build", "write"}}}
     ELSE UNCHANGED <<removal, stale>>
  /\ calls' = [calls EXCEPT !.stops = @ + 1]
  /\ UNCHANGED <<rows, config, staff>>

\* Who has a file gets its path back; containers are made for recruits only.
Start ==
  /\ ~up
  /\ up' = TRUE
  /\ path' = [a \in Clients |-> a \in staff /\ config[a] # {}]
  /\ UNCHANGED <<rows, config, staff, container, deploy, ask, removal, calls, stale>>

-----------------------------------------------------------------------------

McpNext ==
  \/ \E a \in Clients : Recruit(a) \/ CreateRequest(a)
  \/ \E a \in Clients, s \in Servers :
       RequestCapability(a, s) \/ DeployMcp(a, s)
  \/ DeployCreate \/ DeployRead \/ DeployMark \/ DeployInstall
  \/ DeployFails \/ DeployFailed
  \/ DeployName \/ DeployInstalled \/ DeployBuild \/ DeployWrite \/ DeployDone
  \/ \E j \in Removers :
       \/ \E r \in Ids : RemoveServer(j, r)
       \/ RemoveRecord(j) \/ RemoveWrite(j)
       \/ \E a \in Clients : RemoveBuild(j, a)
  \/ \E crash \in BOOLEAN : Stop(crash)
  \/ Start

McpSpec == McpInit /\ [][McpNext]_mcpVars

-----------------------------------------------------------------------------
(* Properties *)

\* remove_server promises to rebuild the affected configurations: but for the
\* agents that a removal has still to come to, no file lists a server whose last
\* row for the agent was removed, however deployments, requests, restarts and
\* other removals come in between. The exceptions are the three windows that
\* `stale` records: a file written from rows read before another change, an agent
\* added to the row after the removal read it, and a crash before the rebuild.
RemovedIsGone ==
  \A a \in Clients :
    \/ a \in stale
    \/ \E j \in Removers : removal[j].at \in {"build", "write"} /\ a \in removal[j].todo
    \/ config[a] \subseteq NamedFor(a)

\* "Remove an MCP server record and rebuild affected agent configs", with no exception.
\* False of the code in each of the three windows.
AffectedAreRebuilt ==
  \A a \in Clients :
    \/ \E j \in Removers : removal[j].at \in {"build", "write"} /\ a \in removal[j].todo
    \/ config[a] \subseteq NamedFor(a)

\* When deploy_mcp reports success, the agent has the path of a file that lists
\* the server, whatever was removed, requested or deployed to others meanwhile:
\* unless the row itself was removed under the deployment, or another build of
\* the same file overtook it with rows read before (see `stale`).
DeployedIsServed ==
  [][ (deploy.at = "drop" /\ deploy'.at = "none" /\ up')
        => \/ deploy.lost \/ deploy.agent \in stale
           \/ path[deploy.agent] /\ deploy.server \in config[deploy.agent] ]_mcpVars

=============================================================================
