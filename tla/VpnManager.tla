----------------------------- MODULE VpnManager -----------------------------
(***************************************************************************)
(* The VPN manager (internal/vpn/manager.go), its four drivers, the table  *)
(* of ExpressVPN sessions, and the handlers that call it.                  *)
(*                                                                         *)
(* One mutex is held over a whole Connect or Disconnect, the driver's work *)
(* included; rows are created and deleted with no lock held.  Rows,        *)
(* sessions, network namespaces and the tunnel of the expressvpn CLI       *)
(* outlive the process; the manager's and the drivers' maps do not.        *)
(***************************************************************************)
EXTENDS Naturals, Sequences, FiniteSets

CONSTANTS Node,        \* VPN nodes, each created once
          Agent,       \* agents a node may be assigned to
          LocalAgent,
          NoAgent,
          Types,       \* the driver types nodes are created with
          Req,         \* HTTP requests in flight (bound)
          Free,        \* the mutex is not held
          NoNode,      \* the CLI has no tunnel
          MaxCrashes   \* ends of the process (bound)

ASSUME VpnAssumption ==
    /\ LocalAgent \in Agent /\ NoAgent \notin Agent
    /\ Types \subseteq {"mock", "wireguard", "expressvpn", "expressvpn_mock", "openvpn"}
    /\ Free \notin Req
    /\ NoNode \notin Node
    /\ MaxCrashes \in Nat

VARIABLES row,      \* row[n]: status column of the node, or "none"
          made,     \* made[n]: type and agent the node was created with
          sessions, \* sessions[n]: session rows of n that say connected
          active,   \* the manager's map: nodes with an interface
          held,     \* the drivers' maps
          netns,    \* nodes whose network namespace exists
          cli,      \* the node the expressvpn CLI is connected for
          lock,     \* holder of the manager's mutex
          proc,     \* proc[q]: where a request stands and what it has to do
          raced,    \* history: nodes connected within, or kept up by, a removal
          left,     \* history: rows an ended process left as up, not redone yet
          crashes

vars == <<row, made, sessions, active, held, netns, cli, lock, proc, raced, left, crashes>>
-----------------------------------------------------------------------------
Status  == {"none", "disconnected", "connecting", "connected", "failed"}
Unmade  == [type |-> "none", agent |-> NoAgent]
Made    == [type : Types, agent : Agent]
Created == {n \in Node : made[n] # Unmade}

\* Connect and Disconnect work on a copy of the row.
Idle == [pc |-> "idle", todo |-> <<>>, node |-> NoNode, copy |-> "none"]

Type(n)    == made[n].type
Express(n) == Type(n) \in {"expressvpn", "expressvpn_mock"}
HasDriver(n) == Type(n) # "openvpn"
Mates(n)   == {m \in Node : made[m].agent = made[n].agent}

Init == /\ row = [n \in Node |-> "none"]
        /\ made = [n \in Node |-> Unmade]
        /\ sessions = [n \in Node |-> 0]
        /\ active = {} /\ held = {} /\ netns = {}
        /\ cli = NoNode
        /\ lock = Free
        /\ proc = [q \in Req |-> Idle]
        /\ raced = {} /\ left = {}
        /\ crashes = 0

Goto(q, pc)       == proc' = [proc EXCEPT ![q] = [@ EXCEPT !.pc = pc]]
Copied(q, pc, st) == proc' = [proc EXCEPT ![q] = [@ EXCEPT !.pc = pc, !.copy = st]]
Turn(q, op) == proc[q].pc = "ready" /\ Head(proc[q].todo) = op
At(q, pc)   == proc[q].pc = pc

\* The call returns; an error ends the handler, but not DeleteVPN.
Rest(p)   == IF Tail(p.todo) = <<>> THEN Idle ELSE [p EXCEPT !.pc = "ready", !.todo = Tail(p.todo)]
Return(q) == proc' = [proc EXCEPT ![q] = Rest(@)]
Fail(q) == IF "delete" \in {proc[q].todo[i] : i \in DOMAIN proc[q].todo}
           THEN Return(q) ELSE proc' = [proc EXCEPT ![q] = Idle]

\* db.Save of the whole row: it inserts a row that was deleted meanwhile.
SaveAs(n, status) == row' = [row EXCEPT ![n] = status]
-----------------------------------------------------------------------------
(* Connect.                                                                *)

\* Mutant of AgentBusy: the sessions are not consulted.
NeverBusy(n) == FALSE
\* GetActiveByAgent shows one connected session of the agent: another's?
AgentBusy(n) == Express(n) /\ \E m \in Mates(n) \ {n} : sessions[m] > 0

\* Mutant of AlreadyUp: the manager's map is not consulted.
NeverUp(n) == FALSE
AlreadyUp(n) == row[n] = "connected" /\ n \in active

\* The row is gone, the interface is up already, the agent has a session of
\* another node, or the type has no driver: nothing changes.
ConnectReturns(q) ==
    LET n == proc[q].node
    IN /\ Turn(q, "connect")
       /\ lock = Free
       /\ \/ row[n] # "none" /\ AlreadyUp(n) /\ Return(q)
          \/ (row[n] = "none" \/ (~AlreadyUp(n) /\ (AgentBusy(n) \/ ~HasDriver(n)))) /\ Fail(q)
       /\ UNCHANGED <<row, made, sessions, active, held, netns, cli, lock, raced, left, crashes>>

\* Another request that removes n has disconnected it already.
RemovalPassed(n) == \E r \in Req : proc[r].node = n /\ proc[r].todo = <<"delete">>

EnterConnect(q) ==
    LET n == proc[q].node
    IN /\ Turn(q, "connect")
       /\ lock = Free
       /\ row[n] # "none" /\ ~AlreadyUp(n) /\ ~AgentBusy(n) /\ HasDriver(n)
       /\ lock' = q
       /\ raced' = IF RemovalPassed(n) THEN raced \cup {n} ELSE raced
       /\ Copied(q, "announce", "connecting")
       /\ UNCHANGED <<row, made, sessions, active, held, netns, cli, left, crashes>>

SaveConnecting(q) ==
    /\ At(q, "announce")
    /\ SaveAs(proc[q].node, "connecting")
    /\ Goto(q, "dial")
    /\ UNCHANGED <<made, sessions, active, held, netns, cli, lock, raced, left, crashes>>

\* The driver keeps its entry and leaves the copy as it is.
DriverHasIt(n) == n \in held /\ Type(n) # "expressvpn"
\* Mutant of DriverUp: the copy is not changed.
UpUntold(q, n) == held' = held \cup {n} /\ Copied(q, "session", proc[q].copy)
DriverUp(q, n) == held' = held \cup {n} /\ Copied(q, "session", "connected")
DriverFails(q) == Copied(q, "failed", "failed") /\ UNCHANGED held

MockConnect(q, n) ==
    /\ ~DriverHasIt(n) /\ Type(n) \in {"mock", "expressvpn_mock"}
    /\ DriverUp(q, n) \/ (Type(n) = "expressvpn_mock" /\ DriverFails(q))
    /\ UNCHANGED <<netns, cli>>

\* The namespace must not exist, and goes again when a later command fails.
WireGuardConnect(q, n) ==
    /\ ~DriverHasIt(n) /\ Type(n) = "wireguard"
    /\ \/ n \notin netns /\ DriverUp(q, n) /\ netns' = netns \cup {n}
       \/ DriverFails(q) /\ netns' \in {netns, netns \ {n}}
    /\ UNCHANGED cli

\* The CLI has one tunnel for the host; a cancelled request leaves it up, the
\* timeout of the poll takes it down.
ExpressConnect(q, n) ==
    /\ Type(n) = "expressvpn"
    /\ \/ DriverUp(q, n) /\ cli' = n
       \/ DriverFails(q) /\ cli' \in {cli, n, NoNode}
    /\ UNCHANGED netns

DriverConnect(q) ==
    LET n == proc[q].node
    IN /\ At(q, "dial")
       /\ \/ DriverHasIt(n) /\ Goto(q, "session") /\ UNCHANGED <<held, netns, cli>>
          \/ MockConnect(q, n) \/ WireGuardConnect(q, n) \/ ExpressConnect(q, n)
       /\ UNCHANGED <<row, made, sessions, active, lock, raced, left, crashes>>

CreateSession(q) ==
    LET n == proc[q].node
    IN /\ At(q, "session")
       /\ sessions' = IF Express(n) THEN [sessions EXCEPT ![n] = @ + 1] ELSE sessions
       /\ Goto(q, "publish")
       /\ UNCHANGED <<row, made, active, held, netns, cli, lock, raced, left, crashes>>

\* Mutant of Leave: the mutex is kept.
LeaveLocked(q) == UNCHANGED lock
Leave(q) == lock' = Free
SaveConnected(q) ==
    LET n == proc[q].node
    IN /\ At(q, "publish")
       /\ active' = active \cup {n}
       /\ SaveAs(n, proc[q].copy)
       /\ Leave(q) /\ Return(q)
       /\ left' = left \ {n}
       /\ UNCHANGED <<made, sessions, held, netns, cli, raced, crashes>>

SaveFailed(q) ==
    LET n == proc[q].node
    IN /\ At(q, "failed")
       /\ SaveAs(n, "failed")
       /\ Leave(q) /\ Fail(q)
       /\ left' = left \ {n}
       /\ UNCHANGED <<made, sessions, active, held, netns, cli, raced, crashes>>
-----------------------------------------------------------------------------
(* Disconnect.                                                             *)

DisconnectReturns(q) ==
    /\ Turn(q, "disconnect")
    /\ lock = Free
    /\ row[proc[q].node] = "none" \/ ~HasDriver(proc[q].node)
    /\ Fail(q)
    /\ UNCHANGED <<row, made, sessions, active, held, netns, cli, lock, raced, left, crashes>>

EnterDisconnect(q) ==
    LET n == proc[q].node
    IN /\ Turn(q, "disconnect")
       /\ lock = Free
       /\ row[n] # "none" /\ HasDriver(n)
       /\ lock' = q
       /\ Copied(q, "hangup", row[n])
       /\ UNCHANGED <<row, made, sessions, active, held, netns, cli, raced, left, crashes>>

DriverDown(q, n) == held' = held \ {n} /\ Copied(q, "close", "disconnected")

MockDisconnect(q, n) ==
    Type(n) \in {"mock", "expressvpn_mock"} /\ DriverDown(q, n) /\ UNCHANGED <<netns, cli>>

\* Nothing is done for a node the driver does not hold, though its row may
\* say connected.
WireGuardDisconnect(q, n) ==
    /\ Type(n) = "wireguard"
    /\ \/ n \notin held /\ Goto(q, "close") /\ UNCHANGED <<held, netns>>
       \/ n \in held /\ DriverDown(q, n) /\ netns' = netns \ {n}
    /\ UNCHANGED cli

\* The CLI takes down whatever it has.
ExpressDisconnect(q, n) ==
    Type(n) = "expressvpn" /\ DriverDown(q, n) /\ cli' = NoNode /\ UNCHANGED netns

DriverDisconnect(q) ==
    LET n == proc[q].node
    IN /\ At(q, "hangup")
       /\ MockDisconnect(q, n) \/ WireGuardDisconnect(q, n) \/ ExpressDisconnect(q, n)
       /\ UNCHANGED <<row, made, sessions, active, lock, raced, left, crashes>>

\* An external command fails; a removal goes on nevertheless.
DisconnectFails(q) ==
    LET n == proc[q].node
    IN /\ At(q, "hangup")
       /\ Type(n) = "expressvpn" \/ (Type(n) = "wireguard" /\ n \in held)
       /\ raced' = IF proc[q].todo = <<"disconnect", "delete">> THEN raced \cup {n} ELSE raced
       /\ Leave(q) /\ Fail(q)
       /\ UNCHANGED <<row, made, sessions, active, held, netns, cli, left, crashes>>

\* Some connected session of the agent is closed, of this node or not.
CloseSession(q) ==
    LET n == proc[q].node
        open == {m \in Mates(n) : sessions[m] > 0}
    IN /\ At(q, "close")
       /\ \/ /\ Express(n)
             /\ \E m \in open : sessions' = [sessions EXCEPT ![m] = @ - 1]
          \/ /\ ~Express(n) \/ open = {}
             /\ UNCHANGED sessions
       /\ Goto(q, "retire")
       /\ UNCHANGED <<row, made, active, held, netns, cli, lock, raced, left, crashes>>

SaveDisconnected(q) ==
    LET n == proc[q].node
    IN /\ At(q, "retire")
       /\ active' = active \ {n}
       /\ SaveAs(n, proc[q].copy)
       /\ Leave(q) /\ Return(q)
       /\ UNCHANGED <<made, sessions, held, netns, cli, raced, left, crashes>>
-----------------------------------------------------------------------------
(* The handlers.                                                           *)

Begin(q, n, todo) ==
    /\ proc[q].pc = "idle"
    /\ proc' = [proc EXCEPT ![q] = [pc |-> "ready", todo |-> todo, node |-> n, copy |-> "none"]]
    /\ UNCHANGED <<row, made, sessions, active, held, netns, cli, lock, raced, left, crashes>>

CreateNode(n, type, agent) ==
    /\ n \notin Created
    /\ made' = [made EXCEPT ![n] = [type |-> type, agent |-> agent]]
    /\ row' = [row EXCEPT ![n] = "disconnected"]
    /\ UNCHANGED <<sessions, active, held, netns, cli, lock, proc, raced, left, crashes>>

CreateVPN(n) == \E type \in Types : CreateNode(n, type, LocalAgent)
CreateExpressVPNNode(n) ==
    \E type \in Types \cap {"expressvpn", "expressvpn_mock"}, agent \in Agent : CreateNode(n, type, agent)

ConnectVPN(q, n)    == n \in Created /\ Begin(q, n, <<"connect">>)
DisconnectVPN(q, n) == n \in Created /\ Begin(q, n, <<"disconnect">>)
ConnectAndCreateProxy(q, n) == n \in Created /\ Begin(q, n, <<"connect", "verify">>)
\* Also for nodes of other types: the type is not checked.
ValidateNode(q, n)  == n \in Created /\ Begin(q, n, <<"connect", "disconnect">>)
\* Mutant of DeleteVPN: the node is not disconnected first.
DeleteOnly(q, n)    == n \in Created /\ Begin(q, n, <<"delete">>)
DeleteVPN(q, n)     == n \in Created /\ Begin(q, n, <<"disconnect", "delete">>)

\* ConnectAndCreateProxy reads the row again; the proxy itself is ProxyManager's.
VerifyConnected(q) ==
    /\ Turn(q, "verify")
    /\ Return(q)
    /\ UNCHANGED <<row, made, sessions, active, held, netns, cli, lock, raced, left, crashes>>

\* The row is deleted beside the lock, so also beside a call for it.
DeleteRow(q) ==
    LET n == proc[q].node
    IN /\ Turn(q, "delete")
       /\ SaveAs(n, "none")
       /\ Return(q)
       /\ UNCHANGED <<made, sessions, active, held, netns, cli, lock, raced, left, crashes>>

\* The process ends, gracefully or not: no tunnel is taken down.
ProcessEnds ==
    /\ crashes < MaxCrashes
    /\ crashes' = crashes + 1
    /\ active' = {} /\ held' = {}
    /\ lock' = Free
    /\ proc' = [q \in Req |-> Idle]
    /\ raced' = {}
    /\ left' = {n \in Node : row[n] \in {"connecting", "connected"}}
    /\ UNCHANGED <<row, made, sessions, netns, cli>>

Step(q) == \/ ConnectReturns(q) \/ EnterConnect(q) \/ SaveConnecting(q) \/ DriverConnect(q)
           \/ CreateSession(q) \/ SaveConnected(q) \/ SaveFailed(q)
           \/ DisconnectReturns(q) \/ EnterDisconnect(q) \/ DriverDisconnect(q)
           \/ DisconnectFails(q) \/ CloseSession(q) \/ SaveDisconnected(q)
           \/ VerifyConnected(q) \/ DeleteRow(q)

Request(q, n) == \/ ConnectVPN(q, n) \/ DisconnectVPN(q, n) \/ ConnectAndCreateProxy(q, n)
                 \/ ValidateNode(q, n) \/ DeleteVPN(q, n)

Next == \/ \E n \in Node : CreateVPN(n) \/ CreateExpressVPNNode(n)
        \/ \E q \in Req : Step(q) \/ \E n \in Node : Request(q, n)
        \/ ProcessEnds

Spec == Init /\ [][Next]_vars
-----------------------------------------------------------------------------
Pcs == {"idle", "ready", "announce", "dial", "session", "publish", "failed",
        "hangup", "close", "retire"}
Todos == {<<>>, <<"connect">>, <<"disconnect">>, <<"connect", "verify">>, <<"verify">>,
          <<"connect", "disconnect">>, <<"disconnect", "delete">>, <<"delete">>}

\* Type invariant: rows, maps, and the requests inside the mutex.
TypeOK ==
    /\ row \in [Node -> Status]
    /\ made \in [Node -> Made \cup {Unmade}]
    /\ sessions \in [Node -> Nat]
    /\ active \in SUBSET Node /\ held \in SUBSET Node /\ netns \in SUBSET Node
    /\ cli \in Node \cup {NoNode}
    /\ lock \in Req \cup {Free}
    /\ proc \in [Req -> [pc : Pcs, todo : Todos, node : Node \cup {NoNode}, copy : Status]]
    /\ \A q \in Req : (proc[q].pc \notin {"idle", "ready"}) <=> lock = q
    /\ \A q \in Req : proc[q].pc # "idle" => proc[q].todo # <<>> /\ proc[q].node \in Created
    /\ raced \in SUBSET Node /\ left \in SUBSET Node
    /\ crashes \in Nat

\* The single-session rule as the table keeps it: the connected sessions of an
\* agent are all of one node, whichever session a Disconnect of any node of the
\* agent closes, and through restarts that lose the manager's map.
SessionsAgree ==
    \A n, m \in Node : made[n].agent = made[m].agent /\ sessions[n] > 0 /\ sessions[m] > 0 => n = m

\* The manager and the drivers agree on what is up whenever no call is under
\* way, for drivers that fail at any point and calls in any order.
ActiveIsDriven == lock = Free => active = held

\* A row says connected exactly when an interface is up, and never connecting,
\* between calls; except a row an earlier process left, until a Connect of it.
RowsMatchInterfaces ==
    lock = Free =>
        \A n \in Node \ left : /\ row[n] # "connecting"
                               /\ row[n] = "connected" => n \in active
                               /\ n \in active => row[n] \in {"connected", "none"}

\* A WireGuard interface the driver holds has its namespace: the clean-up of a
\* failed Connect never deletes the namespace of a live tunnel.
TunnelsExist ==
    \A n \in held : Type(n) = "wireguard" => n \in netns

\* An interface without a row cannot be disconnected again.  It takes a failed
\* driver, or a Connect for the node between the two steps of its removal.
OrphansWereRaced == lock = Free => \A n \in active : row[n] = "none" => n \in raced

\* A node has at most one connected session for each run of the process.
SessionsPerRun == \A n \in Node : sessions[n] <= 1 + crashes

\* manager.go:70, "ExpressVPN host-level routing single-session check": an
\* agent has one ExpressVPN node up at a time.
SingleSession ==
    \A n, m \in active : Express(n) /\ Express(m) /\ made[n].agent = made[m].agent => n = m
=============================================================================
