---------------------------- MODULE AgentPresence ----------------------------
(***************************************************************************)
(* Who is an agent, and is it there: the agents and agent_credentials      *)
(* tables as the agent gateway (internal/api/websocket.go), the heartbeat  *)
(* service with its offline sweep (internal/health/agent_service.go) and   *)
(* the agent handlers (internal/api/handler.go) read and write them.       *)
(*                                                                         *)
(* Every statement of the database is one step; every handler reads a row, *)
(* changes its own copy and saves the WHOLE row later, and a save of a row *)
(* that has been deleted inserts it again.  A time stamp is kept as        *)
(* "recent": at most 90 seconds old.                                       *)
(***************************************************************************)
EXTENDS Naturals

CONSTANTS Agent,      \* agent identities
          NoAgent,
          Token,      \* tokens, each generated once (bound on the rotations)
          NoToken,    \* no credential row
          Conn,       \* websocket handlers (bound on the connections)
          NoConn,
          Req,        \* HTTP request handlers in flight (bound)
          MaxCrashes  \* crashes of the server (bound)

ASSUME PresenceAssumption ==
    /\ NoAgent \notin Agent
    /\ NoToken \notin Token
    /\ NoConn \notin Conn
    /\ Conn \cap Req = {}
    /\ MaxCrashes \in Nat

VARIABLES row,       \* row[a]: the agents row
          cred,      \* cred[a]: the agent_credentials row
          issued,    \* tokens that were generated and stored
          lapsed,    \* tokens past their ExpiresAt
          cache,     \* cache[a]: the heartbeat service's cached time stamp
          registry,  \* registry[a]: the connection the command bus knows
          proc,      \* proc[p]: a connection handler or a request handler
          sweep,     \* the offline sweep: rows listed and not yet handled
          marking,   \* rows the sweep has found silent and will save
          crashes

vars == <<row, cred, issued, lapsed, cache, registry, proc, sweep, marking, crashes>>
-----------------------------------------------------------------------------
Row  == [present : BOOLEAN, status : {"healthy", "offline"}, recent : BOOLEAN]
NoRow == [present |-> FALSE, status |-> "offline", recent |-> FALSE]
Cred == [hash : Token \cup {NoToken}, revoked : BOOLEAN]
NoCred == [hash |-> NoToken, revoked |-> FALSE]
Online  == [present |-> TRUE, status |-> "healthy", recent |-> TRUE]
\* Mutant of Offline: a status the readers of the table do not know.
Disconnected(copy) == [copy EXCEPT !.status = "disconnected"]
Offline(copy) == [copy EXCEPT !.status = "offline"]   \* agent.Status = "offline"

Proc == Conn \cup Req
Blank == [pc |-> "idle", agent |-> NoAgent, copy |-> NoRow, cred |-> NoCred]
Fresh == Token \ issued

\* A token the handshake accepts for agent a.
Live(a) == {t \in Token : cred[a].hash = t /\ ~cred[a].revoked}

Init == /\ row = [a \in Agent |-> NoRow]
        /\ cred = [a \in Agent |-> NoCred]
        /\ issued = {}
        /\ lapsed = {}
        /\ cache = [a \in Agent |-> "none"]
        /\ registry = [a \in Agent |-> NoConn]
        /\ proc = [p \in Proc |-> Blank]
        /\ sweep = {}
        /\ marking = {}
        /\ crashes = 0

\* A handler starts for agent a; it goes on at pc with no row in hand.
Begin(p, a, pc) == proc' = [proc EXCEPT ![p] = [Blank EXCEPT !.pc = pc, !.agent = a]]
Goto(p, pc) == IF pc \in {"idle", "closed"} THEN Begin(p, NoAgent, pc)
                                            ELSE Begin(p, proc[p].agent, pc)

\* p reads the agents row: it goes on at found, or at missing without one.
Read(p, found, missing) ==
    LET a == proc[p].agent
    IN /\ IF row[a].present
          THEN proc' = [proc EXCEPT ![p] = [@ EXCEPT !.pc = found, !.copy = row[a]]]
          ELSE Goto(p, missing)
       /\ UNCHANGED <<row, cred, issued, lapsed, cache, registry, sweep, marking, crashes>>

\* p saves a whole agents row and goes on at pc.
Save(p, new, pc) ==
    /\ row' = [row EXCEPT ![proc[p].agent] = new]
    /\ Goto(p, pc)
    /\ UNCHANGED <<cred, issued, lapsed, cache, registry, sweep, marking, crashes>>
-----------------------------------------------------------------------------
(* The connection handler of the agent gateway.                            *)

\* The token's credential is looked up; any other token is refused.
Handshake(k, t) ==
    /\ proc[k].pc = "idle"
    /\ t \in issued \ lapsed
    /\ \E a \in Agent : t \in Live(a) /\ Begin(k, a, "register")
    /\ UNCHANGED <<row, cred, issued, lapsed, cache, registry, sweep, marking, crashes>>

Register(k) ==
    /\ proc[k].pc = "register"
    /\ registry' = [registry EXCEPT ![proc[k].agent] = k]
    /\ Goto(k, "online")
    /\ UNCHANGED <<row, cred, issued, lapsed, cache, sweep, marking, crashes>>

ReadOnline(k) == proc[k].pc = "online" /\ Read(k, "saveOnline", "serve")
SaveOnline(k) == proc[k].pc = "saveOnline" /\ Save(k, Online, "serve")

\* Mutant of Unregister: the registration stays.
KeepRegistered(k) ==
    /\ k \in Conn
    /\ proc[k].pc = "serve"
    /\ Goto(k, "leave")
    /\ UNCHANGED <<row, cred, issued, lapsed, cache, registry, sweep, marking, crashes>>

\* The read loop ends: an error, a closed socket, or 60 seconds of silence.
Unregister(k) ==
    /\ k \in Conn
    /\ proc[k].pc = "serve"
    /\ registry' = [registry EXCEPT ![proc[k].agent] = NoConn]
    /\ Goto(k, "leave")
    /\ UNCHANGED <<row, cred, issued, lapsed, cache, sweep, marking, crashes>>

ReadLeave(k) == proc[k].pc = "leave" /\ Read(k, "saveLeave", "closed")
SaveLeave(k) == proc[k].pc = "saveLeave" /\ Save(k, Offline(proc[k].copy), "closed")
-----------------------------------------------------------------------------
(* RecordHeartbeat, called by the read loop and by ReceiveHeartbeat.       *)

Rest(p) == IF p \in Conn THEN "serve" ELSE "idle"

CacheBeat(p, a) ==
    /\ \/ p \in Conn /\ proc[p].pc = "serve" /\ proc[p].agent = a /\ Goto(p, "beat")
       \/ p \in Req /\ proc[p].pc = "idle" /\ Begin(p, a, "beat")
    /\ cache' = [cache EXCEPT ![a] = "recent"]
    /\ UNCHANGED <<row, cred, issued, lapsed, registry, sweep, marking, crashes>>

ReadBeat(p) == proc[p].pc = "beat" /\ Read(p, "saveBeat", Rest(p))
SaveBeat(p) == proc[p].pc = "saveBeat" /\ Save(p, Online, Rest(p))
-----------------------------------------------------------------------------
(* The agent handlers.                                                     *)

\* RegisterAgentWithToken: the row, then the credential; each insert fails
\* if there is one already.
CreateAgent(q, a) ==
    /\ proc[q].pc = "idle"
    /\ ~row[a].present
    /\ row' = [row EXCEPT ![a] = [present |-> TRUE, status |-> "offline", recent |-> TRUE]]
    /\ Begin(q, a, "issue")
    /\ UNCHANGED <<cred, issued, lapsed, cache, registry, sweep, marking, crashes>>

IssueToken(q) ==
    /\ proc[q].pc = "issue"
    /\ LET a == proc[q].agent
       IN IF cred[a].hash = NoToken
          THEN \E t \in Fresh : /\ cred' = [cred EXCEPT ![a] = [hash |-> t, revoked |-> FALSE]]
                                /\ issued' = issued \cup {t}
          ELSE UNCHANGED <<cred, issued>>
    /\ Goto(q, "idle")
    /\ UNCHANGED <<row, lapsed, cache, registry, sweep, marking, crashes>>

\* RotateToken: the credential read is kept but for what the save replaces,
\* and everything the handshake looks at is replaced.
ReadRotate(q, a) ==
    /\ proc[q].pc = "idle"
    /\ proc' = [proc EXCEPT ![q] = [Blank EXCEPT !.pc = "rotate", !.agent = a, !.cred = cred[a]]]
    /\ UNCHANGED <<row, cred, issued, lapsed, cache, registry, sweep, marking, crashes>>

SaveRotate(q) ==
    /\ proc[q].pc = "rotate"
    /\ \E t \in Fresh :
          /\ cred' = [cred EXCEPT ![proc[q].agent] =
                          [proc[q].cred EXCEPT !.hash = t, !.revoked = FALSE]]
          /\ issued' = issued \cup {t}
    /\ Goto(q, "idle")
    /\ UNCHANGED <<row, lapsed, cache, registry, sweep, marking, crashes>>

ReadRevoke(q, a) ==
    /\ proc[q].pc = "idle"
    /\ cred[a].hash # NoToken
    /\ proc' = [proc EXCEPT ![q] = [Blank EXCEPT !.pc = "revoke", !.agent = a, !.cred = cred[a]]]
    /\ UNCHANGED <<row, cred, issued, lapsed, cache, registry, sweep, marking, crashes>>

\* Mutant of SaveRevoke: the copy is saved without the mark.
SaveUnrevoked(q) ==
    /\ proc[q].pc = "revoke"
    /\ cred' = [cred EXCEPT ![proc[q].agent] = proc[q].cred]
    /\ Goto(q, "revokeRow")
    /\ UNCHANGED <<row, issued, lapsed, cache, registry, sweep, marking, crashes>>

SaveRevoke(q) ==
    /\ proc[q].pc = "revoke"
    /\ cred' = [cred EXCEPT ![proc[q].agent] = [proc[q].cred EXCEPT !.revoked = TRUE]]
    /\ Goto(q, "revokeRow")
    /\ UNCHANGED <<row, issued, lapsed, cache, registry, sweep, marking, crashes>>

ReadRevokeRow(q) == proc[q].pc = "revokeRow" /\ Read(q, "saveRevokeRow", "drop")
SaveRevokeRow(q) == proc[q].pc = "saveRevokeRow" /\ Save(q, Offline(proc[q].copy), "drop")

\* The last step of RevokeAgent; the connection itself is left open.
DropRegistration(q) ==
    /\ proc[q].pc = "drop"
    /\ registry' = [registry EXCEPT ![proc[q].agent] = NoConn]
    /\ Goto(q, "idle")
    /\ UNCHANGED <<row, cred, issued, lapsed, cache, sweep, marking, crashes>>

\* DeleteAgent: the row only; the credential stays.
DeleteAgent(a) ==
    /\ row[a].present
    /\ row' = [row EXCEPT ![a] = NoRow]
    /\ UNCHANGED <<cred, issued, lapsed, cache, registry, proc, sweep, marking, crashes>>
-----------------------------------------------------------------------------
(* runOfflineSweep: list, then per row look at the cached time stamp under *)
(* the read lock, and save without it.                                     *)

SweepList ==
    /\ sweep = {} /\ marking = {}
    /\ sweep' = {[agent |-> a, copy |-> row[a]] : a \in {b \in Agent : row[b].present}}
    /\ UNCHANGED <<row, cred, issued, lapsed, cache, registry, proc, marking, crashes>>

\* Mutant of Silent: an agent the cache does not know is not looked up.
SilentInCache(h) == cache[h.agent] = "old"
Silent(h) == IF cache[h.agent] = "none" THEN ~h.copy.recent ELSE cache[h.agent] = "old"

SweepCheck ==
    /\ marking = {}
    /\ \E h \in sweep :
          /\ sweep' = sweep \ {h}
          /\ marking' = IF h.copy.status # "offline" /\ Silent(h) THEN {h} ELSE {}
    /\ UNCHANGED <<row, cred, issued, lapsed, cache, registry, proc, crashes>>

SweepSave ==
    /\ \E h \in marking : row' = [row EXCEPT ![h.agent] = Offline(h.copy)]
    /\ marking' = {}
    /\ UNCHANGED <<cred, issued, lapsed, cache, registry, proc, sweep, crashes>>
-----------------------------------------------------------------------------
(* Time and crashes.                                                       *)

Aged(copy) == [copy EXCEPT !.recent = FALSE]

\* 90 seconds go by: no time stamp in the tables or in a copy is recent.
TimePasses ==
    /\ row' = [a \in Agent |-> Aged(row[a])]
    /\ cache' = [a \in Agent |-> IF cache[a] = "none" THEN "none" ELSE "old"]
    /\ proc' = [p \in Proc |-> [proc[p] EXCEPT !.copy = Aged(@)]]
    /\ sweep' = {[agent |-> h.agent, copy |-> Aged(h.copy)] : h \in sweep}
    /\ marking' = {[agent |-> h.agent, copy |-> Aged(h.copy)] : h \in marking}
    /\ UNCHANGED <<cred, issued, lapsed, registry, crashes>>

TokenExpires ==
    /\ \E t \in issued \ lapsed : lapsed' = lapsed \cup {t}
    /\ UNCHANGED <<row, cred, issued, cache, registry, proc, sweep, marking, crashes>>

\* No deferred clean-up runs: the rows keep the status they have.
Crash ==
    /\ crashes < MaxCrashes
    /\ crashes' = crashes + 1
    /\ cache' = [a \in Agent |-> "none"]
    /\ registry' = [a \in Agent |-> NoConn]
    /\ proc' = [p \in Proc |-> IF p \in Conn /\ proc[p].pc # "idle"
                               THEN [Blank EXCEPT !.pc = "closed"] ELSE Blank]
    /\ sweep' = {} /\ marking' = {}
    /\ UNCHANGED <<row, cred, issued, lapsed>>

ConnStep(k) == \/ Register(k) \/ ReadOnline(k) \/ SaveOnline(k)
               \/ ReadLeave(k) \/ SaveLeave(k)
BeatStep(p) == ReadBeat(p) \/ SaveBeat(p)
ReqStep(q)  == \/ IssueToken(q) \/ SaveRotate(q) \/ SaveRevoke(q)
               \/ ReadRevokeRow(q) \/ SaveRevokeRow(q) \/ DropRegistration(q)
SweepStep   == SweepCheck \/ SweepSave

Next ==
    \/ \E k \in Conn : \/ \E t \in Token : Handshake(k, t)
                       \/ ConnStep(k) \/ Unregister(k)
    \/ \E p \in Proc : BeatStep(p) \/ \E a \in Agent : CacheBeat(p, a)
    \/ \E q \in Req : \/ ReqStep(q)
                      \/ \E a \in Agent : \/ CreateAgent(q, a)
                                          \/ ReadRotate(q, a) \/ ReadRevoke(q, a)
    \/ \E a \in Agent : DeleteAgent(a)
    \/ SweepList \/ SweepStep
    \/ TimePasses \/ TokenExpires \/ Crash

Spec == Init /\ [][Next]_vars

\* The 15 second ticker keeps coming and the scheduler runs every handler
\* that is under way; nobody has to connect, beat or call.
FairSpec == /\ Spec
            /\ WF_vars(SweepList) /\ WF_vars(SweepStep)
            /\ \A k \in Conn : WF_vars(ConnStep(k))
            /\ \A p \in Proc : WF_vars(BeatStep(p))
            /\ \A q \in Req : WF_vars(ReqStep(q))
-----------------------------------------------------------------------------
ProcPc == {"idle", "register", "online", "saveOnline", "serve", "leave", "saveLeave", "closed",
           "beat", "saveBeat", "issue", "rotate", "revoke", "revokeRow", "saveRevokeRow", "drop"}
Handler == [pc : ProcPc, agent : Agent \cup {NoAgent}, copy : Row, cred : Cred]
Listed == [agent : Agent, copy : Row]

\* Type invariant of the two tables, the handlers' copies and the sweep.
TypeOK ==
    /\ row \in [Agent -> Row]
    /\ cred \in [Agent -> Cred]
    /\ issued \in SUBSET Token /\ lapsed \in SUBSET Token
    /\ cache \in [Agent -> {"none", "recent", "old"}]
    /\ registry \in [Agent -> Conn \cup {NoConn}]
    /\ proc \in [Proc -> Handler]
    /\ \A p \in Proc : proc[p].pc \notin {"idle", "closed"} => proc[p].agent \in Agent
    /\ sweep \in SUBSET Listed
    /\ marking \in SUBSET Listed
    /\ crashes \in Nat

Serving == {"online", "saveOnline", "serve", "beat", "saveBeat"}

\* The bus sends an agent's commands only to an open connection that was
\* authenticated as that agent: deferred clean-ups, revocations and
\* reconnections of several handlers write one registry entry.
RegistryIsOwn ==
    \A a \in Agent : registry[a] # NoConn =>
        proc[registry[a]].agent = a /\ proc[registry[a]].pc \in Serving

\* Rotation and revocation are final for the old token: read-change-save
\* races between rotations and revocations never make a token acceptable
\* again that a save has replaced or revoked.
TokenNeverRevives ==
    [][\A a \in Agent : (Live(a)' \ Live(a)) \cap issued = {}]_vars

\* A time stamp of a is recent somewhere.
HeardOf(a) ==
    \/ cache[a] = "recent"
    \/ row[a].recent
    \/ \E p \in Proc : proc[p].agent = a /\ proc[p].pc \in {"saveOnline", "saveBeat"}

\* The offline sweep: an agent that is never heard of again ends up offline,
\* whatever the connections, crashes and stale saves around it do.
SilentGoesOffline ==
    \A a \in Agent : <>[]~HeardOf(a) => <>[](~row[a].present \/ row[a].status = "offline")

=============================================================================
