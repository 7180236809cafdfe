----------------------------- MODULE CommandBus -----------------------------
(***************************************************************************)
(* The command bus (internal/event/command_bus.go) with the two ends it    *)
(* drives: the agent gateway's connection handlers (internal/api/          *)
(* websocket.go) and the agent's command goroutines (cmd/agent/main.go).   *)
(*                                                                         *)
(* One agent; the bus keeps nothing that is shared between two agents.     *)
(* A statement of the repository is one atomic step (SQLite runs behind    *)
(* one connection), but every handler reads a row, changes its own copy    *)
(* and saves the WHOLE row later: the copies are in task, reader and       *)
(* expired.  Creation times are kept because they order the pending list;  *)
(* the other time stamps are kept as "set or not".                         *)
(***************************************************************************)
EXTENDS Naturals, Sequences

CONSTANTS Cmd,          \* commands, one for each POST /api/agents/:id/commands
          KeyOf,        \* idempotency key of each command, or NoKey
          NoKey,
          Conn,         \* websocket connections the agent may open (bound)
          NoConn,
          NoCmd,
          Worker,       \* slots for goroutines of the bus in flight (bound)
          Job,          \* slots for the agent's executeCommand goroutines (bound)
          MaxAttempts,  \* 3 in the code
          ChanCap,      \* capacity of a send channel, 100 in the code
          UpCap,        \* reports in flight on a connection (bound)
          MaxCrashes    \* crashes of the server (bound)

ASSUME BusAssumption ==
    /\ MaxAttempts \in Nat \ {0}
    /\ ChanCap \in Nat \ {0}
    /\ UpCap \in Nat \ {0}
    /\ MaxCrashes \in Nat
    /\ NoConn \notin Conn
    /\ NoCmd \notin Cmd

VARIABLES row,       \* row[c]: the agent_commands row of command c
          clock,     \* number of rows created, the source of created_at
          api,       \* api[c]: where the request that creates c stands
          task,      \* task[w]: a goroutine of the bus
          conn,      \* conn[k]: state of the handler of connection k
          registry,  \* wsRegistry: the connection registered for the agent
          chan,      \* chan[k]: the send channel of connection k
          up,        \* up[k]: reports in flight from the agent on k
          reader,    \* reader[k]: the read loop of k, inside HandleResult
          expired,   \* the timeout monitor's copies still to be saved
          agentConn, \* the agent's current websocket (a.ws)
          job,       \* job[j]: an executeCommand goroutine of the agent
          crashes,
          succeeded, \* history: commands some execution of which succeeded
          failed,    \* history: commands some execution of which failed
          reverted   \* history: rows put back to pending by a full channel
                     \* since the agent last registered

busVars   == <<row, clock, api, task, reader, expired>>
linkVars  == <<conn, registry, chan, up>>
agentVars == <<agentConn, job, succeeded, failed>>
vars == <<row, clock, api, task, reader, expired, conn, registry, chan, up,
          agentConn, job, succeeded, failed, crashes, reverted>>
-----------------------------------------------------------------------------
Status   == {"absent", "pending", "dispatched", "executing", "completed",
             "dead_letter", "timeout"}
Active   == {"dispatched", "executing"}
Terminal == {"completed", "failed", "dead_letter", "timeout"}

\* The columns of domain.AgentCommand the bus reads and writes; dispatched
\* stands for DispatchedAt # nil.
Command == [status : Status, attempts : Nat, dispatched : BOOLEAN, createdAt : Nat]
Absent  == [status |-> "absent", attempts |-> 0, dispatched |-> FALSE, createdAt |-> 0]
Marked(copy, s) == [copy EXCEPT !.status = s]   \* cmd.Status = s
Held    == [cmd : Cmd, copy : Command]

Idle == [pc |-> "idle", cmd |-> NoCmd, copy |-> Absent, via |-> NoConn, todo |-> {}]
\* Mutant of Listing: nobody lists the pending rows.
NotListing == Idle
Listing == [Idle EXCEPT !.pc = "list"]
Attempt(c, copy, todo) ==
    [pc |-> "load", cmd |-> c, copy |-> copy, via |-> NoConn, todo |-> todo]

Listening == [pc |-> "idle", cmd |-> NoCmd, status |-> "none", copy |-> Absent]
NoJob == [pc |-> "idle", cmd |-> NoCmd]

\* `go f()` and time.AfterFunc: a goroutine appears in a free slot.
Spawn(t) == \E w \in Worker : /\ task[w].pc = "idle"
                              /\ task' = [task EXCEPT ![w] = t]

\* The rows of a pending list in the order ORDER BY created_at gives them.
Earliest(held) ==
    {h \in held : \A g \in held : h.copy.createdAt <= g.copy.createdAt}

\* The goroutine is done with its command: it takes the next of its list.
Proceed(w, todo) ==
    \/ /\ todo = {}
       /\ task' = [task EXCEPT ![w] = Idle]
    \/ \E h \in Earliest(todo) :
          task' = [task EXCEPT ![w] = Attempt(h.cmd, h.copy, todo \ {h})]

Init ==
    /\ row = [c \in Cmd |-> Absent]
    /\ clock = 0
    /\ api = [c \in Cmd |-> "idle"]
    /\ task = [w \in Worker |-> Idle]
    /\ conn = [k \in Conn |-> "unused"]
    /\ registry = NoConn
    /\ chan = [k \in Conn |-> <<>>]
    /\ up = [k \in Conn |-> <<>>]
    /\ reader = [k \in Conn |-> Listening]
    /\ expired = {}
    /\ agentConn = NoConn
    /\ job = [j \in Job |-> NoJob]
    /\ crashes = 0
    /\ succeeded = {}
    /\ failed = {}
    /\ reverted = {}
-----------------------------------------------------------------------------
(* Dispatch: look the key up, then create the row and start a dispatch.    *)

KeyTaken(k) == k # NoKey /\ \E d \in Cmd : row[d].status # "absent" /\ KeyOf[d] = k

CheckIdempotency(c) ==
    /\ api[c] = "idle"
    /\ api' = [api EXCEPT ![c] = IF KeyTaken(KeyOf[c]) THEN "conflict" ELSE "checked"]
    /\ UNCHANGED <<row, clock, task, reader, expired, linkVars, agentVars, crashes, reverted>>

CreateCommand(c) ==
    LET new == [status |-> "pending", attempts |-> 0, dispatched |-> FALSE,
                createdAt |-> clock + 1]
    IN /\ api[c] = "checked"
       /\ api' = [api EXCEPT ![c] = "created"]
       /\ clock' = clock + 1
       /\ row' = [row EXCEPT ![c] = new]
       /\ Spawn(Attempt(c, new, {}))
       /\ UNCHANGED <<reader, expired, linkVars, agentVars, crashes, reverted>>
-----------------------------------------------------------------------------
(* attemptDispatch, run by Dispatch, by the retry timer and by the pending *)
(* list.  "load" also stands for a retry timer that has not fired yet.     *)

\* Mutant of LoadConnection: a missing registration is not noticed.
LoadUnchecked(w) ==
    /\ task[w].pc = "load"
    /\ task' = [task EXCEPT ![w] = [@ EXCEPT !.pc = "save", !.via = registry]]
    /\ UNCHANGED <<row, clock, api, reader, expired, linkVars, agentVars, crashes, reverted>>

LoadConnection(w) ==
    /\ task[w].pc = "load"
    /\ \/ /\ registry = NoConn
          /\ Proceed(w, task[w].todo)
       \/ /\ registry # NoConn
          /\ task' = [task EXCEPT ![w] = [@ EXCEPT !.pc = "save", !.via = registry]]
    /\ UNCHANGED <<row, clock, api, reader, expired, linkVars, agentVars, crashes, reverted>>

\* Mutant of Dispatched: DispatchedAt is not set.
Unstamped(copy) == [copy EXCEPT !.status = "dispatched", !.attempts = @ + 1]
Dispatched(copy) == [status |-> "dispatched", attempts |-> copy.attempts + 1,
                     dispatched |-> TRUE, createdAt |-> copy.createdAt]

SaveDispatched(w) ==
    LET t == task[w]
    IN /\ t.pc = "save"
       /\ row' = [row EXCEPT ![t.cmd] = Dispatched(t.copy)]
       /\ task' = [task EXCEPT ![w] = [t EXCEPT !.pc = "send", !.copy = Dispatched(t.copy)]]
       /\ UNCHANGED <<clock, api, reader, expired, linkVars, agentVars, crashes, reverted>>

SendCommand(w) ==
    LET t == task[w]
    IN /\ t.pc = "send"
       /\ conn[t.via] = "open"
       /\ \/ /\ Len(chan[t.via]) < ChanCap
             /\ chan' = [chan EXCEPT ![t.via] = Append(@, t.cmd)]
             /\ Proceed(w, t.todo)
          \/ /\ Len(chan[t.via]) >= ChanCap
             /\ task' = [task EXCEPT ![w] = [t EXCEPT !.pc = "revert", !.copy = Marked(t.copy, "pending")]]
             /\ UNCHANGED chan
       /\ UNCHANGED <<row, clock, api, reader, expired, conn, registry, up,
                      agentVars, crashes, reverted>>

RevertToPending(w) ==
    LET t == task[w]
    IN /\ t.pc = "revert"
       /\ row' = [row EXCEPT ![t.cmd] = t.copy]
       /\ reverted' = reverted \cup {t.cmd}
       /\ Proceed(w, t.todo)
       /\ UNCHANGED <<clock, api, reader, expired, linkVars, agentVars, crashes>>

\* processPendingCommandsForAgent: the pending rows, read once.
ListPending(w) ==
    /\ task[w].pc = "list"
    /\ Proceed(w, {[cmd |-> c, copy |-> row[c]] : c \in {d \in Cmd : row[d].status = "pending"}})
    /\ UNCHANGED <<row, clock, api, reader, expired, linkVars, agentVars, crashes, reverted>>
-----------------------------------------------------------------------------
(* HandleResult, called by the read loop of a connection.                  *)

\* The row is read; a terminal row ends the call.
ReadResult(k) ==
    /\ reader[k].pc = "idle"
    /\ up[k] # <<>>
    /\ up' = [up EXCEPT ![k] = Tail(@)]
    /\ LET r == Head(up[k]) IN
          reader' = [reader EXCEPT ![k] =
              IF row[r.cmd].status \in Terminal \cup {"absent"} THEN Listening
              ELSE [pc |-> "save", cmd |-> r.cmd, status |-> r.status, copy |-> row[r.cmd]]]
    /\ UNCHANGED <<row, clock, api, task, expired, conn, registry, chan,
                   agentVars, crashes, reverted>>

\* Mutant of AttemptsLeft: off by one.
OneAttemptLess(copy) == copy.attempts + 1 < MaxAttempts
AttemptsLeft(copy) == copy.attempts < MaxAttempts

\* The copy is changed and saved; a failed command with attempts left goes
\* back to pending and is retried by a timer.
SaveResult(k) ==
    LET r == reader[k]
        Save(status) == row' = [row EXCEPT ![r.cmd] = Marked(r.copy, status)]
    IN /\ r.pc = "save"
       /\ \/ /\ r.status \in {"executing", "completed"}
             /\ Save(r.status)
             /\ UNCHANGED task
          \/ /\ r.status = "failed" /\ AttemptsLeft(r.copy)
             /\ Save("pending")
             /\ Spawn(Attempt(r.cmd, Marked(r.copy, "pending"), {}))
          \/ /\ r.status = "failed" /\ ~AttemptsLeft(r.copy)
             /\ Save("dead_letter")
             /\ UNCHANGED task
       /\ reader' = [reader EXCEPT ![k] = Listening]
       /\ UNCHANGED <<clock, api, expired, linkVars, agentVars, crashes, reverted>>
-----------------------------------------------------------------------------
(* checkCommandTimeouts: the active rows are read once; which of them are  *)
(* past their deadline is left open, time being abstracted.                *)

\* Mutant of ActiveRows: an executing command is left to the agent.
DispatchedRows ==
    {[cmd |-> c, copy |-> row[c]] : c \in {d \in Cmd : row[d].status = "dispatched"}}
ActiveRows == {[cmd |-> c, copy |-> row[c]] : c \in {d \in Cmd : row[d].status \in Active}}

ScanTimeouts ==
    /\ expired = {}
    /\ \E late \in SUBSET ActiveRows : late # {} /\ expired' = late
    /\ UNCHANGED <<row, clock, api, task, reader, linkVars, agentVars, crashes, reverted>>

SaveTimeout ==
    /\ \E h \in expired :
          /\ row' = [row EXCEPT ![h.cmd] = Marked(h.copy, "timeout")]
          /\ expired' = expired \ {h}
    /\ UNCHANGED <<clock, api, task, reader, linkVars, agentVars, crashes, reverted>>
-----------------------------------------------------------------------------
(* Connections.  The agent dials again once its own socket has failed; the *)
(* server may notice that much later, by its 60 second read deadline.      *)

Connect(k) ==
    /\ conn[k] = "unused"
    /\ agentConn = NoConn
    /\ conn' = [conn EXCEPT ![k] = "open"]
    /\ registry' = k
    /\ agentConn' = k
    /\ reverted' = {}
    /\ Spawn(Listing)
    /\ UNCHANGED <<row, clock, api, reader, expired, chan, up, job, succeeded, failed, crashes>>

\* Mutant of Unregister: the registration stays.
KeepRegistered(k) ==
    /\ conn[k] = "open"
    /\ reader[k].pc = "idle"
    /\ conn' = [conn EXCEPT ![k] = "closed"]
    /\ chan' = [chan EXCEPT ![k] = <<>>]
    /\ up' = [up EXCEPT ![k] = <<>>]
    /\ agentConn' = IF agentConn = k THEN NoConn ELSE agentConn
    /\ UNCHANGED <<busVars, registry, job, succeeded, failed, crashes, reverted>>

\* The handler's deferred clean-up: it deletes the agent's registration,
\* whichever connection that names, and closes its own channel.
Unregister(k) ==
    /\ conn[k] = "open"
    /\ reader[k].pc = "idle"
    /\ conn' = [conn EXCEPT ![k] = "closed"]
    /\ registry' = NoConn
    /\ chan' = [chan EXCEPT ![k] = <<>>]
    /\ up' = [up EXCEPT ![k] = <<>>]
    /\ agentConn' = IF agentConn = k THEN NoConn ELSE agentConn
    /\ UNCHANGED <<busVars, job, succeeded, failed, crashes, reverted>>

AgentDrops ==
    /\ agentConn # NoConn
    /\ agentConn' = NoConn
    /\ UNCHANGED <<busVars, linkVars, job, succeeded, failed, crashes, reverted>>

\* The writer goroutine and the network: a command reaches the agent, or is
\* written to a socket the agent no longer reads.
Deliver(k) ==
    /\ chan[k] # <<>>
    /\ chan' = [chan EXCEPT ![k] = Tail(@)]
    /\ \/ /\ agentConn = k
          /\ \E j \in Job : /\ job[j].pc = "idle"
                            /\ job' = [job EXCEPT ![j] = [pc |-> "received", cmd |-> Head(chan[k])]]
       \/ /\ agentConn # k
          /\ UNCHANGED job
    /\ UNCHANGED <<busVars, conn, registry, up, agentConn, succeeded, failed, crashes, reverted>>
-----------------------------------------------------------------------------
(* executeCommand.  A report goes out on whatever socket is current; with  *)
(* none it is lost, the error of the send being ignored.                   *)

Report(c, status) ==
    \/ /\ agentConn = NoConn
       /\ UNCHANGED up
    \/ /\ agentConn # NoConn
       /\ Len(up[agentConn]) < UpCap
       /\ up' = [up EXCEPT ![agentConn] = Append(@, [cmd |-> c, status |-> status])]

\* Mutant of ReportExecuting: the command is reported before it ran.
ReportEarly(j) ==
    /\ job[j].pc = "received"
    /\ Report(job[j].cmd, "completed")
    /\ job' = [job EXCEPT ![j].pc = "running"]
    /\ UNCHANGED <<busVars, conn, registry, chan, agentConn, succeeded, failed, crashes, reverted>>

ReportExecuting(j) ==
    /\ job[j].pc = "received"
    /\ Report(job[j].cmd, "executing")
    /\ job' = [job EXCEPT ![j].pc = "running"]
    /\ UNCHANGED <<busVars, conn, registry, chan, agentConn, succeeded, failed, crashes, reverted>>

Finish(j) ==
    /\ job[j].pc = "running"
    /\ \/ /\ Report(job[j].cmd, "completed")
          /\ succeeded' = succeeded \cup {job[j].cmd}
          /\ UNCHANGED failed
       \/ /\ Report(job[j].cmd, "failed")
          /\ failed' = failed \cup {job[j].cmd}
          /\ UNCHANGED succeeded
    /\ job' = [job EXCEPT ![j] = NoJob]
    /\ UNCHANGED <<busVars, conn, registry, chan, agentConn, crashes, reverted>>

AgentRestarts ==
    /\ agentConn' = NoConn
    /\ job' = [j \in Job |-> NoJob]
    /\ UNCHANGED <<busVars, linkVars, succeeded, failed, crashes, reverted>>
-----------------------------------------------------------------------------
(* The server process dies: the table survives, nothing else does.         *)

ServerDown ==
    /\ api' = [c \in Cmd |-> IF api[c] = "checked" THEN "lost" ELSE api[c]]
    /\ task' = [w \in Worker |-> Idle]
    /\ reader' = [k \in Conn |-> Listening]
    /\ expired' = {}
    /\ conn' = [k \in Conn |-> IF conn[k] = "open" THEN "closed" ELSE conn[k]]
    /\ registry' = NoConn
    /\ chan' = [k \in Conn |-> <<>>]
    /\ up' = [k \in Conn |-> <<>>]
    /\ agentConn' = NoConn
    /\ reverted' = {}
    /\ UNCHANGED <<row, clock, job, succeeded, failed>>

Crash ==
    /\ crashes < MaxCrashes
    /\ crashes' = crashes + 1
    /\ ServerDown

\* A send on the channel its handler has closed panics, and the panic of a
\* goroutine ends the process.
SendOnClosed(w) ==
    /\ task[w].pc = "send"
    /\ conn[task[w].via] = "closed"
    /\ ServerDown
    /\ UNCHANGED crashes

BusStep(w) == \/ LoadConnection(w) \/ SaveDispatched(w) \/ SendCommand(w)
              \/ RevertToPending(w) \/ ListPending(w) \/ SendOnClosed(w)

Next ==
    \/ \E c \in Cmd : CheckIdempotency(c) \/ CreateCommand(c)
    \/ \E w \in Worker : BusStep(w)
    \/ \E k \in Conn : \/ ReadResult(k) \/ SaveResult(k)
                       \/ Connect(k) \/ Unregister(k) \/ Deliver(k)
    \/ ScanTimeouts \/ SaveTimeout
    \/ AgentDrops \/ AgentRestarts
    \/ \E j \in Job : ReportExecuting(j) \/ Finish(j)
    \/ Crash

Spec == Init /\ [][Next]_vars

\* The scheduler runs every goroutine of the bus, and the 3 second ticker of
\* the monitor keeps coming: a command that stays active with the DispatchedAt
\* it has is found late by some scan.  Nothing is assumed of the network, of
\* the agent or of the clients.
ScanFindsLate(c) == ScanTimeouts /\ \E h \in expired' : h.cmd = c

FairSpec == /\ Spec
            /\ \A w \in Worker : WF_vars(BusStep(w))
            /\ WF_vars(SaveTimeout)
            /\ \A c \in Cmd : SF_vars(ScanFindsLate(c))
-----------------------------------------------------------------------------
Task  == [pc : {"idle", "list", "load", "save", "send", "revert"},
          cmd : Cmd \cup {NoCmd}, copy : Command, via : Conn \cup {NoConn},
          todo : SUBSET Held]
ReportMsg == [cmd : Cmd, status : {"executing", "completed", "failed"}]
Reading == [pc : {"idle", "save"}, cmd : Cmd \cup {NoCmd},
            status : {"none", "executing", "completed", "failed"}, copy : Command]

\* Type invariant: what each table row, goroutine and channel can hold, and
\* that a goroutine past the start of attemptDispatch names a command, one
\* past its registry lookup a connection.
TypeOK ==
    /\ row \in [Cmd -> Command]
    /\ clock \in Nat
    /\ api \in [Cmd -> {"idle", "checked", "conflict", "created", "lost"}]
    /\ task \in [Worker -> Task]
    /\ \A w \in Worker : /\ task[w].pc \notin {"idle", "list"} => task[w].cmd \in Cmd
                         /\ task[w].pc \in {"save", "send"} => task[w].via \in Conn
    /\ conn \in [Conn -> {"unused", "open", "closed"}]
    /\ registry \in Conn \cup {NoConn}
    /\ chan \in [Conn -> Seq(Cmd)]
    /\ up \in [Conn -> Seq(ReportMsg)]
    /\ reader \in [Conn -> Reading]
    /\ \A k \in Conn : reader[k].pc = "save" => reader[k].cmd \in Cmd /\ reader[k].status # "none"
    /\ expired \in SUBSET Held
    /\ agentConn \in Conn \cup {NoConn}
    /\ job \in [Job -> [pc : {"idle", "received", "running"}, cmd : Cmd \cup {NoCmd}]]
    /\ \A j \in Job : job[j].pc # "idle" => job[j].cmd \in Cmd
    /\ crashes \in Nat
    /\ succeeded \in SUBSET Cmd /\ failed \in SUBSET Cmd /\ reverted \in SUBSET Cmd

\* A row that left pending was really handed to a connection: every later
\* status keeps the DispatchedAt and the attempt the timeout monitor and the
\* retry limit are computed from, whichever stale copy was saved last
\* (SaveDispatched, HandleResult and checkCommandTimeouts all save whole rows).
DispatchEvidence ==
    \A c \in Cmd : row[c].status \notin {"absent", "pending"} =>
                      row[c].dispatched /\ row[c].attempts >= 1

\* "completed" is never invented: some execution of that command succeeded on
\* the agent, across crashes, stale reports of earlier attempts and retries.
CompletedWasExecuted ==
    \A c \in Cmd : row[c].status = "completed" => c \in succeeded

\* dead_letter is reached only by a failure on the agent with the attempts
\* used up: no retry that was still owed is given up.
DeadLetterIsExhausted ==
    \A c \in Cmd : row[c].status = "dead_letter" =>
                      c \in failed /\ row[c].attempts >= MaxAttempts

\* A goroutine that will still try to dispatch c.
WillTry(w, c) ==
    \/ task[w].pc = "list"
    \/ task[w].pc \in {"load", "save"} /\ task[w].cmd = c
    \/ \E h \in task[w].todo : h.cmd = c

\* No lost wake-up between Dispatch, the registry and the reconnect: while the
\* agent is registered, a pending command is in the hands of some goroutine
\* that will dispatch it.  The one exception is a row the full channel put
\* back, which waits for the next registration.
NoLostWakeup ==
    \A c \in Cmd : row[c].status = "pending" /\ registry # NoConn /\ c \notin reverted
                     => \E w \in Worker : WillTry(w, c)

\* The registry never names a connection whose handler has closed its channel:
\* a dispatch that starts now cannot panic (only one that loaded the channel
\* before the handler's clean-up can).
RegisteredIsOpen == registry # NoConn => conn[registry] = "open"

\* The timeout monitor: no command stays dispatched or executing for ever,
\* whatever the agent and the network do.
ActiveSettles == \A c \in Cmd : row[c].status \in Active ~> row[c].status \notin Active

\* A pending command of an agent that stays registered is dispatched, unless
\* the channel was full.
PendingMoves ==
    \A c \in Cmd : row[c].status = "pending" /\ registry # NoConn
                     ~> row[c].status # "pending" \/ registry = NoConn \/ c \in reverted

\* command_bus.go:121, "Already terminal": a command reported completed stays
\* completed.
CompletedIsFinal ==
    [][\A c \in Cmd : row[c].status = "completed" => row'[c].status = "completed"]_vars

-----------------------------------------------------------------------------
(* The strengthening that makes DispatchEvidence, CompletedWasExecuted and *)
(* DeadLetterIsExhausted inductive: what is known of a command follows it  *)
(* through the channel, the agent, the reports and every stale copy.       *)

Handed(copy) == copy.dispatched /\ copy.attempts >= 1

Reported(c, status) == /\ Handed(row[c])
                       /\ status = "completed" => c \in succeeded
                       /\ status = "failed" => c \in failed

RowEvidence ==
    /\ \A c \in Cmd : api[c] # "created" => row[c] = Absent
    /\ \A c \in Cmd : api[c] = "created" => row[c].status # "absent"
    /\ DispatchEvidence
    /\ CompletedWasExecuted
    /\ DeadLetterIsExhausted

TaskEvidence ==
    \A w \in Worker :
        /\ task[w].pc \notin {"idle", "list"} => api[task[w].cmd] = "created"
        /\ \A h \in task[w].todo : api[h.cmd] = "created"
        /\ task[w].pc \in {"send", "revert"} => Handed(task[w].copy) /\ Handed(row[task[w].cmd])
        /\ task[w].pc = "revert" => task[w].copy.status = "pending"

CopyEvidence ==
    /\ \A k \in Conn : reader[k].pc = "save" =>
          Handed(reader[k].copy) /\ Reported(reader[k].cmd, reader[k].status)
    /\ \A h \in expired : Handed(h.copy) /\ Handed(row[h.cmd])

LinkEvidence ==
    /\ \A k \in Conn : \A i \in 1..Len(chan[k]) : Handed(row[chan[k][i]])
    /\ \A k \in Conn : \A i \in 1..Len(up[k]) : Reported(up[k][i].cmd, up[k][i].status)
    /\ \A j \in Job : job[j].pc # "idle" => Handed(row[job[j].cmd])

\* The inductive invariant behind the three safety properties: a command the
\* agent can know of was saved as dispatched, and no save undoes that.
Evidence == RowEvidence /\ TaskEvidence /\ CopyEvidence /\ LinkEvidence

\* The bus implements the contract its clients can rely on.
Contract == INSTANCE CommandContract
                WITH status <- [c \in Cmd |-> row[c].status],
                     handed <- {c \in Cmd : Handed(row[c])}

\* Refinement: every step of the bus, its crashes included, is a step of
\* CommandContract or leaves what a client sees alone.
ImplementsContract == Contract!Spec

\* The strengthening of NoLostWakeup: a free slot holds no list.
FreeSlots == \A w \in Worker : task[w].pc = "idle" => task[w].todo = {}
=============================================================================
