---------------------------- MODULE ProxyManager ----------------------------
(***************************************************************************)
(* The proxy manager (internal/proxy/manager.go): the map of listening     *)
(* servers behind one mutex, the proxies table, and everybody who moves    *)
(* them: the HTTP handlers (internal/api/handler.go), the expiry sweep,    *)
(* and the restore and shutdown of cmd/server/main.go.                     *)
(*                                                                         *)
(* The mutex covers a method of the manager from its read of the row to    *)
(* its save; rows are also deleted, created and saved with no lock held.   *)
(* A save writes the whole row and inserts it again if it was deleted,     *)
(* unless another row has the port (a unique index).                       *)
(***************************************************************************)
EXTENDS Naturals, Sequences, FiniteSets

CONSTANTS Proxy,      \* proxy identities, each created once
          NoProxy,
          Port,
          PortOf,     \* the port of each proxy
          Node,       \* VPN nodes
          NodeOf,     \* the VPN node of each proxy
          Rental,     \* the proxies with an expiry time
          Req,        \* HTTP requests in flight (bound)
          Sweeper,    \* the goroutine of StartExpiryMonitor
          Main,       \* the goroutine of main: restore and shutdown
          Free,       \* the mutex is not held
          MaxCrashes  \* crashes of the server (bound)

ASSUME ProxyAssumption ==
    /\ NoProxy \notin Proxy
    /\ PortOf \in [Proxy -> Port]
    /\ NodeOf \in [Proxy -> Node]
    /\ Rental \subseteq Proxy
    /\ Sweeper \notin Req /\ Main \notin Req /\ Sweeper # Main
    /\ Free \notin Req \cup {Sweeper, Main}
    /\ MaxCrashes \in Nat
    /\ IsFiniteSet(Proxy)

VARIABLES row,      \* row[p]: status column of the proxies table, or "none"
          due,      \* rentals past their ExpiresAt
          created,  \* proxies whose row was ever created
          server,   \* server[n]: the manager's entry for port n
          clients,  \* ports with a client connection still open
          lock,     \* holder of the manager's mutex
          proc,     \* proc[q]: where a goroutine stands and what it has to do
          mode,     \* the process: "down", "boot", "up" or "halt"
          before,   \* history: proxies that listened when the process ended
          raced,    \* history: ports a start opened beside a removal or a mark
          crashes

vars == <<row, due, created, server, clients, lock, proc, mode, before, raced, crashes>>
-----------------------------------------------------------------------------
Status == {"none", "stopped", "running", "expired", "error"}
Proc   == Req \cup {Sweeper, Main}
NoServer == [owner |-> NoProxy, open |-> FALSE]

\* What is left to do is a sequence of steps: calls of the manager, and
\* statements outside its lock.  seen is the status a list showed.
Step == [op : {"start", "stop", "expire", "mark", "restore", "delete", "create"},
         proxy : Proxy, seen : Status]
Do(op, p) == [op |-> op, proxy |-> p, seen |-> "none"]
Idle == [pc |-> "idle", todo |-> <<>>, new |-> "none"]
\* Mutant of Run: the end of a list is not noticed.
RunOn(todo) == [pc |-> "ready", todo |-> todo, new |-> "none"]
Run(todo) == [pc |-> IF todo = <<>> THEN "idle" ELSE "ready", todo |-> todo, new |-> "none"]

\* The rows a list shows, in some order.
Orders(S) == {s \in [1..Cardinality(S) -> S] : \A x \in S : \E i \in DOMAIN s : s[i] = x}
Rows == {p \in Proxy : row[p] # "none"}

Init == /\ row = [p \in Proxy |-> "none"]
        /\ due = {}
        /\ created = {}
        /\ server = [n \in Port |-> NoServer]
        /\ clients = {}
        /\ lock = Free
        /\ proc = [q \in Proc |-> Idle]
        /\ mode = "down"
        /\ before = {}
        /\ raced = {}
        /\ crashes = 0

Begin(q, todo) == /\ proc[q].pc = "idle"
                  /\ proc' = [proc EXCEPT ![q] = Run(todo)]
Current(q) == Head(proc[q].todo)
Turn(q, op) == proc[q].pc = "ready" /\ Current(q).op = op
Advance(q) == proc' = [proc EXCEPT ![q] = Run(Tail(proc[q].todo))]

\* The unique index on the port, and db.Save of a proxies row.
PortTaken(p) == \E r \in Rows : PortOf[r] = PortOf[p]
Upsert(p, status) ==
    row' = IF row[p] = "none" /\ PortTaken(p) THEN row ELSE [row EXCEPT ![p] = status]
-----------------------------------------------------------------------------
(* StartProxy, StopProxy and ExpireProxy: under the mutex the row is read, *)
(* the server is started or stopped, and the row is saved.                 *)

\* The call finds no row and returns an error.
NotFound(q) ==
    /\ \E op \in {"start", "stop", "expire"} : Turn(q, op)
    /\ lock = Free
    /\ row[Current(q).proxy] = "none"
    /\ Advance(q)
    /\ UNCHANGED <<row, due, created, server, clients, lock, mode, before, raced, crashes>>

\* Mutant of Enter: the mutex is not taken.
EnterUnlocked(q) == /\ row[Current(q).proxy] # "none"
                    /\ lock' = q
                    /\ UNCHANGED <<row, due, created, clients, mode, before, crashes>>
Enter(q) == /\ lock = Free
            /\ row[Current(q).proxy] # "none"
            /\ lock' = q
            /\ UNCHANGED <<row, due, created, clients, mode, before, crashes>>
Saving(q, status) == proc' = [proc EXCEPT ![q] = [@ EXCEPT !.pc = "save", !.new = status]]

\* A removal of p has stopped it and has still to delete its row; a start of p
\* is under way inside the mutex.
Removing(p) == \E q \in Proc : Turn(q, "delete") /\ Current(q).proxy = p
Starting(p) == lock # Free /\ Current(lock).op = "start" /\ Current(lock).proxy = p

\* Any server on the port counts as this proxy's; else an expired rental is
\* refused; else the listener is opened, or the port is in use elsewhere.
LockedStart(q) ==
    /\ Turn(q, "start")
    /\ Enter(q)
    /\ LET p == Current(q).proxy
           n == PortOf[p]
       IN \/ /\ server[n] # NoServer
             /\ Saving(q, "running") /\ UNCHANGED <<server, raced>>
          \/ /\ server[n] = NoServer /\ p \in due
             /\ Saving(q, "expired") /\ UNCHANGED <<server, raced>>
          \/ /\ server[n] = NoServer /\ p \notin due
             /\ server' = [server EXCEPT ![n] = [owner |-> p, open |-> TRUE]]
             /\ raced' = IF Removing(p) THEN raced \cup {n} ELSE raced
             /\ Saving(q, "running")
          \/ /\ server[n] = NoServer /\ p \notin due
             /\ Saving(q, "error") /\ UNCHANGED <<server, raced>>

\* The listener on the port is closed, whichever proxy it was started for.
LockedStop(q) ==
    LET n == PortOf[Current(q).proxy]
        new == IF Current(q).op = "stop" THEN "stopped" ELSE "expired"
    IN /\ Turn(q, "stop") \/ Turn(q, "expire")
       /\ Enter(q)
       /\ \/ /\ server[n] # NoServer
             /\ server' = [server EXCEPT ![n] = [@ EXCEPT !.open = FALSE]]
             /\ proc' = [proc EXCEPT ![q] = [@ EXCEPT !.pc = "drain", !.new = new]]
          \/ /\ server[n] = NoServer
             /\ Saving(q, new) /\ UNCHANGED server
       /\ UNCHANGED raced

\* GoProxyServer.Stop waits for the open connections, the mutex held.
Drained(q) ==
    LET n == PortOf[Current(q).proxy]
    IN /\ proc[q].pc = "drain"
       /\ n \notin clients
       /\ server' = [server EXCEPT ![n] = NoServer]
       /\ raced' = raced \ {n}
       /\ Saving(q, proc[q].new)
       /\ UNCHANGED <<row, due, created, clients, lock, mode, before, crashes>>

SaveRow(q) ==
    /\ proc[q].pc = "save"
    /\ Upsert(Current(q).proxy, proc[q].new)
    /\ lock' = Free
    /\ Advance(q)
    /\ UNCHANGED <<due, created, server, clients, mode, before, raced, crashes>>
-----------------------------------------------------------------------------
(* Statements outside the lock.                                            *)

\* The copy of a list saved as expired.
MarkExpired(q) ==
    /\ Turn(q, "mark")
    /\ Upsert(Current(q).proxy, "expired")
    /\ Advance(q)
    /\ UNCHANGED <<due, created, server, clients, lock, mode, before, raced, crashes>>

DeleteRow(q) ==
    /\ Turn(q, "delete")
    /\ row' = [row EXCEPT ![Current(q).proxy] = "none"]
    /\ Advance(q)
    /\ UNCHANGED <<due, created, server, clients, lock, mode, before, raced, crashes>>

\* The insert fails on a taken port and ends the request.
CreateRow(q) ==
    LET p == Current(q).proxy
    IN /\ Turn(q, "create")
       /\ \/ /\ PortTaken(p)
             /\ proc' = [proc EXCEPT ![q] = Idle]
             /\ UNCHANGED <<row, created>>
          \/ /\ ~PortTaken(p)
             /\ row' = [row EXCEPT ![p] = "stopped"]
             /\ created' = created \cup {p}
             /\ Advance(q)
       /\ UNCHANGED <<due, server, clients, lock, mode, before, raced, crashes>>

\* Mutant of RestoreRow: only rows in error are started.
RestoreFailed(q) ==
    LET s == Current(q)
    IN /\ Turn(q, "restore")
       /\ IF s.seen = "error"
          THEN proc' = [proc EXCEPT ![q] = Run(<<Do("start", s.proxy)>> \o Tail(@.todo))]
          ELSE Advance(q)
       /\ UNCHANGED <<row, due, created, server, clients, lock, mode, before, raced, crashes>>

\* RestoreProxies at one row of its list.
RestoreRow(q) ==
    LET s == Current(q)
        rest == Tail(proc[q].todo)
        first(op) == proc' = [proc EXCEPT ![q] = Run(<<Do(op, s.proxy)>> \o rest)]
    IN /\ Turn(q, "restore")
       /\ \/ s.proxy \in due /\ first("mark")
          \/ s.proxy \notin due /\ s.seen = "running" /\ first("start")
          \/ s.proxy \notin due /\ s.seen # "running" /\ Advance(q)
       /\ UNCHANGED <<row, due, created, server, clients, lock, mode, before, raced, crashes>>
-----------------------------------------------------------------------------
(* The HTTP handlers.                                                      *)

\* CreateProxy always sets an expiry time.
CreateProxy(q, p) == p \in Rental \ created /\ Begin(q, <<Do("create", p)>>)
StartProxy(q, p)  == p \in created /\ Begin(q, <<Do("start", p)>>)
StopProxy(q, p)   == p \in created /\ Begin(q, <<Do("stop", p)>>)
\* Mutant of DeleteProxy: the row is deleted before the proxy is stopped.
DeleteFirst(q, p) == p \in created /\ Begin(q, <<Do("delete", p), Do("stop", p)>>)
DeleteProxy(q, p) == p \in created /\ Begin(q, <<Do("stop", p), Do("delete", p)>>)

\* Never an expiry time, and whatever occupies the port is replaced.
ConnectAndCreateProxy(q, p) ==
    LET make == <<Do("create", p), Do("start", p)>>
    IN /\ p \notin created /\ p \notin Rental
       /\ \/ ~PortTaken(p) /\ Begin(q, make)
          \/ \E r \in Rows : /\ PortOf[r] = PortOf[p]
                             /\ Begin(q, <<Do("stop", r), Do("delete", r)>> \o make)

\* DeleteVPN: the linked proxies, listed once, are stopped and deleted.
DeleteVPN(q, v) ==
    \E order \in Orders({p \in Rows : NodeOf[p] = v}) :
        Begin(q, [i \in 1..(2 * Len(order)) |->
                     IF i % 2 = 1 THEN Do("stop", order[(i + 1) \div 2])
                                  ELSE Do("delete", order[i \div 2])])

Request(q) ==
    /\ mode = "up"
    /\ \/ \E p \in Proxy : \/ CreateProxy(q, p) \/ StartProxy(q, p) \/ StopProxy(q, p)
                           \/ DeleteProxy(q, p) \/ ConnectAndCreateProxy(q, p)
       \/ \E v \in Node : DeleteVPN(q, v)
    /\ UNCHANGED <<row, due, created, server, clients, lock, mode, before, raced, crashes>>

\* Mutant of DueRows: a running proxy is left to its clients.
DueStopped == {p \in due : row[p] = "stopped"}
DueRows == {p \in due : row[p] \in {"running", "stopped"}}

\* SweepExpiredProxies: what to do is decided from the listed copies.
SweepStep(p) == Do(IF row[p] = "running" THEN "expire" ELSE "mark", p)
SweepExpiredProxies ==
    /\ mode \in {"up", "halt"}
    /\ \E order \in Orders(DueRows) :
          /\ order # <<>>
          /\ Begin(Sweeper, [i \in DOMAIN order |-> SweepStep(order[i])])
    /\ raced' = raced \cup {PortOf[p] : p \in {r \in DueRows : row[r] # "running" /\ Starting(r)}}
    /\ UNCHANGED <<row, due, created, server, clients, lock, mode, before, crashes>>
-----------------------------------------------------------------------------
(* The process.                                                            *)

Listening == {p \in Proxy : server[PortOf[p]] = [owner |-> p, open |-> TRUE]}

\* RestoreProxies lists the rows before anything else runs.
Boot ==
    /\ mode = "down"
    /\ mode' = "boot"
    /\ \E order \in Orders(Rows) :
          Begin(Main, [i \in DOMAIN order |->
              [op |-> "restore", proxy |-> order[i], seen |-> row[order[i]]]])
    /\ UNCHANGED <<row, due, created, server, clients, lock, before, raced, crashes>>

Serve == /\ mode = "boot"
         /\ proc[Main].pc = "idle"
         /\ mode' = "up"
         /\ UNCHANGED <<row, due, created, server, clients, lock, proc, before, raced, crashes>>

\* The requests in flight are over; the running proxies are listed and stopped.
Shutdown ==
    /\ mode = "up"
    /\ \A q \in Req : proc[q].pc = "idle"
    /\ mode' = "halt"
    /\ before' = Listening
    /\ \E order \in Orders({p \in Rows : row[p] = "running"}) :
          Begin(Main, [i \in DOMAIN order |-> Do("stop", order[i])])
    /\ UNCHANGED <<row, due, created, server, clients, lock, raced, crashes>>

ProcessEnds ==
    /\ mode' = "down"
    /\ server' = [n \in Port |-> NoServer]
    /\ clients' = {}
    /\ lock' = Free
    /\ proc' = [q \in Proc |-> Idle]
    /\ raced' = {}
    /\ UNCHANGED <<row, due, created>>

Exit == /\ mode = "halt"
        /\ proc[Main].pc = "idle"
        /\ ProcessEnds
        /\ UNCHANGED <<before, crashes>>

Crash == /\ mode # "down"
         /\ crashes < MaxCrashes
         /\ crashes' = crashes + 1
         /\ before' = Listening
         /\ ProcessEnds

\* An expiry time passes; a client comes or leaves.
Expires(p) == /\ p \in created \cap Rental
              /\ p \notin due
              /\ due' = due \cup {p}
              /\ UNCHANGED <<row, created, server, clients, lock, proc, mode, before, raced, crashes>>

ClientConnects(n) == /\ server[n].open
                     /\ n \notin clients
                     /\ clients' = clients \cup {n}
                     /\ UNCHANGED <<row, due, created, server, lock, proc, mode, before, raced, crashes>>
ClientLeaves(n) == /\ n \in clients
                   /\ clients' = clients \ {n}
                   /\ UNCHANGED <<row, due, created, server, lock, proc, mode, before, raced, crashes>>

ProcStep(q) == \/ NotFound(q) \/ LockedStart(q) \/ LockedStop(q) \/ Drained(q) \/ SaveRow(q)
               \/ MarkExpired(q) \/ DeleteRow(q) \/ CreateRow(q) \/ RestoreRow(q)

Next == \/ \E q \in Proc : ProcStep(q)
        \/ \E q \in Req : Request(q)
        \/ SweepExpiredProxies
        \/ Boot \/ Serve \/ Shutdown \/ Exit \/ Crash
        \/ \E p \in Proxy : Expires(p)
        \/ \E n \in Port : ClientConnects(n) \/ ClientLeaves(n)

Spec == Init /\ [][Next]_vars

\* Goroutines are scheduled, the mutex is handed to every waiter in the end,
\* the minute ticker keeps coming and the process is started again.
FairSpec == /\ Spec
            /\ \A q \in Proc : SF_vars(ProcStep(q))
            /\ SF_vars(SweepExpiredProxies)
            /\ WF_vars(Boot) /\ WF_vars(Serve) /\ WF_vars(Exit)
-----------------------------------------------------------------------------
\* Type invariant: rows, servers, and who holds the mutex.
TypeOK ==
    /\ row \in [Proxy -> Status]
    /\ due \in SUBSET Proxy /\ created \in SUBSET Proxy
    /\ server \in [Port -> [owner : Proxy \cup {NoProxy}, open : BOOLEAN]]
    /\ clients \in SUBSET Port
    /\ lock \in Proc \cup {Free}
    /\ proc \in [Proc -> [pc : {"idle", "ready", "drain", "save"}, todo : Seq(Step), new : Status]]
    /\ \A q \in Proc : proc[q].pc # "idle" => proc[q].todo # <<>>
    /\ mode \in {"down", "boot", "up", "halt"}
    /\ before \in SUBSET Proxy /\ raced \in SUBSET Port
    /\ crashes \in Nat

\* A row that says running has an open listener on its port whenever no call
\* of the manager is under way: through restarts, stale saves of the sweep,
\* rows deleted and re-inserted beside the lock, and ports that pass from one
\* proxy to the next.
RunningHasListener ==
    mode \in {"up", "halt"} /\ lock = Free =>
        \A p \in Proxy : row[p] = "running" => server[PortOf[p]].open

\* A listener that no row shows as running is only ever left by a start inside
\* one of two windows: a removal has stopped the proxy and has still to delete
\* its row, or the sweep lists the row while the start holds the mutex.  Stale
\* copies saved again, starts and stops of other proxies of the port, removals
\* of one proxy beside each other, restarts and crashes leave none.
StraysWereRaced ==
    mode \in {"up", "halt"} /\ lock = Free =>
        \A n \in Port : server[n].open =>
            n \in raced \/ \E p \in Proxy : PortOf[p] = n /\ row[p] = "running"

\* RestoreProxies after a crash at any point: once the server takes requests,
\* every row that says running has a listener that was opened for that very
\* proxy, so with its address and credentials; none is left out, none of two
\* proxies of one port is served by the other's listener.
BootReopens ==
    [][Serve => \A p \in Proxy : row[p] = "running" => p \in Listening]_vars

\* The manager is stuck behind a client that does not hang up.
Draining == \E q \in Proc : proc[q].pc = "drain" /\ PortOf[Current(q).proxy] \in clients

\* Expiry: a running rental past its time stops running, provided that no
\* client holds a listener that is being closed for ever.
ExpirySettles ==
    []<>~Draining =>
        \A p \in Rental : row[p] = "running" /\ p \in due ~> row[p] # "running"
=============================================================================
