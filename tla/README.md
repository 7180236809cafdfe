# VPN-to-Proxy: a verification project

VPN-to-Proxy is a Go control plane. It connects VPN nodes, opens SOCKS5 and HTTP
proxies that leave through them, drives remote agents over websockets, and rents
the proxies to customers. Everything durable is in one SQLite file behind GORM
(one connection, so each statement is atomic and nothing larger is, unless it is
wrapped in a transaction).

Two idioms of the code decide most of what can go wrong, and every module here
keeps them:

- a handler reads a row into a struct, changes a field, and calls `db.Save`, which
  writes **every** column of the copy and **inserts the row again** if it has been
  deleted. Two handlers of one row overwrite each other with stale copies; the
  models keep the copies as state.
- a check and the write that relies on it are separate statements, or separate
  critical sections of a short mutex. The models have one action for each.

## Inventory

| part | state | operations | goes with |
|---|---|---|---|
| command bus, `internal/event/command_bus.go` | table `agent_commands`, `wsRegistry`, one send channel per connection, retry timers | `Dispatch`, `HandleResult`, pending list, timeout monitor, register, unregister | gateway, agent, command handlers |
| remote agent, `cmd/agent/main.go` | current websocket, command goroutines | connect loop, `executeCommand`, reports, telemetry | gateway |
| agent gateway, `internal/api/websocket.go` | one handler per connection | handshake, read loop, write loop, deferred clean-up | bus, heartbeats, tables `agents`, `agent_credentials` |
| heartbeat service, `internal/health/agent_service.go` | heartbeat cache under an RW mutex | `RecordHeartbeat`, offline sweep | table `agents` |
| agent handlers, `internal/api/handler.go` | - | register, rotate, revoke, delete, heartbeat | the same tables, the bus's registry |
| proxy manager, `internal/proxy/manager.go`, `go_proxy.go` | map port -> server under a mutex, table `proxies` | start, stop, expire, sweep, restore | proxy and VPN handlers, `cmd/server/main.go` |
| VPN manager, `internal/vpn/*` | the manager's and the drivers' maps, tables `vpn_nodes`, `express_vpn_sessions`, namespaces, the CLI of the host | connect, disconnect, validate, delete | drivers, proxy manager |
| customers, `internal/customer/service.go` | allocations, credentials, API keys | authenticate, allocate, rotate, release | billing, routing, table `proxies` |
| billing, `internal/billing/service.go` | plans, subscriptions, invoices, payments | subscribe, invoice, pay, refund, suspend, enforce | customers |
| abuse protection, `internal/abuse/service.go` | failed log-ins, blocks, connection counters (in memory), risk scores, usage rows | log-in, guard, usage, risk, suspend | proxy servers, customers |
| routing, `internal/routing/service.go` | pool members, sticky sessions, reservations | sync, grade, select, dashboard | customers, health monitor, table `proxies` |
| the rest | event bus, metrics, geo look-ups, encryption, router, dashboard | | no state of the parts above depends on them |

Customers call billing before they take a proxy and read its tables; billing and the
abuse service write the customers' tables when they suspend. The proxy manager saves
copies of the `proxies` rows whose log-in the customer service sets. The abuse service
stands at both ends of each connection of a proxy server. Routing reads what the proxy
manager, the heartbeats and the health monitor write.

What is hard, and where each thing bites, is the `hazards` list of PROJECT.json. In
short: stale whole-row saves; checks and inserts in separate statements; a registry
entry several handlers write; a channel closed while a dispatch holds it; goroutines
and timers a crash forgets; lists decided on before they are worked off; a mutex held
while clients are waited for; drivers that fail half way; suspensions in two
statements; counters that must come down on every path; zeros that are never written.

What makes each part correct:

- **bus**: a status is given for a reason that has occurred; attempts are counted
  and bounded; a pending command of a connected agent has somebody who will send
  it; no command stays active for ever; the registry is never a closed channel.
- **presence**: the registry is the agent's own live connection; a replaced or
  revoked token stays dead; a silent agent is shown offline in the end.
- **proxy manager**: a row that says running has a listener; a listener without such a row
  has one of two known causes; a crash loses no running proxy; rentals end.
- **VPN**: the connected sessions of an agent are of one node; rows, the manager's
  map and the drivers' agree between calls; what is left behind is explained.
- **customers and billing**: the quota is exceeded only by what overlapped, a payment is
  refunded once, a revoked key stays revoked, a proxy has its holder's log-in, who
  has lost the right to proxies loses them.
- **abuse**: counters are the open connections, limits and blocks are exceeded only by
  what overlapped, no risk factor is lost.
- **routing**: a customer's session keeps its proxy until that is found dead or deleted; a pool whose
  proxies are all found unfit is shown as out of service.

## Modules

| module | models | state and actions |
|---|---|---|
| `CommandBus` | the bus with both of its ends | `row` is the table; `task` the goroutines of `attemptDispatch` and of the pending list, with the copies they hold; `reader` the read loops inside `HandleResult`; `expired` the monitor's copies; `registry`, `conn`, `chan`, `up` the links; `agentConn`, `job` the agent |
| `CommandContract` | the abstract specification: what a reader of a command's status can rely on | statuses with the reasons for them |
| `AgentPresence` | `agents` and `agent_credentials`, the gateway's handlers, heartbeats, sweep, agent handlers | `proc` holds each handler's position and copies; `sweep` and `marking` the sweep's |
| `ProxyManager` | the servers behind the mutex, the `proxies` table, the handlers, the sweep, boot, shutdown and crash | `proc` is a goroutine and the calls it has left, `lock` the mutex, `clients` the connections `Stop` waits for |
| `VpnManager` | `Connect` and `Disconnect` under the manager's mutex, the four drivers, the session table, the handlers around them | `row`, `sessions` the tables; `active` the manager's map, `held` the drivers', `netns` and `cli` the host; `proc` is a request, its calls left and its copy of the row |
| `RentalTables` | the tables billing and the customer service share, and the requests under way | `account`, `plan`, `legacy`, `sub`, `alloc`; `proc` |
| `Billing` | billing, the suspensions of the abuse service, administration | `invoice`, and `refunds`, what the payment provider was told |
| `Allocation` | the customer service | `secret`, `login`, `key`; `copy`, what the proxy manager has read of a `proxies` row |
| `Rental` | `Billing` and `Allocation` composed: steps of either over the shared tables and one set of requests | |
| `AbuseGuard` | the abuse service around a connection of the proxy server: log-in, guard, dial, bridge, usage, release | `failed`, `blocked`, `active`, `busy` the service's memory; `cred`, `limit`, `risk`, `metered` rows; `conn` a connection with the factors it still has to add |
| `Routing` | quality of a proxy as a calculation, synchronisation of the pools, selection, sticky sessions, the dashboard's score | `member`, `sticky` the tables routing writes; `status`, `offline`, `checks`, `load`, `reserved` what it reads |
| `CommandBusProofs`, `AgentPresenceProofs`, `ProxyManagerProofs`, `VpnManagerProofs`, `RentalProofs`, `AbuseGuardProofs`, `RoutingProofs` | the theorems | |
| `SumTheorems` | what the proofs need of sums over finite sets | |
| `MC...` | instances for TLC | |

There is one action per statement on shared state or critical section. An action's guard
is the code's condition at that point; early returns and errors are disjuncts or
actions of their own. Variables marked *history* are not in the code: they say which
behaviours a conditional property excludes (`contested`, `disturbed`, `raced`, ...), or
remember what happened (`pays`, `bound`, `judged`, ...).

Definitions named *Mutant of X* are faulty variants of a definition `X`, used by
nothing: put in its place, each makes the property it is listed with fail.

`CommandBus` and `AgentPresence` both contain the registry, each with what the
other abstracts: the bus has no credentials (a connection is given to the agent),
presence has no commands.

### What is abstracted

Everywhere: payloads, texts, audit records and events are left out; a write of the
database that fails is left out, but for the unique keys.

- **Bus and presence.** A command on the agent succeeds or fails. `CreatedAt` is a counter
  (it orders the pending list), the other stamps are "set" or "recent"; which commands are past
  their deadline is a free choice of the monitor; 90 seconds pass in one step. One agent in
  `CommandBus`: the bus shares nothing between agents. A report and a command in flight
  can be lost with their socket, not duplicated or reordered (websockets over TCP); a stale
  socket the server has not noticed yet accepts commands and loses them. `LoadConnection`
  also covers a retry timer that has not fired. The sweep of `AgentPresence` keeps its read
  lock from row to row; the model lets a heartbeat in between, which only adds behaviours.
- **Proxy manager.** An expiry time passes at any moment. A proxy made by `CreateProxy` always
  has an expiry time, one made by `ConnectAndCreateProxy` never: that is what the two handlers do.
- **VPN manager.** What the drivers' external commands print is success or failure, with what a
  failure leaves behind. A node's session rows are a number. The proxies of a removed node are
  `ProxyManager`'s.
- **Rental.** All plans have one quota. Suspended, expired and cancelled subscriptions are
  "closed", which the code treats alike. Refusals for the country, the rotation mode or the
  traffic used are open choices. A subscription of the first kind only makes its customer a
  member of `legacy`. Rows of `proxies` exist from the start. Secrets are numbered; the router
  may answer with any proxy.
- **Abuse.** Time is in ticks of five minutes, and the block is set within the tick of the failure
  that calls for it. One credential and one client address for each proxy. Which target is
  blocked, and whether whitelist or rate limit refuse, are open choices. The two directions of a
  bridge are one step.
- **Routing.** What one quality is calculated from is read in one step, and so are the candidates.
  Round robin may come to any candidate (its counters are in an unsynchronised map; that concurrent writes of it
  end the process is one of the crashes). A session is a customer, key and country together; those
  without a customer are `Anonymous`. The filters of the request are the set `Fits`. Durations are ticks. A
  member is looked up, then created or updated; a creation that fails on the unique proxy is discarded, as the
  code does, and a failed `CreatePool` ends the request (`SyncFails`). The dashboard's rows are read in one step.

## Runs

| run | instance | what it shows |
|---|---|---|
| `bus_safety` | one command, two connections, two goroutine slots, two attempts, one crash | the safety properties and the refinement to `CommandContract`, through overlapping connections, retries, duplicates and a crash |
| `bus_live` | two commands, one connection, channel of capacity 1, one attempt, fair | both liveness properties, through the full channel and a pending list of two |
| `bus_terminal` | one command, one connection | violated: a completed command becomes timed out |
| `presence_registry` | one agent, two connections, two tokens, two requests | the registry and token properties |
| `presence_live` | one agent, connection, token and request, a crash, fair | `SilentGoesOffline` |
| `proxy_port` | two proxies of one port, one of them a rental, two requests, a crash, fair | running rows, stray listeners, restore, the end of rentals |
| `vpn_tunnels` | two nodes of every type, one agent, two requests, one end of the process | sessions, rows, interfaces and namespaces |
| `vpn_express` | two nodes, one agent, one request | violated: two nodes of one agent are up |
| `rental` | one customer, plan, subscription, invoice and key, two allocations, two proxies, two requests, quota 1 | quota, refunds, keys, log-ins, suspensions |
| `abuse` | one customer and proxy, two connections, limit 1, thresholds 2, 2, 3 in spans of 1, 2, 4 ticks, scores to 20 | counters, limits, windows, scores |
| `abuse_usage` | the same | violated: usage is metered under exchanged identities |
| `routing` | two proxies on two agents, one pool, one session key of a customer and one of nobody, two requests, sessions of 1 and 2 ticks | sessions and dashboard |

Bounds, and why they are enough to reach the interesting cases:

- *Two goroutine slots* are two holders of copies of one row; with the read loops
  and the monitor that is up to five writers of one row. A spawn waits for a free
  slot, which only delays it.
- *Two connections* are an old and a new one, the case the clean-up gets wrong;
  a third adds another old one.
- *Two attempts* reach both branches of the retry limit; the code has three.
  *A channel of capacity one* is full with one command; the code has 100.
- *One crash* separates two lives of the server; the table is all that connects them.
- *Two tokens* are an old and its replacement; rotation stops when they are used up. *Two
  requests* issue, rotate, revoke and delete through stale copies at once; `Focus` of
  `MCAgentPresence` lets them overlap while no connection is open and the sweep rests, and one of
  them run beside two connections and the sweep. All together are covered by the theorems
  `TokensCorrect` and `RegistryCorrect`.
- *Two proxies of one port* are an owner and its successor. Each identity is
  created once, as the code's random identifiers are.
- *Two nodes of one agent* are the two the single-session check is about; another agent shares
  only the host's CLI.
- *Quota 1 and limit 1* are exceeded by two that overlap. *Three secrets* are two allocations
  and a rotation. Thresholds keep the code's order (warn at or before block, block before suspend)
  and are reached by the failures of two connections; spans keep theirs.
- *`Focus`*, a state constraint, keeps the largest runs apart into the
  behaviours it lists: in `MCRental` invoices, API keys, a second allocation, disturbed proxies,
  copies of rows, other plans and subscriptions, one of these at a time; in `MCAbuseGuard` failed
  log-ins, overlapping scores or open connections. In `MCRouting`,
  as long as no proxy is selected, a second request writes members beside one dashboard while proxies are deleted
  and inserted, and a request is alone while anything else happens to them (one thing at a time); once one is
  selected, which reads no member, the members are the usual ones, one key is in use, and two selections overlap.
  What TLC does not see beyond it the theorems cover: every safety property of these four modules is
  proved without `Focus`.

Deadlock is checked everywhere: an agent that may restart, a sweep, a ticker or a new request
always has a step.

### Fairness

- `CommandBus`: weak fairness of every goroutine of the bus (the Go scheduler) and of
  the monitor's saves, strong fairness of the scans that find a given command late (the
  3 second ticker: a command that stays active passes its deadline). Nothing is assumed
  of the agent, the network, reconnections or clients.
- `AgentPresence`: weak fairness of the 15 second sweep and of handlers under way. Nobody
  has to connect, beat or call. `SilentGoesOffline` speaks of behaviours in which the
  agent is from some time on not heard of.
- `ProxyManager`: strong fairness of each goroutine, since it competes for the mutex
  (`sync.Mutex` hands itself to every waiter in its starvation mode), strong fairness of
  the minute ticker, and the process is started again. A client that never hangs up is
  allowed, and `ExpirySettles` excludes exactly that: `GoProxyServer.Stop` waits for it
  with the manager's mutex held, and no start, stop, expiry or shutdown gets past it.

The other modules have no liveness property: what they must do in the end happens within one
request, which the client may cut off at any point.

## What the runs found

Disagreements between the code and what the repository says of it, each with a run:

1. *Terminal is not final* (`bus_terminal`): `checkCommandTimeouts` saves the copy it
   listed; a result saved in between is overwritten. `HandleResult` does the same the
   other way round.
2. *An agent can have two ExpressVPN nodes up* (`vpn_express`): `Disconnect` closes the first
   connected session of the agent, so disconnecting a node that is not connected frees the slot of the
   one that is.
3. *Usage is metered under exchanged identities* (`abuse_usage`): the recorder is called with
   (proxy, customer), `RecordUsage` takes (customer, proxy). No allocation's traffic is ever raised.

Behaviours that are in the models, and that the properties are stated around, without a
quotable promise against them:

- *Bus*: two requests with one idempotency key both create a command (`CheckIdempotency`,
  `CreateCommand`); a dispatch that loaded a channel before its handler closed it panics and
  ends the server (`SendOnClosed`).
- *Presence*: revocation removes only the registry entry, the socket stays; a deleted agent comes
  back by any handler's save; the sweep overwrites a heartbeat that arrives between its check
  and its save (`SweepCheck`, `CacheBeat`, `SweepSave`).
- *Proxies*: a graceful shutdown saves every running proxy as stopped, so the next start restores
  nothing (after a crash it does, `BootReopens`); a start between the stop and the delete
  of a removal leaves a listener nobody can stop, and the next proxy of that port is "started" by
  finding it; a proxy started while the sweep holds a copy that says stopped is shown as expired
  and listens for ever (`MarkExpired`).
- *VPN*: after a restart a WireGuard row says connected, its `Disconnect` changes nothing and its
  `Connect` fails on the namespace; a Connect within a removal leaves an interface without a row.
- *Customers*: a released credential stays active; `RotateCredential` works on allocations of any
  status, and the listener keeps the old log-in until it is started again; `RotateProxy` gives
  the proxy back first and may get none; a proxy moved by routing keeps the credential of the
  old one; the router may return a proxy somebody holds.
- *Billing*: two refunds of one invoice both pass the status check; a verification turns a
  refunded invoice into a paid one; a payment reactivates a cancelled subscription; expiry by time, and
  the status "pending", suspend nothing.
- *Abuse*: an HTTP client that is refused may be served by the log-in of the row, uncounted and
  unmetered; a customer without a subscription has no connection limit.
- *Routing*: the monitor writes no row for a failed check, so no failure is ever counted; a score or
  load of zero is never written; a session's proxy is not asked whether its agent is
  online or another proxy is reserved. The session of a request without a customer is saved and never
  found. The member of a deleted proxy is never written again nor removed: the dashboard counts it for
  ever as it was. Concurrent round robin selections write one map, which the runtime may end the process for.

Several of these are hazards that a property exempts by name, with a history variable or a window: a listener left
by a start in a removal or beside a list of the sweep (`raced` of `ProxyManager`), a key revived by a stale stamp
(`reused`), a log-in undone by the manager's copy (`disturbed`), refunds that overlap or are cut off (`contested`),
an allocation overtaken by a suspension (`overtaken`, `cut`), a risk factor lost to another (`raced` of
`AbuseGuard`), selections of one session at once (`mixed`), and the rows an ended process leaves. These properties
do not deny the harm; they confine it: without that very overlap it does not occur, whatever else
interleaves. `RegistryIsOwn` and `RegisteredIsOpen` hold also when an old handler has dropped a newer registration, when a
revoked agent is still connected, and when a dispatch is about to panic.

## Proofs

Everything below holds for every value of the constants, from the named assumptions
`BusAssumption`, `PresenceAssumption`, `ProxyAssumption`, `VpnAssumption`, `RentalAssumption`,
`AllocationAssumption`, `AbuseAssumption` and `RoutingAssumption`: bounds are naturals, the "none" values are not members
of the sets they stand beside, and what is counted or listed (requests and allocations of `Rental`,
the proxies of `ProxyManager`, the connections of `AbuseGuard`, the proxies and pools of `Routing`) is finite.
Every safety property and every action property that a passing run checks is stated by a theorem.

**`CommandBusProofs`.** `TypeCorrect` is by one case per action. The safety properties are not
inductive: a row may become completed only because a report says so, and a report exists only
because a job ran, which exists only because the command travelled through a channel, which
happened only after its row was saved as dispatched; and any save in between may be of an
older copy. `Evidence` states this for each place a command or a copy can be:

- `RowEvidence`: the rows, with `DispatchEvidence`, `CompletedWasExecuted`,
  `DeadLetterIsExhausted`;
- `TaskEvidence`: a goroutine past its save holds a copy with an attempt and a time stamp;
- `CopyEvidence`: so do the read loops and the monitor, whose reports are true;
- `LinkEvidence`: every command in a channel, at the agent or in a report was handed out.

The key fact is that "handed out" (`Handed`) is never undone: every save is either of a copy
that is itself handed out, or `Dispatched` of any copy. The four parts are four lemmas
(`RowStep`, `TaskStep`, `CopyStep`, `LinkStep`); `EvidenceCorrect` puts them together and the
three properties follow. `NoLostWakeupCorrect` needs `TypeOK` and `FreeSlots` (a free slot
holds no list, so nothing is overwritten when a goroutine starts in it). `RegisteredIsOpenCorrect`
is inductive with `TypeOK`. `ContractCorrect` shows
with the same invariant that every step is a step of `CommandContract` under the mapping
`status <- row[c].status`, `handed <- {c : Handed(row[c])}`, or leaves its variables alone.

**`AgentPresenceProofs`.** `RegistryCorrect` proves `TypeOK /\ RegistryIsOwn` together, `TypeCorrect` is its
first half; it is
inductive because a connection enters the registry before it serves and, when it stops
serving, empties the entry whoever owns it (which is also why a newer connection can lose its
registration). `TokensCorrect` is an action property: only `IssueToken` and `SaveRotate` make a
token live, and both take a token that was never issued; `SaveRevoke`, whatever old hash it
writes back, marks it revoked.

**`VpnManagerProofs`.** What holds between calls is proved by an invariant that says how far the call
inside the mutex has come: `Calling(n, S)`, the call for node `n` stands in `S`. `IInv` has one
part for each thing it relates: `HeadsFit` (the call is the head of what the request has left),
`MapsFit` (the manager's and the drivers' maps differ by the call under way), `RowsFit` (rows and the
copies to be saved over them), `RemovalsFit` (a removal with only its delete left), `SessionsFit`
(the session table from the check through the driver's work to the insert). The properties of
`vpn_tunnels` follow, and two more: `ActiveIsDriven` and `TunnelsExist`.

**`RentalProofs`.** `TypeCorrect` carries, for each position a request may stand at, what it names
(`Ready`); it rests on `Kept`, that no row is ever taken away, so a request's rows are
still there when it comes to them. The other five theorems use it and are about few of the many
steps: `StaysOut(X)` says that a step lets no request into or out of the positions `X`, and four
lemmas show it for all steps of billing, and all others of the customer service.

- `RevokedKeysCorrect`: `KeysFit` adds that a request about to stamp a key that is revoked
  and not `reused` does not exist.
- `RefundsCorrect`: `RefundsFit` adds that an invoice not contested has one refund under way at
  most, is paid all along it, and has a payment to spare until the provider is told.
- `BarredCorrect` and `QuotaCorrect`: the properties are inductive with `TypeOK`; the second
  is an argument about cardinalities of finite sets.
- `LoginsCorrect`: `LoginsFit` says which allocation the log-in of an undisturbed proxy is of, the
  one that is on this proxy, and that a rotation about to renew holds the proxy its allocation is on,
  or a disturbed one.

**`ProxyManagerProofs`.** `RunningHasListener` speaks of moments when the mutex is free, so `IInv` says
what the call inside it owes:

- `LockFits`: who is inside the mutex, and that an ended process leaves no listener;
- `ListenersFit`: a listener is open unless it is being drained, a save of "running" comes with an open
  listener, and a running row without one is in the hands of the mutex's holder, who will not save
  "running" (`Ending`);
- `BootFits`: during the restore main is alone, a listener is of the row on its port, and a running row is
  listened for or still in main's list (`Pending`).

- `ListsFit` and `CallsFit`: what a goroutine has left to do (a delete follows the stop of its own proxy, a mark
  is of a rental past its time, only main's restore has rows to restore, each once), and that only a start saves "running";
- `StraysFit`: an open listener that is not `raced` is of a row that says running, or is about to (`Shown`),
  and no goroutine will take the row from it without closing it (`Threat`).

That no two rows have one port (`PortsUnique`) is inductive, and needed for the others: a start that finds its port taken
finds its own listener. `ListenersCorrect` and `StraysCorrect` are the two directions of "rows that run are ports
that listen". `RestoreCorrect` follows from `BootFits` when the list is empty.

**`SumTheorems`.** Failures in a window, average latencies and the score of the whole are sums over finite sets,
which are folds. The library's induction takes a predicate as its parameter, which the provers cannot instantiate; so
`FiniteInduction` takes a *set of sets* instead, and is proved from the well-foundedness of the strict subset
order. With it the fold behind `SumFunctionOnSet` is shown to exist and to be one (`FoldsAgree`, `FoldExists`), and
then what is cited elsewhere: a sum is a natural (`SumType`), is what is left and the element taken out (`SumRemove`),
depends on its set only (`SumAgree`), is bounded by the cardinality (`SumBound`), and what becomes of it when one value
grows or all of them move one place on (`SumOneMore`, `SumShift`), as a window of failures does.

**`AbuseGuardProofs`.** `TypeInv` adds to the types that only a connection with factors to add has its release still to
come. Every step but the check, the count and the release is `Quiet` for the counters: it changes
neither who is counted (`Carried`) nor who has passed the limit uncounted (`Passing`). The counters are then an
argument about cardinalities; for the limit, `LimitsFit` says who still has one; for the score,
`ScoresFit` says that a connection about to save has read what is in the row, unless it was raced.

`FailuresCorrect` and `SuspendCorrect` are about a count that grows in one step, a block or a suspension that is set
some steps later, and a clock that moves both. What lies between is in `FailuresInv`:

- `BlocksFit`: in every window up to the block's span, as many failures as the threshold mean that a block is still
  to come (`Pending`) or outlasts them. It speaks of all windows, since a tick makes each the next longer one;
- `PendingFit`: without a block, each failure from the threshold on has a block of its own to come;
- `EnteringFit`: the bound itself, counting the log-ins that are past the check and may yet fail (`Entering`);
- `EffectsFit`: a factor has taken effect before its score is added, so that finishing it loses nothing;
- `SuspendsFit`: the same for the longer window of the suspension.

Most steps are `Harmless`: they neither record a failure nor take from what is pending. Those that are not (entering,
recording, the effect of a factor, the tick) have a lemma each.

**`RoutingProofs`.** `TypeCorrect` needs that a score is from 0 to 100, whatever checks there were: `AverageFits`,
`ScoreFits` and `MeanFits` show it of the averages and penalties it is made of, `HAScoreFits` of the score of the whole. Of a row
it keeps besides that a score of zero comes with "dead" (`RowFits`).

- `AvailableCorrect`: `MembersFit` says that a member's row is what it was written from, but for a zero
  that `Updated` drops, and the row it was written from then says "dead".
- `OutageCorrect`: `ListsFit` follows a dashboard through its synchronisation. What carries a fit row to a member
  (`Carries`) is in `fit`, because it was so when the dashboard was asked for or was calculated since; and the listed
  proxies already dealt with are fit as members only if they are in `fit`. When all are dealt with, a pool
  without such members has none available, and its score is zero.
- `StickyKeptCorrect`, `StickyStableCorrect`: `SessionsFit` says of each session not mixed (`KeyFits`) that one
  request at most seeks it, that the table holds the row bound last unless this request is between
  its two statements, and that what it judges, or has found dead or deleted, is the bound proxy while the session of a customer lives.

**Only model-checked.** Liveness (`ActiveSettles`, `PendingMoves`, `SilentGoesOffline`, `ExpirySettles`): fairness
is stated with ENABLED, which is beyond the prover.

## Plan

Done: the modules above. Left, in this order:

1. A module that ties the credentials of `AgentPresence` to the commands of `CommandBus`: what a revoked
   agent still receives over the socket it keeps.
2. The runs of `Rental` and `AbuseGuard` with fewer restrictions of `Focus`, as far as time allows.

## Not modelled, and why

- Event bus and dashboard gateway: they drop what nobody reads, and no state of the other parts depends
  on what is delivered.
- Metrics, the sampling of the health monitor and the unused checker: statistics. What routing reads of the
  monitor's rows is an action of `Routing`.
- Geo and IP look-ups, the location cache: answers of outside services.
- Encryption of stored secrets: a library call without state.
- Router, configuration, rate limiting: wiring; a refusal is an open choice in `AbuseGuard`.
- The port allocator, which nothing calls.
- The SOCKS5 and HTTP protocols within a connection: parsing and copying of bytes.
- Migrations, passwords, the expiry of sessions of users, the web dashboard.
