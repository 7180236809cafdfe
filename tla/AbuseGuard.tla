----------------------------- MODULE AbuseGuard -----------------------------
(***************************************************************************)
(* The abuse service (internal/abuse/service.go) around one connection of  *)
(* the proxy server (internal/proxy/go_proxy.go): the login with its       *)
(* failure windows, the guard with its connection counters, the recording  *)
(* of usage, and the risk score.                                           *)
(*                                                                         *)
(* Time passes in ticks of five minutes; a login is punished within one.   *)
(* The mutex of the service covers single look-ups and updates only.       *)
(***************************************************************************)
EXTENDS Naturals, Sequences, FiniteSets, Functions

CONSTANTS Customer, Proxy,
          Owner,       \* Owner[p]: whose credential proxy p has
          Conn,        \* client connections in flight (bound)
          Nobody,
          Limit,       \* concurrent connections of the plan
          WarnAt, BlockAt, SuspendAt,       \* 5, 20, 50 failed logins
          WarnSpan, BlockSpan, SuspendSpan, \* within 5, 10, 60 minutes
          MaxScore,    \* 100
          Delta        \* Delta[f]: what factor f adds to the score

Factors == {"failed_auth_warning", "failed_auth_temporary_block", "credential_suspended",
            "ip_whitelist_denied", "blocked_target", "connection_limit", "bandwidth_spike"}

ASSUME AbuseAssumption ==
    /\ Owner \in [Proxy -> Customer]
    /\ Nobody \notin Customer /\ Customer \cap Proxy = {}
    /\ {Limit, WarnAt, BlockAt, SuspendAt, WarnSpan, BlockSpan, SuspendSpan} \subseteq Nat \ {0}
    /\ WarnSpan <= BlockSpan /\ BlockSpan <= SuspendSpan
    /\ MaxScore \in Nat /\ \A f \in Factors : Delta[f] \in Nat
    /\ IsFiniteSet(Conn)

VARIABLES failed,  \* failed[p][a]: failed logins at p, a ticks ago
          blocked, \* blocked[p]: ticks for which logins at p are refused
          active,  \* active[c]: activeCustomer
          busy,    \* busy[p]: activeProxy
          cred,    \* cred[p]: status of the credential
          limit,   \* limit[c]: what the subscription gives; 0 is no limit
          risk,    \* risk[x]: score in the row of x
          metered, \* the pairs (customer_id, proxy_id) of the usage rows
          conn,    \* conn[q]: where a connection stands
          trying,  \* history: most logins past the block at once
          passing, \* history: most connections past the limit, uncounted, at once
          lapsed,  \* history: customers that had no limit for a while
          due,     \* history: what the score was raised by since it was cleared
          raced,   \* history: identities with two changes of the score at once
          moved    \* history: (customer, proxy) of the connections recorded

memory == <<failed, blocked, active, busy>>
rows   == <<cred, limit, risk, metered>>
past   == <<trying, passing, lapsed, due, raced, moved>>
vars   == <<memory, rows, conn, past>>
-----------------------------------------------------------------------------
Idle == [pc |-> "idle", proxy |-> Nobody, who |-> Nobody,
         scored |-> Nobody, todo |-> <<>>, next |-> "idle", score |-> 0]

At(q, pc)   == conn[q].pc = pc
Goto(q, pc) == conn' = [conn EXCEPT ![q].pc = pc]
Done(q)     == conn' = [conn EXCEPT ![q] = Idle]

Init == /\ failed = [p \in Proxy |-> [a \in 0..SuspendSpan - 1 |-> 0]]
        /\ blocked = [p \in Proxy |-> 0]
        /\ active = [c \in Customer |-> 0]
        /\ busy = [p \in Proxy |-> 0]
        /\ cred = [p \in Proxy |-> "active"]
        /\ limit = [c \in Customer |-> Limit]
        /\ risk = [x \in Customer \cup Proxy |-> 0]
        /\ metered = {}
        /\ conn = [q \in Conn |-> Idle]
        /\ trying = [p \in Proxy |-> 0]
        /\ passing = [c \in Customer |-> 0]
        /\ lapsed = {}
        /\ due = risk
        /\ raced = {} /\ moved = {}

\* The factors that count against x, one after the other, then next.
Punish(q, x, factors, next) ==
    conn' = [conn EXCEPT ![q] = [@ EXCEPT !.pc = "enforce", !.scored = x, !.todo = factors, !.next = next]]
\* The next factor, or what comes after the last.
Popped(q) ==
    LET rest == Tail(conn[q].todo)
    IN conn' = [conn EXCEPT ![q] =
                    [@ EXCEPT !.todo = rest, !.pc = IF rest = <<>> THEN conn[q].next ELSE "enforce"]]

\* countSince.
Failures(p, span) == SumFunctionOnSet(failed[p], 0..span - 1)
Bigger(m, n) == IF m > n THEN m ELSE n
Capped(n) == IF n > MaxScore THEN MaxScore ELSE n
-----------------------------------------------------------------------------
(* The login: ValidateProxyCredential and RecordFailedAuth.                *)

\* Logins past the look at the block, until their failure is counted and has
\* set the next one.
Trying(p) == {q \in Conn : /\ conn[q].proxy = p
                           /\ \/ conn[q].pc \in {"credential", "failed"}
                              \/ "failed_auth_temporary_block" \in Range(conn[q].todo)}

Accept(q, p) == /\ At(q, "idle")
                /\ conn' = [conn EXCEPT ![q] = [Idle EXCEPT !.pc = "login", !.proxy = p]]
                /\ UNCHANGED <<memory, rows, past>>

BlockedUntil(q) ==
    LET p == conn[q].proxy
    IN /\ At(q, "login")
       /\ \/ blocked[p] > 0 /\ Goto(q, "denied") /\ UNCHANGED trying
          \/ /\ blocked[p] = 0
             /\ Goto(q, "credential")
             /\ trying' = [trying EXCEPT ![p] = Bigger(@, Cardinality(Trying(p)) + 1)]
       /\ UNCHANGED <<memory, rows, passing, lapsed, due, raced, moved>>

\* A credential that is not active is not found, nor is its customer.
CheckCredential(q) ==
    LET p == conn[q].proxy
    IN /\ At(q, "credential")
       /\ \E pc \in {"whitelist", "failed"} :
            \/ cred[p] = "active" /\ conn' = [conn EXCEPT ![q] = [@ EXCEPT !.pc = pc, !.who = Owner[p]]]
            \/ cred[p] # "active" /\ pc = "failed" /\ Goto(q, pc)
       /\ UNCHANGED <<memory, rows, past>>

\* Mutant of Reached: past the threshold.
ReachedPast(n, threshold) == n > threshold
Reached(n, threshold) == n >= threshold

\* What the counts with this failure call for, in the code's order.
Called(p, span, threshold, factor) ==
    IF Reached(Failures(p, span) + 1, threshold) THEN <<factor>> ELSE <<>>
Due(p) == Called(p, WarnSpan, WarnAt, "failed_auth_warning")
          \o Called(p, BlockSpan, BlockAt, "failed_auth_temporary_block")
          \o Called(p, SuspendSpan, SuspendAt, "credential_suspended")

\* A failure now.
OneMore(f) == [f EXCEPT ![0] = @ + 1]

RecordFailedAuth(q) ==
    LET p == conn[q].proxy
    IN /\ At(q, "failed")
       /\ failed' = [failed EXCEPT ![p] = OneMore(@)]
       /\ \/ Due(p) # <<>> /\ Punish(q, conn[q].who, Due(p), "denied")
          \/ Due(p) = <<>> /\ Goto(q, "denied")
       /\ UNCHANGED <<blocked, active, busy, rows, past>>

\* Mutant of BlockFor: five minutes.
BlockBriefly(p) == blocked' = [blocked EXCEPT ![p] = WarnSpan]
\* The end of the block still belongs to it.
BlockFor(p) == blocked' = [blocked EXCEPT ![p] = BlockSpan + 1]

\* One factor takes effect; without a customer no score is raised.
Enforce(q) ==
    LET p == conn[q].proxy  f == Head(conn[q].todo)
    IN /\ At(q, "enforce")
       /\ IF f = "failed_auth_temporary_block" THEN BlockFor(p) ELSE UNCHANGED blocked
       /\ cred' = IF f = "credential_suspended" THEN [cred EXCEPT ![p] = "suspended"] ELSE cred
       /\ IF conn[q].scored = Nobody THEN Popped(q) ELSE Goto(q, "readScore")
       /\ UNCHANGED <<failed, active, busy, limit, risk, metered, past>>

\* The whitelist of the customer or the rate of logins may refuse.
ClientAllowed(q) ==
    /\ At(q, "whitelist")
    /\ \/ Goto(q, "guard")
       \/ Punish(q, conn[q].who, <<"ip_whitelist_denied">>, "denied")
       \/ Goto(q, "denied")
    /\ UNCHANGED <<memory, rows, past>>

\* Mutant of ServedForNobody: the guard does not return early.
ServedAsAnyone(q) ==
    /\ At(q, "denied") \/ At(q, "login")
    /\ conn' = [conn EXCEPT ![q] = [@ EXCEPT !.pc = "guard", !.who = Nobody]]
    /\ UNCHANGED <<memory, rows, past>>
\* Without a customer the guard returns at once.  An HTTP client that is
\* refused is served so if it knows the login of the proxies row; and each
\* client of a proxy without a login.
ServedForNobody(q) ==
    /\ At(q, "denied") \/ At(q, "login")
    /\ conn' = [conn EXCEPT ![q] = [@ EXCEPT !.pc = "dial", !.who = Nobody]]
    /\ UNCHANGED <<memory, rows, past>>

\* Refused, or the client leaves or sends no request that can be read.
Return(q) == /\ conn[q].pc \in {"login", "denied", "guard", "closed"}
             /\ Done(q)
             /\ UNCHANGED <<memory, rows, past>>
-----------------------------------------------------------------------------
(* The risk score.                                                         *)

Scoring(x) == {q \in Conn : At(q, "saveScore") /\ conn[q].scored = x}
Touched(x, mine) == raced' = IF Scoring(x) \ mine = {} THEN raced ELSE raced \cup {x}

ReadScore(q) ==
    /\ At(q, "readScore")
    /\ conn' = [conn EXCEPT ![q] = [@ EXCEPT !.pc = "saveScore", !.score = risk[conn[q].scored]]]
    /\ UNCHANGED <<memory, rows, past>>

\* Mutant of Raised: the score starts anew.
RaisedFresh(q) == Capped(Delta[Head(conn[q].todo)])
Raised(q) == Capped(conn[q].score + Delta[Head(conn[q].todo)])

SaveScore(q) ==
    LET x == conn[q].scored
    IN /\ At(q, "saveScore")
       /\ risk' = [risk EXCEPT ![x] = Raised(q)]
       /\ due' = [due EXCEPT ![x] = Capped(@ + Delta[Head(conn[q].todo)])]
       /\ Touched(x, {q})
       /\ Popped(q)
       /\ UNCHANGED <<memory, cred, limit, metered, trying, passing, lapsed, moved>>

ClearRisk(c) == /\ risk' = [risk EXCEPT ![c] = 0]
                /\ due' = [due EXCEPT ![c] = 0]
                /\ Touched(c, {})
                /\ UNCHANGED <<memory, cred, limit, metered, conn, trying, passing, lapsed, moved>>
-----------------------------------------------------------------------------
(* The guard and the connection.                                           *)

\* Connections past the limit that are not counted yet, and the counted ones.
Passing(c) == {q \in Conn : At(q, "count") /\ conn[q].who = c}
Counted    == {q \in Conn : conn[q].pc \in {"dial", "bridge", "usage", "release"}
                               \/ conn[q].next = "release"}
Open(c)    == {q \in Counted : conn[q].who = c}

\* checkBlockedTarget; which targets are blocked is left open.
GuardTarget(q) ==
    /\ At(q, "guard")
    /\ Goto(q, "limits") \/ Punish(q, conn[q].who, <<"blocked_target">>, "closed")
    /\ UNCHANGED <<memory, rows, past>>

\* Mutant of Exceeded: the limit itself is let through.
ExceededBy(c) == limit[c] > 0 /\ active[c] > limit[c]
Exceeded(c) == limit[c] > 0 /\ active[c] >= limit[c]

CheckConnectionLimits(q) ==
    LET c == conn[q].who
    IN /\ At(q, "limits")
       /\ \/ /\ Exceeded(c)
             /\ Punish(q, c, <<"connection_limit">>, "closed")
             /\ UNCHANGED passing
          \/ /\ ~Exceeded(c)
             /\ Goto(q, "count")
             /\ passing' = [passing EXCEPT ![c] = Bigger(@, Cardinality(Passing(c)) + 1)]
       /\ UNCHANGED <<memory, rows, trying, lapsed, due, raced, moved>>

GuardConnection(q) ==
    /\ At(q, "count")
    /\ active' = [active EXCEPT ![conn[q].who] = @ + 1]
    /\ busy' = [busy EXCEPT ![conn[q].proxy] = @ + 1]
    /\ Goto(q, "dial")
    /\ UNCHANGED <<failed, blocked, rows, past>>

\* Mutant of DialFails: the handler returns without the deferred release.
DialFailsHard(q) == At(q, "dial") /\ Done(q) /\ UNCHANGED <<memory, rows, past>>
\* No target, or the client has gone.
DialFails(q) == At(q, "dial") /\ Goto(q, "release") /\ UNCHANGED <<memory, rows, past>>

Dial(q) == At(q, "dial") /\ Goto(q, "bridge") /\ UNCHANGED <<memory, rows, past>>

BridgeEnds(q) == At(q, "bridge") /\ Goto(q, "usage") /\ UNCHANGED <<memory, rows, past>>

\* recordProxyUsage passes (proxy, customer), RecordUsage takes (customer,
\* proxy): the row, the look-up of the allocation and the score of a spike
\* have the two exchanged.
RecordUsage(q) ==
    LET c == conn[q].who  p == conn[q].proxy
    IN /\ At(q, "usage")
       /\ \/ c = Nobody /\ Goto(q, "release") /\ UNCHANGED <<metered, moved>>
          \/ /\ c # Nobody
             /\ metered' = metered \cup {<<p, c>>}
             /\ moved' = moved \cup {<<c, p>>}
             /\ Goto(q, "release") \/ Punish(q, p, <<"bandwidth_spike">>, "release")
       /\ UNCHANGED <<memory, cred, limit, risk, trying, passing, lapsed, due, raced>>

Released(q) ==
    LET c == conn[q].who  p == conn[q].proxy
    IN IF c = Nobody THEN UNCHANGED <<active, busy>>
       ELSE /\ active' = [active EXCEPT ![c] = IF @ > 0 THEN @ - 1 ELSE 0]
            /\ busy' = [busy EXCEPT ![p] = IF @ > 0 THEN @ - 1 ELSE 0]

Release(q) == /\ At(q, "release")
              /\ Released(q)
              /\ Done(q)
              /\ UNCHANGED <<failed, blocked, rows, past>>
-----------------------------------------------------------------------------
(* What happens beside the connections.                                    *)

DisableCredential(p) == /\ cred' = [cred EXCEPT ![p] = "suspended"]
                        /\ UNCHANGED <<memory, limit, risk, metered, conn, past>>

SubscriptionEnds(c) == /\ limit' = [limit EXCEPT ![c] = 0]
                       /\ lapsed' = lapsed \cup {c}
                       /\ UNCHANGED <<memory, cred, risk, metered, conn, trying, passing, due, raced, moved>>
SubscriptionStarts(c) == /\ limit' = [limit EXCEPT ![c] = Limit]
                         /\ UNCHANGED <<memory, cred, risk, metered, conn, past>>

\* pruneTimes drops what is an hour old.
Tick == /\ \A q \in Conn : "failed_auth_temporary_block" \notin Range(conn[q].todo)
        /\ failed' = [p \in Proxy |-> [a \in 0..SuspendSpan - 1 |-> IF a = 0 THEN 0 ELSE failed[p][a - 1]]]
        /\ blocked' = [p \in Proxy |-> IF blocked[p] > 0 THEN blocked[p] - 1 ELSE 0]
        /\ UNCHANGED <<active, busy, rows, conn, past>>

\* The service starts anew, the rows remain.
Crash == /\ failed' = [p \in Proxy |-> [a \in 0..SuspendSpan - 1 |-> 0]]
         /\ blocked' = [p \in Proxy |-> 0]
         /\ active' = [c \in Customer |-> 0]
         /\ busy' = [p \in Proxy |-> 0]
         /\ conn' = [q \in Conn |-> Idle]
         /\ UNCHANGED <<rows, past>>

Login(q) == \/ \E p \in Proxy : Accept(q, p)
            \/ BlockedUntil(q) \/ CheckCredential(q) \/ RecordFailedAuth(q) \/ ClientAllowed(q)
            \/ ServedForNobody(q) \/ Return(q)
            \/ Enforce(q) \/ ReadScore(q) \/ SaveScore(q)
Serve(q) == \/ GuardTarget(q) \/ CheckConnectionLimits(q) \/ GuardConnection(q)
            \/ Dial(q) \/ DialFails(q) \/ BridgeEnds(q) \/ RecordUsage(q) \/ Release(q)

Next == \/ \E q \in Conn : Login(q) \/ Serve(q)
        \/ \E p \in Proxy : DisableCredential(p)
        \/ \E c \in Customer : ClearRisk(c) \/ SubscriptionEnds(c) \/ SubscriptionStarts(c)
        \/ Tick
        \/ Crash

Spec == Init /\ [][Next]_vars
-----------------------------------------------------------------------------
ConnType ==
    [pc : {"idle", "login", "credential", "failed", "whitelist", "denied", "closed", "enforce", "readScore",
           "saveScore", "guard", "limits", "count", "dial", "bridge", "usage", "release"},
     proxy : Proxy \cup {Nobody}, who : Customer \cup {Nobody}, scored : Customer \cup Proxy \cup {Nobody},
     todo : Seq(Factors), next : {"idle", "denied", "closed", "release"}, score : 0..MaxScore]

\* Type invariant: a connection that is counted, or about to be, has a customer.
TypeOK ==
    /\ failed \in [Proxy -> [0..SuspendSpan - 1 -> Nat]]
    /\ blocked \in [Proxy -> 0..BlockSpan + 1]
    /\ active \in [Customer -> Nat] /\ busy \in [Proxy -> Nat]
    /\ cred \in [Proxy -> {"active", "suspended"}]
    /\ limit \in [Customer -> {0, Limit}]
    /\ risk \in [Customer \cup Proxy -> 0..MaxScore] /\ due \in [Customer \cup Proxy -> 0..MaxScore]
    /\ metered \subseteq Proxy \X Customer /\ moved \subseteq Customer \X Proxy
    /\ trying \in [Proxy -> Nat] /\ passing \in [Customer -> Nat]
    /\ lapsed \subseteq Customer /\ raced \subseteq Customer \cup Proxy
    /\ conn \in [Conn -> ConnType]
    /\ \A q \in Conn :
          /\ conn[q].pc # "idle" => conn[q].proxy \in Proxy
          /\ conn[q].pc \in {"whitelist", "guard", "limits", "count"} => conn[q].who \in Customer
          /\ conn[q].pc \in {"readScore", "saveScore"} => conn[q].scored \in Customer \cup Proxy
          /\ conn[q].todo # <<>> <=> conn[q].pc \in {"enforce", "readScore", "saveScore"}

\* The counters of the guard are the connections that are open, whatever way
\* they end: a refused target, a failed dial, a spike, a restart.
CountersMatch ==
    /\ \A c \in Customer : active[c] = Cardinality(Open(c))
    /\ \A p \in Proxy : busy[p] = Cardinality({q \in Counted : conn[q].who # Nobody /\ conn[q].proxy = p})

\* The limit is compared in one step and the counter raised in another: a
\* customer who always had a limit exceeds it by the connections that
\* overlapped there, and by no more.
LimitOvershoot ==
    \A c \in Customer \ lapsed :
        active[c] + Cardinality(Passing(c)) + 1 <= Limit + (IF passing[c] = 0 THEN 1 ELSE passing[c])

\* In no ten minutes do more logins of an address fail at a proxy than the
\* threshold of the block, and those that were under way when it was set.
FailuresBounded == \A p \in Proxy : Failures(p, BlockSpan) + 1 <= BlockAt + trying[p]

\* When the failures of an hour have reached the threshold, the credential is
\* suspended or the last of those logins is about to do it.
ThresholdSuspends ==
    \A p \in Proxy : Failures(p, SuspendSpan) >= SuspendAt =>
        \/ cred[p] = "suspended"
        \/ \E q \in Conn : conn[q].proxy = p /\ "credential_suspended" \in Range(conn[q].todo)

\* No factor is lost or counted twice: the score is what was added since it
\* was cleared, unless two changes of it overlapped.
RiskAccounted == \A x \in (Customer \cup Proxy) \ raced : risk[x] = due[x]

\* What a connection carried is metered for its customer and its proxy.
UsageIsMetered == moved \subseteq metered
=============================================================================
