------------------------------- MODULE Routing -------------------------------
(***************************************************************************)
(* Routing (internal/routing/service.go): the quality of a proxy, the rows *)
(* of the pools' members, and the selection with its sticky sessions.      *)
(*                                                                         *)
(* Requests run beside each other; a statement is atomic, and so is the    *)
(* reading of what one quality is calculated from.                         *)
(***************************************************************************)
EXTENDS Integers, Sequences, FiniteSets, SequencesExt, FiniteSetsExt

CONSTANTS Proxy, Agent, Pool,
          AgentOf, PoolOf, \* of each proxy
          Key,             \* customer, session key and country of a sticky session
          Anonymous,       \* those of no customer
          Fits,            \* Fits[k]: the proxies that pass the filters of such a request
          Duration,        \* Duration[m]: ticks a session of sticky mode m lasts
          Req,             \* requests in flight (bound)
          Latency,         \* measured latencies (bound)
          Window,          \* checks a quality is calculated from, 20
          MaxLoad,         \* active allocations of a proxy (bound)
          Nothing

ASSUME RoutingAssumption ==
    /\ AgentOf \in [Proxy -> Agent] /\ PoolOf \in [Proxy -> Pool] /\ Fits \in [Key -> SUBSET Proxy]
    /\ Anonymous \subseteq Key
    /\ \A m \in DOMAIN Duration : Duration[m] \in Nat \ {0}
    /\ DOMAIN Duration \cap {"rotating", "sync", "list"} = {}
    /\ Latency \subseteq Nat /\ Window \in Nat \ {0} /\ MaxLoad \in Nat
    /\ Nothing \notin Proxy \cup Key
    /\ IsFiniteSet(Proxy) /\ IsFiniteSet(Pool)

VARIABLES status,   \* status[p]: of the proxies row, "none" without one
          offline,  \* agents whose row says offline
          checks,   \* checks[p]: the last health metrics, the newest first
          load,     \* load[p]: active allocations
          reserved, \* reserved[k]: proxies the customer has reserved
          member,   \* member[p]: the row of the pool's member
          sticky,   \* sticky[k]: the rows of the session, the oldest first
          proc,     \* proc[q]: where a request stands
          judged,   \* history: judged[p]: what the row of p was last written from
          bound,    \* history: bound[k]: the session last made
          mixed,    \* history: sessions two requests looked for at once, or cut off
          fit       \* history: fit[q]: proxies calculated fit since q asked for the
                    \* dashboard, or on their way to a row then

world   == <<status, offline, checks, load, reserved>>
routing == <<member, sticky>>
past    == <<judged, bound, mixed, fit>>
vars    == <<world, routing, proc, past>>
-----------------------------------------------------------------------------
(* CalculateQuality, as a calculation.                                     *)

\* int(min(latency / 10, 30)).
LatencyPenalty(l) == IF l \div 10 < 30 THEN l \div 10 ELSE 30

\* n less m, and not below zero.
Less(n, m) == IF m < n THEN n - m ELSE 0

\* Mutant of Score: the floor is forgotten for one penalty.
ScoreUnclamped(l, failures, down, off, n) ==
    100 - LatencyPenalty(l) - 8 * failures - (IF down THEN 45 ELSE 0) - (IF off THEN 35 ELSE 0) - 3 * n
Score(l, failures, down, off, n) ==
    Less(100, LatencyPenalty(l) + 8 * failures + (IF down THEN 45 ELSE 0) + (IF off THEN 35 ELSE 0) + 3 * n)

Grade(score) == CASE score >= 95 -> "A+"
                  [] score >= 85 -> "A"
                  [] score >= 70 -> "B"
                  [] score >= 40 -> "C"
                  [] OTHER -> "Dead"

\* A proxy without a row scores zero, and is "missing".
Health(score, s) == IF s = "none" THEN "missing"
                    ELSE IF score = 0 \/ s = "error" THEN "dead"
                    ELSE IF score < 50 THEN "degraded" ELSE "healthy"

MemberStatus(score, s) == IF s = "error" \/ Grade(score) = "Dead" THEN "degraded" ELSE "active"

\* Without a check the latency counts as 300.
AverageLatency(cs) ==
    LET latency == [i \in DOMAIN cs |-> cs[i].latency]
    IN IF cs = <<>> THEN 300 ELSE SumFunctionOnSet(latency, DOMAIN cs) \div Len(cs)
FailuresIn(cs) == Cardinality({i \in DOMAIN cs : ~cs[i].ok})

Quality(p) == IF status[p] = "none" THEN 0
              ELSE Score(AverageLatency(checks[p]), FailuresIn(checks[p]),
                         status[p] \in {"error", "stopped"}, AgentOf[p] \in offline, load[p])
Graded(p)  == Grade(Quality(p))

\* What is written of a member: its status is that of the copy s listed before.
Row(p, s) == [score |-> Quality(p), health |-> Health(Quality(p), status[p]),
              status |-> MemberStatus(Quality(p), s), load |-> load[p]]
-----------------------------------------------------------------------------
NoMember == [score |-> 0, health |-> "none", status |-> "none", load |-> 0]
NoBinding == [proxy |-> Nothing, left |-> 0]
Idle == [pc |-> "idle", key |-> Nothing, mode |-> "sync", listed |-> [p \in Proxy |-> "none"],
         todo |-> {}, row |-> NoMember, pick |-> Nothing, lost |-> Nothing]

Init == /\ status = [p \in Proxy |-> "running"]
        /\ offline = {}
        /\ checks = [p \in Proxy |-> <<>>]
        /\ load = [p \in Proxy |-> 0]
        /\ reserved = [k \in Key |-> {}]
        /\ member = [p \in Proxy |-> NoMember]
        /\ sticky = [k \in Key |-> <<>>]
        /\ proc = [q \in Req |-> Idle]
        /\ judged = member
        /\ bound = [k \in Key |-> NoBinding]
        /\ mixed = {}
        /\ fit = [q \in Req |-> {}]

Status == {"none", "running", "stopped", "error"}

At(q, pc)   == proc[q].pc = pc
Goto(q, pc) == proc' = [proc EXCEPT ![q].pc = pc]
Done(q)     == proc' = [proc EXCEPT ![q] = Idle]
-----------------------------------------------------------------------------
(* SyncPools, on its own, before the dashboard or as the first part of a    *)
(* selection.                                                              *)

\* Counted as available when it is read.
Fit(row) == row.status = "active" /\ row.health # "dead" /\ row.score >= 40

\* Members on their way to a row: calculated, not yet written.
Unwritten == {q \in Req : proc[q].pc \in {"lookup", "update", "create"}}

Begin(q, k, mode) ==
    /\ At(q, "idle")
    /\ proc' = [proc EXCEPT ![q] = [Idle EXCEPT !.pc = "sync", !.key = k, !.mode = mode, !.listed = status,
                                                !.todo = {p \in Proxy : status[p] # "none"}]]
    /\ fit' = [fit EXCEPT ![q] = IF mode # "list" THEN {}
                                 ELSE {proc[r].pick : r \in {u \in Unwritten : Fit(proc[u].row)}}]
    /\ UNCHANGED <<world, routing, judged, bound, mixed>>

SyncPools(q)            == Begin(q, Nothing, "sync")
ListPools(q)            == Begin(q, Nothing, "list")
SelectProxy(q, k, mode) == Begin(q, k, mode)

\* Leaves the quality of a listed proxy, which may have been deleted since.
CalculateQuality(q, p) ==
    LET row == Row(p, proc[q].listed[p])
    IN /\ At(q, "sync") /\ p \in proc[q].todo
       /\ proc' = [proc EXCEPT ![q] = [@ EXCEPT !.pc = "lookup", !.row = row, !.pick = p]]
       /\ fit' = [r \in Req |-> IF proc[r].mode = "list" /\ Fit(row) THEN fit[r] \cup {p} ELSE fit[r]]
       /\ UNCHANGED <<world, routing, judged, bound, mixed>>

LookUpMember(q) ==
    /\ At(q, "lookup")
    /\ Goto(q, IF member[proc[q].pick] = NoMember THEN "create" ELSE "update")
    /\ UNCHANGED <<world, routing, past>>

\* Mutant of Updated: what is unchanged at zero takes the whole row along.
UpdatedIfAny(old, new) == IF new.score = 0 THEN old ELSE new
\* Updates with a struct writes no zero: a score or a load of zero leaves the
\* old one in the row.
Updated(old, new) ==
    [new EXCEPT !.score = IF new.score = 0 THEN old.score ELSE new.score,
                !.load = IF new.load = 0 THEN old.load ELSE new.load]

\* The proxy at hand is done with.
NextProxy(q) == proc' = [proc EXCEPT ![q] = [@ EXCEPT !.pc = "sync", !.todo = proc[q].todo \ {proc[q].pick},
                                                      !.row = NoMember, !.pick = Nothing]]

UpdateMember(q) ==
    /\ At(q, "update")
    /\ member' = [member EXCEPT ![proc[q].pick] = Updated(@, proc[q].row)]
    /\ judged' = [judged EXCEPT ![proc[q].pick] = proc[q].row]
    /\ NextProxy(q)
    /\ UNCHANGED <<world, sticky, bound, mixed, fit>>

\* The proxy of a member is unique: when another has created it since the
\* look-up, the failure is discarded and its row stays.
CreateMember(q) ==
    /\ At(q, "create")
    /\ IF member[proc[q].pick] = NoMember
       THEN /\ member' = [member EXCEPT ![proc[q].pick] = proc[q].row]
            /\ judged' = [judged EXCEPT ![proc[q].pick] = proc[q].row]
       ELSE UNCHANGED <<member, judged>>
    /\ NextProxy(q)
    /\ UNCHANGED <<world, sticky, bound, mixed, fit>>

\* CreatePool fails, as when two requests create the same pool: the request
\* ends with it.
SyncFails(q) ==
    /\ At(q, "sync") /\ proc[q].todo # {}
    /\ Done(q)
    /\ fit' = [fit EXCEPT ![q] = {}]
    /\ UNCHANGED <<world, routing, judged, bound, mixed>>

SyncEnds(q) ==
    LET k == proc[q].key  mode == proc[q].mode
    IN /\ At(q, "sync") /\ proc[q].todo = {}
       /\ CASE mode = "sync" -> Done(q)
            [] mode = "list" -> Goto(q, "show")
            [] OTHER -> proc' = [proc EXCEPT ![q] = [Idle EXCEPT !.key = k, !.mode = mode,
                                    !.pc = IF mode \in DOMAIN Duration THEN "find" ELSE "candidates"]]
       /\ UNCHANGED <<world, routing, past>>

\* The dashboard has been read from the rows, one pool after another.
Show(q) ==
    /\ At(q, "show")
    /\ Done(q)
    /\ fit' = [fit EXCEPT ![q] = {}]
    /\ UNCHANGED <<world, routing, judged, bound, mixed>>
-----------------------------------------------------------------------------
(* The selection: SelectProxy after SyncPools.                             *)

\* Requests that look for the session, and have not made or found it yet.
Seeking(k) == {q \in Req : /\ proc[q].key = k /\ proc[q].mode \in DOMAIN Duration
                           /\ proc[q].pc \in {"judge", "candidates", "deleteSticky", "createSticky"}}

\* Mutant of LiveSessions: only a session as long as the asked mode counts.
LiveSessionsOf(k, mode) == {i \in DOMAIN sticky[k] : sticky[k][i].left >= Duration[mode]}
\* findSticky: a row that has not expired, of whatever mode; of several the one
\* that expires last. Without a customer it finds none, although they are saved.
LiveSessions(k, mode) == {i \in DOMAIN sticky[k] :
    /\ k \notin Anonymous
    /\ sticky[k][i].left > 0
    /\ \A j \in DOMAIN sticky[k] : sticky[k][j].left <= sticky[k][i].left}

FindSticky(q) ==
    LET k == proc[q].key  live == LiveSessions(k, proc[q].mode)
    IN /\ At(q, "find")
       /\ \/ live = {} /\ Goto(q, "candidates")
          \/ \E i \in live : proc' = [proc EXCEPT ![q] = [@ EXCEPT !.pc = "judge", !.pick = sticky[k][i].proxy]]
       /\ mixed' = IF Seeking(k) = {} THEN mixed ELSE mixed \cup {k}
       /\ UNCHANGED <<world, routing, judged, bound, fit>>

\* A session's proxy is asked for its row and its grade alone: it may be in
\* error, its agent offline, or another proxy reserved.
JudgeSticky(q) ==
    LET p == proc[q].pick
    IN /\ At(q, "judge")
       /\ \/ status[p] # "none" /\ Graded(p) # "Dead" /\ Done(q)
          \/ /\ status[p] = "none" \/ Graded(p) = "Dead"
             /\ proc' = [proc EXCEPT ![q] = [@ EXCEPT !.pc = "candidates", !.lost = p, !.pick = Nothing]]
       /\ UNCHANGED <<world, routing, past>>

\* activeReservations: without a customer, those of everybody.
Reserved(k) == IF k \in Anonymous THEN UNION {reserved[j] : j \in Key} ELSE reserved[k]

Candidates(k) == {p \in Fits[k] : /\ status[p] \notin {"error", "none"}
                                  /\ Graded(p) # "Dead"
                                  /\ AgentOf[p] \notin offline
                                  /\ Reserved(k) = {} \/ p \in Reserved(k)}

Weighted(p) == Quality(p) - 3 * load[p]

\* What is compared first and, where it is equal, next: smaller is better.
Rank(p, strategy) ==
    LET latency == AverageLatency(checks[p])
        weight == 400 - Weighted(p)
    IN CASE strategy = "lowest_latency" -> <<latency, weight, 0>>
         [] strategy = "least_loaded" -> <<load[p], weight, latency>>
         [] OTHER -> <<weight, latency, 0>>
Better(r, s) == \/ r[1] < s[1]
                \/ r[1] = s[1] /\ r[2] < s[2]
                \/ r[1] = s[1] /\ r[2] = s[2] /\ r[3] < s[3]

\* balance: the best by the strategy; round robin counts for all requests of a
\* country together, and may come to any.
Strategies == {"weighted_score", "lowest_latency", "least_loaded", "round_robin"}
Balance(ps, strategy) ==
    IF strategy = "round_robin" THEN ps
    ELSE {p \in ps : \A r \in ps : ~Better(Rank(r, strategy), Rank(p, strategy))}

Choose(q) ==
    LET k == proc[q].key
    IN /\ At(q, "candidates")
       /\ \/ Candidates(k) = {} /\ Done(q)
          \/ \E strategy \in Strategies : \E p \in Balance(Candidates(k), strategy) :
                IF proc[q].mode \in DOMAIN Duration
                THEN proc' = [proc EXCEPT ![q] = [@ EXCEPT !.pc = "deleteSticky", !.pick = p]]
                ELSE Done(q)
       /\ UNCHANGED <<world, routing, past>>

\* Mutant of Forgotten: the rows that have expired stay.
ForgottenLive(rows) == SelectSeq(rows, LAMBDA r : r.left = 0)
Forgotten(rows) == <<>>

\* saveSticky is two statements.
DeleteSticky(q) ==
    /\ At(q, "deleteSticky")
    /\ sticky' = [sticky EXCEPT ![proc[q].key] = Forgotten(@)]
    /\ Goto(q, "createSticky")
    /\ UNCHANGED <<world, member, past>>

CreateSticky(q) ==
    LET k == proc[q].key  row == [proxy |-> proc[q].pick, left |-> Duration[proc[q].mode]]
    IN /\ At(q, "createSticky")
       /\ sticky' = [sticky EXCEPT ![k] = Append(@, row)]
       /\ bound' = [bound EXCEPT ![k] = row]
       /\ mixed' = IF sticky[k] = <<>> /\ Seeking(k) = {q} THEN mixed \ {k} ELSE mixed
       /\ Done(q)
       /\ UNCHANGED <<world, member, judged, fit>>
-----------------------------------------------------------------------------
(* What others do to the rows that are read here.                          *)

\* The monitor checks the proxies that run; only a check that succeeds leaves
\* a row, so that no server counts a failure.
Checked(p, l) == /\ status[p] = "running"
                 /\ checks' = [checks EXCEPT ![p] =
                                SubSeq(<<[latency |-> l, ok |-> TRUE]>> \o @, 1,
                                       IF Len(@) < Window THEN Len(@) + 1 ELSE Window)]
                 /\ UNCHANGED <<status, offline, load, reserved, routing, proc, past>>
\* Also deletes the row of a proxy, or inserts it again.
StatusChanges(p, s) == /\ status[p] # s
                       /\ status' = [status EXCEPT ![p] = s]
                       /\ UNCHANGED <<offline, checks, load, reserved, routing, proc, past>>
AgentChanges(a) == /\ offline' = IF a \in offline THEN offline \ {a} ELSE offline \cup {a}
                   /\ UNCHANGED <<status, checks, load, reserved, routing, proc, past>>
LoadChanges(p, n) == /\ load[p] # n
                     /\ load' = [load EXCEPT ![p] = n]
                     /\ UNCHANGED <<status, offline, checks, reserved, routing, proc, past>>
CreateReservation(k, p) == /\ reserved' = [reserved EXCEPT ![k] = @ \cup {p}]
                           /\ UNCHANGED <<status, offline, checks, load, routing, proc, past>>

Aged(row) == [row EXCEPT !.left = IF @ > 0 THEN @ - 1 ELSE 0]
TimePasses == /\ sticky' = [k \in Key |-> [i \in DOMAIN sticky[k] |-> Aged(sticky[k][i])]]
              /\ bound' = [k \in Key |-> Aged(bound[k])]
              /\ UNCHANGED <<world, member, proc, judged, mixed, fit>>

Crash == /\ proc' = [q \in Req |-> Idle]
         /\ mixed' = mixed \cup {proc[q].key : q \in {r \in Req : At(r, "createSticky")}}
         /\ fit' = [q \in Req |-> {}]
         /\ UNCHANGED <<world, routing, judged, bound>>

Step(q) == \/ SyncPools(q) \/ ListPools(q)
           \/ \E k \in Key, mode \in DOMAIN Duration \cup {"rotating"} : SelectProxy(q, k, mode)
           \/ \E p \in Proxy : CalculateQuality(q, p)
           \/ LookUpMember(q) \/ UpdateMember(q) \/ CreateMember(q)
           \/ SyncFails(q) \/ SyncEnds(q) \/ Show(q)
           \/ FindSticky(q) \/ JudgeSticky(q) \/ Choose(q) \/ DeleteSticky(q) \/ CreateSticky(q)

World == \/ \E p \in Proxy : \/ \E l \in Latency : Checked(p, l)
                             \/ \E s \in Status : StatusChanges(p, s)
                             \/ \E n \in 0..MaxLoad : LoadChanges(p, n)
                             \/ \E k \in Key : CreateReservation(k, p)
         \/ \E a \in Agent : AgentChanges(a)

Next == (\E q \in Req : Step(q)) \/ World \/ TimePasses \/ Crash

Spec == Init /\ [][Next]_vars
-----------------------------------------------------------------------------
(* The dashboard.                                                          *)

Members(o)   == {p \in Proxy : PoolOf[p] = o /\ member[p] # NoMember}
Available(o) == {p \in Members(o) : Fit(member[p])}
Redundancy(o) == Cardinality({AgentOf[p] : p \in Members(o)})
AverageQuality(o) ==
    LET score == [p \in Members(o) |-> member[p].score]
    IN IF Members(o) = {} THEN 0 ELSE SumFunctionOnSet(score, Members(o)) \div Cardinality(Members(o))

\* Mutant of PoolScore: a pool that is dead counts with its average.
PoolScoreDead(o) == Min({100, AverageQuality(o) + (IF Redundancy(o) >= 2 THEN 10 ELSE 0)
                                                + (IF Cardinality(Available(o)) >= 2 THEN 10 ELSE 0)})
PoolScore(o) ==
    IF Available(o) = {} THEN 0
    ELSE Min({100, AverageQuality(o) + (IF Redundancy(o) >= 2 THEN 10 ELSE 0)
                                     + (IF Cardinality(Available(o)) >= 2 THEN 10 ELSE 0)})
HAScore ==
    LET score == [o \in Pool |-> PoolScore(o)]
    IN IF Pool = {} THEN 0 ELSE SumFunctionOnSet(score, Pool) \div Cardinality(Pool)
-----------------------------------------------------------------------------
Rows == [score : 0..100, health : {"none", "healthy", "degraded", "dead", "missing"},
         status : {"none", "active", "degraded"}, load : 0..MaxLoad]
Sessions == [proxy : Proxy, left : Nat]

Syncing   == {"sync", "lookup", "update", "create", "show"}
Selecting == {"find", "judge", "candidates", "deleteSticky", "createSticky"}

Listed(q) == {p \in Proxy : proc[q].listed[p] # "none"}

\* Type invariant: scores and averages stay within 0..100.
TypeOK ==
    /\ status \in [Proxy -> Status]
    /\ offline \subseteq Agent
    /\ checks \in [Proxy -> Seq([latency : Latency, ok : BOOLEAN])]
    /\ load \in [Proxy -> 0..MaxLoad]
    /\ reserved \in [Key -> SUBSET Proxy]
    /\ member \in [Proxy -> Rows] /\ judged \in [Proxy -> Rows]
    /\ sticky \in [Key -> Seq(Sessions)]
    /\ bound \in [Key -> Sessions \cup {NoBinding}]
    /\ mixed \subseteq Key /\ fit \in [Req -> SUBSET Proxy]
    /\ HAScore \in 0..100
    /\ \A q \in Req :
          /\ proc[q].pc \in {"idle"} \cup Syncing \cup Selecting
          /\ proc[q].pc \in Selecting => proc[q].key \in Key
          /\ proc[q].pc \in {"find", "judge", "deleteSticky", "createSticky"} => proc[q].mode \in DOMAIN Duration
          /\ proc[q].pc \in {"lookup", "update", "create", "judge", "deleteSticky", "createSticky"}
                => proc[q].pick \in Proxy
          /\ proc[q].listed \in [Proxy -> Status] /\ proc[q].todo \subseteq Proxy /\ proc[q].row \in Rows

\* A session has the one row that was made last, unless two requests looked
\* for it at once or the service stopped between the two statements: then
\* until it is next replaced by one request alone.
StickyKept ==
    \A k \in Key \ mixed :
        (\A q \in Seeking(k) : ~At(q, "createSticky")) =>
            sticky[k] = (IF bound[k] = NoBinding THEN <<>> ELSE <<bound[k]>>)

\* The session of a customer that has not expired moves to another proxy only
\* after its own was found dead or deleted: who asks again gets the same proxy.
StickyStable ==
    \A k \in Key \ (mixed \cup Anonymous) : \A q \in Seeking(k) :
        proc[q].pc \in {"deleteSticky", "createSticky"} /\ bound[k].left > 0 => proc[q].lost = bound[k].proxy

\* A member that counts as available was so when its row was last written,
\* although a score of zero is never written.
AvailableWasFit ==
    \A o \in Pool : \A p \in Available(o) : judged[p].score >= 40 /\ judged[p].health # "dead"

\* The dashboard shows a pool as out of service when none of its members was
\* calculated fit since the dashboard was asked for, nor was on its way to a
\* row then: whatever old scores are left in the rows, and whoever else writes
\* them meanwhile. Rows of proxies that are no longer listed are left out: they
\* stay as they were for ever.
OutageShows ==
    \A q \in Req : At(q, "show") =>
        \A o \in Pool : Members(o) \subseteq Listed(q) \ fit[q] => PoolScore(o) = 0
=============================================================================
