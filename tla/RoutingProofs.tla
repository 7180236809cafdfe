--------------------------- MODULE RoutingProofs ---------------------------
(***************************************************************************)
(* Proofs about Routing: its types with the bounds of the scores, sticky   *)
(* sessions, what an available member was last written from, and what the  *)
(* score of the whole shows.                                               *)
(***************************************************************************)
EXTENDS Routing, SequenceTheorems, FiniteSetTheorems, SumTheorems, TLAPS

Writing == {"lookup", "update", "create"}
Pcs == {"idle"} \cup Syncing \cup Selecting
Modes == DOMAIN Duration \cup {"rotating", "sync", "list"}

CheckType == [latency : Latency, ok : BOOLEAN]
ProcType == [pc : Pcs, key : Key \cup {Nothing}, mode : Modes, listed : [Proxy -> Status],
             todo : SUBSET Proxy, row : Rows, pick : Proxy \cup {Nothing}, lost : Proxy \cup {Nothing}]

\* A score of zero is of a member that is not active.
RowFits(r) == r.score = 0 => r.status # "active"

\* What a request at pc has.
Ready(pc, key, mode, row, pick) ==
    /\ mode \notin {"sync", "list"} => key \in Key
    /\ pc \in Selecting => mode \notin {"sync", "list"}
    /\ pc \in {"find", "judge", "deleteSticky", "createSticky"} => mode \in DOMAIN Duration
    /\ pc \in Writing \cup {"judge", "deleteSticky", "createSticky"} => pick \in Proxy
    /\ pc \in Writing => RowFits(row)
Sound(r) == r \in ProcType /\ Ready(r.pc, r.key, r.mode, r.row, r.pick)

WorldOK == /\ status \in [Proxy -> Status]
           /\ checks \in [Proxy -> Seq(CheckType)]
           /\ load \in [Proxy -> 0..MaxLoad]
           /\ offline \subseteq Agent
           /\ reserved \in [Key -> SUBSET Proxy]
TablesOK == member \in [Proxy -> Rows] /\ sticky \in [Key -> Seq(Sessions)]
PastOK == /\ judged \in [Proxy -> Rows]
          /\ bound \in [Key -> Sessions \cup {NoBinding}]
          /\ mixed \subseteq Key
          /\ fit \in [Req -> SUBSET Proxy]
ProcsOK == proc \in [Req -> ProcType] /\ \A q \in Req : Sound(proc[q])
TypeInv == WorldOK /\ TablesOK /\ PastOK /\ ProcsOK

\* The row of a member differs from what it was written from by a zero at most.
MembersFit ==
    \A p \in Proxy : /\ RowFits(judged[p])
                     /\ member[p].health = judged[p].health
                     /\ member[p].status = judged[p].status
                     /\ judged[p].score # 0 => member[p].score = judged[p].score

\* The session of k in the table, when nobody is between its two statements.
Kept(k) == sticky[k] = (IF bound[k] = NoBinding THEN <<>> ELSE <<bound[k]>>)

\* Who seeks the session of k is alone, and knows what there is of it.
KeyFits(k) ==
    /\ \A q, r \in Seeking(k) : q = r
    /\ (\A q \in Seeking(k) : ~At(q, "createSticky")) => Kept(k)
    /\ \A q \in Seeking(k) :
          /\ At(q, "createSticky") => sticky[k] = <<>>
          /\ k \notin Anonymous /\ bound[k].left > 0 =>
                IF At(q, "judge") THEN proc[q].pick = bound[k].proxy ELSE proc[q].lost = bound[k].proxy

SessionsFit == \A k \in Key \ mixed : KeyFits(k)

\* Carries a row that will count as available.
Carries(r) == r.pc \in Writing /\ Fit(r.row)

\* Who asks for the dashboard knows of every row that counts, or will count, as
\* available: of the proxies that are done, and of those on their way.
ListFits(q) ==
    /\ \A r \in Req : Carries(proc[r]) => proc[r].pick \in fit[q]
    /\ \A p \in Listed(q) \ proc[q].todo : Fit(member[p]) => p \in fit[q]
    /\ At(q, "create") /\ Fit(member[proc[q].pick]) => proc[q].pick \in fit[q]
    /\ At(q, "show") => proc[q].todo = {}

ListsFit == \A q \in Req : /\ At(q, "show") => proc[q].mode = "list"
                           /\ proc[q].mode = "list" => ListFits(q)

IInv == TypeInv /\ MembersFit /\ SessionsFit /\ ListsFit
-----------------------------------------------------------------------------
(* Requests.                                                               *)

Moves(q) == /\ proc' \in [Req -> ProcType]
            /\ Sound(proc'[q])
            /\ \A r \in Req \ {q} : proc'[r] = proc[r]

LEMMA PutFits ==
    ASSUME TypeInv, NEW q \in Req, NEW r, Sound(r), proc' = [proc EXCEPT ![q] = r]
    PROVE  Moves(q) /\ proc'[q] = r
  BY DEF TypeInv, ProcsOK, Moves, Sound

LEMMA RestFits ==
    ASSUME TypeInv, NEW q \in Req
    PROVE  Sound(proc[q]) /\ proc[q] \in ProcType
  BY DEF TypeInv, ProcsOK

LEMMA GotoFits ==
    ASSUME TypeInv, NEW q \in Req, NEW pc \in Pcs, Goto(q, pc),
           Ready(pc, proc[q].key, proc[q].mode, proc[q].row, proc[q].pick)
    PROVE  /\ Moves(q) /\ proc'[q].pc = pc
           /\ proc'[q].key = proc[q].key /\ proc'[q].mode = proc[q].mode
           /\ proc'[q].pick = proc[q].pick /\ proc'[q].lost = proc[q].lost
           /\ proc'[q].listed = proc[q].listed /\ proc'[q].todo = proc[q].todo /\ proc'[q].row = proc[q].row
  <1> DEFINE r == [proc[q] EXCEPT !.pc = pc]
  <1>1. proc[q] \in ProcType BY RestFits
  <1>2. /\ r \in ProcType /\ r.pc = pc
        /\ r.key = proc[q].key /\ r.mode = proc[q].mode /\ r.row = proc[q].row
        /\ r.pick = proc[q].pick /\ r.lost = proc[q].lost
        /\ r.listed = proc[q].listed /\ r.todo = proc[q].todo
    BY <1>1 DEF ProcType
  <1>3. proc' = [proc EXCEPT ![q] = r] BY DEF Goto
  <1> HIDE DEF r
  <1>4. Sound(r) BY <1>2 DEF Sound
  <1>5. QED BY <1>2, <1>3, <1>4, PutFits

LEMMA NoMemberFits == NoMember \in Rows /\ RowFits(NoMember)
  BY RoutingAssumption DEF NoMember, Rows, RowFits

LEMMA IdleFits == Sound(Idle) /\ Idle \in ProcType /\ Idle.pc = "idle" /\ Idle.mode = "sync"
  <1>1. [p \in Proxy |-> "none"] \in [Proxy -> Status] BY DEF Status
  <1>2. Idle \in ProcType BY <1>1, NoMemberFits DEF Idle, ProcType, Pcs, Modes
  <1>3. Idle.pc = "idle" /\ Idle.mode = "sync" BY DEF Idle
  <1>4. Sound(Idle) BY <1>2, <1>3 DEF Sound, Ready, Selecting, Writing
  <1>5. QED BY <1>2, <1>3, <1>4

LEMMA DoneFits ==
    ASSUME TypeInv, NEW q \in Req, Done(q)
    PROVE  Moves(q) /\ proc'[q].pc = "idle" /\ proc'[q].mode = "sync"
  BY IdleFits, PutFits DEF Done

LEMMA BeginFits ==
    ASSUME TypeInv, NEW q \in Req, NEW k \in Key \cup {Nothing}, NEW mode \in Modes,
           mode \notin {"sync", "list"} => k \in Key, Begin(q, k, mode)
    PROVE  /\ Moves(q) /\ proc'[q].pc = "sync" /\ proc'[q].mode = mode
           /\ proc'[q].listed = status /\ proc'[q].todo = {p \in Proxy : status[p] # "none"}
  <1> DEFINE todo == {p \in Proxy : status[p] # "none"}
             r == [Idle EXCEPT !.pc = "sync", !.key = k, !.mode = mode, !.listed = status, !.todo = todo]
  <1>1. status \in [Proxy -> Status] /\ todo \in SUBSET Proxy BY DEF TypeInv, WorldOK
  <1>2. proc' = [proc EXCEPT ![q] = r] BY DEF Begin
  <1> HIDE DEF todo
  <1>3. /\ r \in ProcType /\ r.pc = "sync" /\ r.key = k /\ r.mode = mode
        /\ r.listed = status /\ r.todo = todo
    BY <1>1, IdleFits DEF ProcType, Pcs, Syncing
  <1> HIDE DEF r
  <1>4. Sound(r) BY <1>3 DEF Sound, Ready, Selecting, Writing
  <1>5. QED BY <1>2, <1>3, <1>4, PutFits DEF todo

LEMMA NatQuotient ==
    ASSUME NEW a \in Nat, NEW b \in Nat \ {0}
    PROVE  /\ a \div b \in Nat
           /\ \A c \in Nat : a <= c * b => a \div b <= c
  OBVIOUS

LEMMA AverageFits ==
    ASSUME NEW cs \in Seq(CheckType)
    PROVE  AverageLatency(cs) \in Nat /\ FailuresIn(cs) \in Nat
  <1> DEFINE latency == [i \in DOMAIN cs |-> cs[i].latency]
  <1>1. Len(cs) \in Nat /\ DOMAIN cs = 1..Len(cs) /\ IsFiniteSet(DOMAIN cs) BY FS_Interval
  <1>2. \A i \in DOMAIN cs : latency[i] \in Nat
    <2>1. ASSUME NEW i \in DOMAIN cs PROVE cs[i].latency \in Nat
      <3>1. cs[i] \in CheckType OBVIOUS
      <3>2. QED BY <3>1, RoutingAssumption DEF CheckType
    <2>2. QED BY <2>1
  <1>3. AverageLatency(cs) = IF cs = <<>> THEN 300 ELSE SumFunctionOnSet(latency, DOMAIN cs) \div Len(cs)
    BY DEF AverageLatency
  <1> HIDE DEF latency
  <1>4. SumFunctionOnSet(latency, DOMAIN cs) \in Nat BY <1>1, <1>2, SumType
  <1>5. cs # <<>> => Len(cs) \in Nat \ {0} BY <1>1
  <1>6. AverageLatency(cs) \in Nat BY <1>3, <1>4, <1>5, NatQuotient
  <1>7. {i \in DOMAIN cs : ~cs[i].ok} \in SUBSET DOMAIN cs OBVIOUS
  <1>8. FailuresIn(cs) \in Nat BY <1>1, <1>7, FS_Subset, FS_CardinalityType DEF FailuresIn
  <1>9. QED BY <1>6, <1>8

\* Whatever the penalties are, a score is within 0..100.
LEMMA ScoreFits ==
    ASSUME NEW l \in Nat, NEW failures \in Nat, NEW down \in BOOLEAN, NEW off \in BOOLEAN, NEW n \in Nat
    PROVE  Score(l, failures, down, off, n) \in 0..100
  <1>1. LatencyPenalty(l) \in Nat
    <2>1. l \div 10 \in Nat OBVIOUS
    <2>2. QED BY <2>1 DEF LatencyPenalty
  <1>2. PICK m \in Nat : m = LatencyPenalty(l) + 8 * failures + (IF down THEN 45 ELSE 0)
                               + (IF off THEN 35 ELSE 0) + 3 * n
    BY <1>1
  <1>3. Score(l, failures, down, off, n) = Less(100, m) BY <1>2 DEF Score
  <1>4. QED BY <1>3 DEF Less

LEMMA QualityFits ==
    ASSUME TypeInv, NEW p \in Proxy
    PROVE  Quality(p) \in 0..100
  <1>1. checks[p] \in Seq(CheckType) /\ load[p] \in Nat
    BY RoutingAssumption DEF TypeInv, WorldOK
  <1>2. AverageLatency(checks[p]) \in Nat /\ FailuresIn(checks[p]) \in Nat BY <1>1, AverageFits
  <1>3. (status[p] \in {"error", "stopped"}) \in BOOLEAN /\ (AgentOf[p] \in offline) \in BOOLEAN OBVIOUS
  <1>4. Score(AverageLatency(checks[p]), FailuresIn(checks[p]),
              status[p] \in {"error", "stopped"}, AgentOf[p] \in offline, load[p]) \in 0..100
    BY <1>1, <1>2, <1>3, ScoreFits
  <1>5. QED BY <1>4 DEF Quality

LEMMA RowOfFits ==
    ASSUME TypeInv, NEW p \in Proxy, NEW s
    PROVE  Row(p, s) \in Rows /\ RowFits(Row(p, s))
  <1>1. load[p] \in 0..MaxLoad BY DEF TypeInv, WorldOK
  <1>2. PICK score \in 0..100 : score = Quality(p) BY QualityFits
  <1>3. /\ Health(score, status[p]) \in {"healthy", "degraded", "dead", "missing"}
        /\ MemberStatus(score, s) \in {"active", "degraded"}
        /\ score = 0 => MemberStatus(score, s) # "active"
    BY DEF Health, MemberStatus, Grade
  <1>4. Row(p, s) = [score |-> score, health |-> Health(score, status[p]),
                     status |-> MemberStatus(score, s), load |-> load[p]]
    BY <1>2 DEF Row
  <1>5. QED BY <1>1, <1>3, <1>4 DEF Rows, RowFits

LEMMA QualitySaid ==
    ASSUME TypeInv, NEW q \in Req, NEW p \in Proxy, CalculateQuality(q, p)
    PROVE  /\ Moves(q) /\ proc[q].pc = "sync" /\ proc'[q].pc = "lookup" /\ proc'[q].pick = p
           /\ proc'[q].row = Row(p, proc[q].listed[p]) /\ proc'[q].mode = proc[q].mode
           /\ proc'[q].listed = proc[q].listed /\ proc'[q].todo = proc[q].todo
  <1>1. proc[q] \in ProcType /\ Sound(proc[q]) /\ proc[q].pc = "sync" BY RestFits DEF CalculateQuality, At
  <1>2. PICK row \in Rows : row = Row(p, proc[q].listed[p]) /\ RowFits(row) BY RowOfFits
  <1> DEFINE r == [proc[q] EXCEPT !.pc = "lookup", !.row = row, !.pick = p]
  <1>3. /\ r \in ProcType /\ r.pc = "lookup" /\ r.row = row /\ r.pick = p
        /\ r.key = proc[q].key /\ r.mode = proc[q].mode /\ r.listed = proc[q].listed /\ r.todo = proc[q].todo
    BY <1>1 DEF ProcType, Pcs, Syncing
  <1>4. proc' = [proc EXCEPT ![q] = r] BY <1>2 DEF CalculateQuality
  <1> HIDE DEF r
  <1>5. Sound(r) BY <1>1, <1>2, <1>3 DEF Sound, Ready, Selecting, Writing
  <1>6. QED BY <1>1, <1>2, <1>3, <1>4, <1>5, PutFits

\* A request goes on with a proxy chosen, or with one that was judged dead.
LEMMA ChosenFits ==
    ASSUME TypeInv, NEW q \in Req, proc[q].key \in Key, proc[q].mode \in DOMAIN Duration,
           NEW pc \in {"judge", "deleteSticky"}, NEW p \in Proxy,
           proc' = [proc EXCEPT ![q] = [@ EXCEPT !.pc = pc, !.pick = p]]
    PROVE  /\ Moves(q) /\ proc'[q].pc = pc /\ proc'[q].pick = p
           /\ proc'[q].key = proc[q].key /\ proc'[q].mode = proc[q].mode /\ proc'[q].lost = proc[q].lost
  <1> DEFINE r == [proc[q] EXCEPT !.pc = pc, !.pick = p]
  <1>1. proc[q] \in ProcType BY RestFits
  <1>2. /\ r \in ProcType /\ r.pc = pc /\ r.pick = p
        /\ r.key = proc[q].key /\ r.mode = proc[q].mode /\ r.lost = proc[q].lost
    BY <1>1 DEF ProcType, Pcs, Selecting
  <1>3. proc' = [proc EXCEPT ![q] = r] OBVIOUS
  <1> HIDE DEF r
  <1>4. Sound(r) BY <1>2, RoutingAssumption DEF Sound, Ready, Writing
  <1>5. QED BY <1>2, <1>3, <1>4, PutFits

LEMMA JudgedFits ==
    ASSUME TypeInv, NEW q \in Req, proc[q].key \in Key, proc[q].mode \notin {"sync", "list"}, NEW p \in Proxy,
           proc' = [proc EXCEPT ![q] = [@ EXCEPT !.pc = "candidates", !.lost = p, !.pick = Nothing]]
    PROVE  /\ Moves(q) /\ proc'[q].pc = "candidates" /\ proc'[q].lost = p
           /\ proc'[q].key = proc[q].key /\ proc'[q].mode = proc[q].mode
  <1> DEFINE r == [proc[q] EXCEPT !.pc = "candidates", !.lost = p, !.pick = Nothing]
  <1>1. proc[q] \in ProcType BY RestFits
  <1>2. /\ r \in ProcType /\ r.pc = "candidates" /\ r.lost = p
        /\ r.key = proc[q].key /\ r.mode = proc[q].mode
    BY <1>1 DEF ProcType, Pcs, Selecting
  <1>3. proc' = [proc EXCEPT ![q] = r] OBVIOUS
  <1> HIDE DEF r
  <1>4. Sound(r) BY <1>2 DEF Sound, Ready, Writing
  <1>5. QED BY <1>2, <1>3, <1>4, PutFits

\* An element put in front of a sequence.
LEMMA PushFits ==
    ASSUME NEW S, NEW e \in S, NEW s \in Seq(S)
    PROVE  <<e>> \o s \in Seq(S) /\ Len(<<e>> \o s) = Len(s) + 1
  OBVIOUS

\* Where a step of q leads.
LEMMA LookedUpFits ==
    ASSUME TypeInv, NEW q \in Req, LookUpMember(q)
    PROVE  /\ Moves(q) /\ proc[q].pc = "lookup" /\ proc'[q].mode = proc[q].mode
           /\ proc'[q].pick = proc[q].pick /\ proc'[q].row = proc[q].row
           /\ proc'[q].listed = proc[q].listed /\ proc'[q].todo = proc[q].todo
           /\ \/ proc'[q].pc = "update"
              \/ proc'[q].pc = "create" /\ member[proc[q].pick] = NoMember
  <1>1. Sound(proc[q]) /\ proc[q].pc = "lookup" BY RestFits DEF LookUpMember, At
  <1>2. PICK pc \in {"update", "create"} : /\ Goto(q, pc)
                                           /\ pc = "create" => member[proc[q].pick] = NoMember
    BY DEF LookUpMember
  <1>3. pc \in Pcs BY DEF Pcs, Syncing
  <1>4. Ready(pc, proc[q].key, proc[q].mode, proc[q].row, proc[q].pick)
    BY <1>1 DEF Sound, Ready, Selecting, Writing
  <1>5. QED BY <1>1, <1>2, <1>3, <1>4, GotoFits

LEMMA SavedFits ==
    ASSUME TypeInv, NEW q \in Req, proc[q].pc \in {"update", "create"}, NextProxy(q)
    PROVE  /\ Moves(q) /\ proc'[q].pc = "sync" /\ proc[q].pick \in Proxy
           /\ proc[q].row \in Rows /\ RowFits(proc[q].row)
           /\ proc'[q].mode = proc[q].mode /\ proc'[q].listed = proc[q].listed
           /\ proc'[q].todo = proc[q].todo \ {proc[q].pick}
  <1> DEFINE r == [proc[q] EXCEPT !.pc = "sync", !.todo = proc[q].todo \ {proc[q].pick},
                                  !.row = NoMember, !.pick = Nothing]
  <1>1. proc[q] \in ProcType /\ Sound(proc[q]) BY RestFits
  <1>2. /\ r \in ProcType /\ r.pc = "sync" /\ r.key = proc[q].key /\ r.mode = proc[q].mode
        /\ r.listed = proc[q].listed /\ r.todo = proc[q].todo \ {proc[q].pick}
    BY <1>1, NoMemberFits DEF ProcType, Pcs, Syncing
  <1>3. proc' = [proc EXCEPT ![q] = r] BY DEF NextProxy
  <1> HIDE DEF r
  <1>4. Sound(r) BY <1>1, <1>2 DEF Sound, Ready, Selecting, Writing
  <1>5. proc[q].pick \in Proxy /\ proc[q].row \in Rows /\ RowFits(proc[q].row)
    BY <1>1 DEF Sound, Ready, ProcType, Writing
  <1>6. QED BY <1>2, <1>3, <1>4, <1>5, PutFits

LEMMA SyncEndsFits ==
    ASSUME TypeInv, NEW q \in Req, SyncEnds(q)
    PROVE  /\ Moves(q) /\ proc[q].pc = "sync" /\ proc[q].todo = {}
           /\ \/ proc'[q].pc = "idle" /\ proc'[q].mode = "sync"
              \/ /\ proc'[q].pc = "show" /\ proc[q].mode = "list" /\ proc'[q].mode = "list"
                 /\ proc'[q].listed = proc[q].listed /\ proc'[q].todo = {}
              \/ proc'[q].pc = "find" /\ proc'[q].mode \in DOMAIN Duration
              \/ proc'[q].pc = "candidates" /\ proc'[q].mode = "rotating"
  <1>1. proc[q] \in ProcType /\ Sound(proc[q]) /\ proc[q].pc = "sync" /\ proc[q].todo = {}
    BY RestFits DEF SyncEnds, At
  <1>2. CASE Done(q) BY <1>1, <1>2, DoneFits
  <1>3. CASE proc[q].mode = "list" /\ Goto(q, "show")
    <2>1. "show" \in Pcs BY DEF Pcs, Syncing
    <2>2. Ready("show", proc[q].key, proc[q].mode, proc[q].row, proc[q].pick)
      BY <1>1 DEF Sound, Ready, Selecting, Writing
    <2>3. QED BY <1>1, <1>3, <2>1, <2>2, GotoFits
  <1>4. ASSUME proc[q].mode \notin {"sync", "list"},
               NEW k \in Key, k = proc[q].key, NEW mode, mode = proc[q].mode,
               proc' = [proc EXCEPT ![q] = [Idle EXCEPT !.key = k, !.mode = mode,
                           !.pc = IF mode \in DOMAIN Duration THEN "find" ELSE "candidates"]]
        PROVE  /\ Moves(q)
               /\ \/ proc'[q].pc = "find" /\ proc'[q].mode \in DOMAIN Duration
                  \/ proc'[q].pc = "candidates" /\ proc'[q].mode = "rotating"
    <2>1. mode \in DOMAIN Duration \cup {"rotating"} /\ mode \in Modes BY <1>1, <1>4 DEF ProcType, Modes
    <2>2. PICK pc \in {"find", "candidates"} : pc = IF mode \in DOMAIN Duration THEN "find" ELSE "candidates"
      OBVIOUS
    <2> DEFINE r == [Idle EXCEPT !.key = k, !.mode = mode, !.pc = pc]
    <2>3. r \in ProcType /\ r.pc = pc /\ r.key = k /\ r.mode = mode
      BY <2>1, IdleFits DEF ProcType, Pcs, Selecting
    <2>4. proc' = [proc EXCEPT ![q] = r] BY <1>4, <2>2
    <2> HIDE DEF r
    <2>5. Sound(r) BY <1>4, <2>2, <2>3 DEF Sound, Ready, Writing
    <2>6. QED BY <2>1, <2>2, <2>3, <2>4, <2>5, PutFits
  <1>5. proc[q].mode \notin {"sync", "list"} => proc[q].key \in Key BY <1>1 DEF Sound, Ready
  <1>6. QED BY <1>1, <1>2, <1>3, <1>4, <1>5 DEF SyncEnds

LEMMA FindFits ==
    ASSUME TypeInv, NEW q \in Req, FindSticky(q)
    PROVE  \E k \in Key :
           /\ k = proc[q].key /\ proc[q].pc = "find" /\ proc[q].mode \in DOMAIN Duration
           /\ Moves(q) /\ proc'[q].key = k /\ proc'[q].mode = proc[q].mode
           /\ \/ LiveSessions(k, proc[q].mode) = {} /\ proc'[q].pc = "candidates"
              \/ \E i \in LiveSessions(k, proc[q].mode) :
                    proc'[q].pc = "judge" /\ proc'[q].pick = sticky[k][i].proxy
  <1>1. Sound(proc[q]) /\ proc[q].pc = "find" BY RestFits DEF FindSticky, At
  <1>2. PICK k \in Key : k = proc[q].key BY <1>1 DEF Sound, Ready, Selecting
  <1>3. proc[q].mode \in DOMAIN Duration BY <1>1 DEF Sound, Ready
  <1>4. CASE LiveSessions(k, proc[q].mode) = {} /\ Goto(q, "candidates")
    <2>1. "candidates" \in Pcs BY DEF Pcs, Selecting
    <2>2. Ready("candidates", proc[q].key, proc[q].mode, proc[q].row, proc[q].pick)
      BY <1>1 DEF Sound, Ready, Selecting, Writing
    <2>3. QED BY <1>1, <1>2, <1>3, <1>4, <2>1, <2>2, GotoFits
  <1>5. ASSUME NEW i \in LiveSessions(k, proc[q].mode),
               proc' = [proc EXCEPT ![q] = [@ EXCEPT !.pc = "judge", !.pick = sticky[k][i].proxy]]
        PROVE  /\ Moves(q) /\ proc'[q].key = k /\ proc'[q].mode = proc[q].mode
               /\ proc'[q].pc = "judge" /\ proc'[q].pick = sticky[k][i].proxy
    <2>1. i \in DOMAIN sticky[k] BY <1>5 DEF LiveSessions
    <2>2. sticky[k] \in Seq(Sessions) BY DEF TypeInv, TablesOK
    <2>3. sticky[k][i] \in Sessions BY <2>1, <2>2
    <2>4. PICK p \in Proxy : p = sticky[k][i].proxy BY <2>3 DEF Sessions
    <2>5. QED BY <1>2, <1>3, <1>5, <2>4, ChosenFits
  <1>6. QED BY <1>1, <1>2, <1>3, <1>4, <1>5 DEF FindSticky

LEMMA JudgeFits ==
    ASSUME TypeInv, NEW q \in Req, JudgeSticky(q)
    PROVE  /\ Moves(q) /\ proc[q].pc = "judge"
           /\ \/ proc'[q].pc = "idle" /\ proc'[q].mode = "sync"
              \/ /\ proc'[q].pc = "candidates" /\ proc'[q].lost = proc[q].pick
                 /\ proc'[q].key = proc[q].key /\ proc'[q].mode = proc[q].mode
  <1>1. Sound(proc[q]) /\ proc[q].pc = "judge" BY RestFits DEF JudgeSticky, At
  <1>2. PICK p \in Proxy : p = proc[q].pick BY <1>1 DEF Sound, Ready
  <1>3. CASE Done(q) BY <1>1, <1>3, DoneFits
  <1>4. CASE proc' = [proc EXCEPT ![q] = [@ EXCEPT !.pc = "candidates", !.lost = p, !.pick = Nothing]]
    BY <1>1, <1>2, <1>4, JudgedFits DEF Sound, Ready, Selecting
  <1>5. QED BY <1>2, <1>3, <1>4 DEF JudgeSticky

LEMMA ChooseFits ==
    ASSUME TypeInv, NEW q \in Req, Choose(q)
    PROVE  /\ Moves(q) /\ proc[q].pc = "candidates"
           /\ \/ proc'[q].pc = "idle" /\ proc'[q].mode = "sync"
              \/ /\ proc'[q].pc = "deleteSticky" /\ proc'[q].lost = proc[q].lost
                 /\ proc[q].mode \in DOMAIN Duration
                 /\ proc'[q].key = proc[q].key /\ proc'[q].mode = proc[q].mode
  <1>1. Sound(proc[q]) /\ proc[q].pc = "candidates" BY RestFits DEF Choose, At
  <1>2. proc[q].key \in Key BY <1>1 DEF Sound, Ready, Selecting
  <1>3. CASE Done(q) BY <1>1, <1>3, DoneFits
  <1>4. ASSUME NEW p \in Proxy, proc[q].mode \in DOMAIN Duration,
               proc' = [proc EXCEPT ![q] = [@ EXCEPT !.pc = "deleteSticky", !.pick = p]]
        PROVE  /\ Moves(q) /\ proc'[q].pc = "deleteSticky" /\ proc'[q].lost = proc[q].lost
               /\ proc'[q].key = proc[q].key /\ proc'[q].mode = proc[q].mode
    BY <1>2, <1>4, ChosenFits
  <1>5. ASSUME NEW strategy, NEW p \in Balance(Candidates(proc[q].key), strategy) PROVE p \in Proxy
    <2>1. p \in Candidates(proc[q].key) BY <1>5 DEF Balance
    <2>2. Fits[proc[q].key] \subseteq Proxy BY <1>2, RoutingAssumption
    <2>3. QED BY <2>1, <2>2 DEF Candidates
  <1>6. QED BY <1>1, <1>3, <1>4, <1>5 DEF Choose

LEMMA DeleteFits ==
    ASSUME TypeInv, NEW q \in Req, DeleteSticky(q)
    PROVE  /\ Moves(q) /\ proc[q].pc = "deleteSticky" /\ proc'[q].pc = "createSticky"
           /\ proc[q].key \in Key /\ proc[q].mode \in DOMAIN Duration
           /\ proc'[q].key = proc[q].key /\ proc'[q].mode = proc[q].mode /\ proc'[q].lost = proc[q].lost
  <1>1. Sound(proc[q]) /\ proc[q].pc = "deleteSticky" BY RestFits DEF DeleteSticky, At
  <1>2. Goto(q, "createSticky") BY DEF DeleteSticky
  <1>3. "createSticky" \in Pcs BY DEF Pcs, Selecting
  <1>4. Ready("createSticky", proc[q].key, proc[q].mode, proc[q].row, proc[q].pick)
    BY <1>1 DEF Sound, Ready, Selecting, Writing
  <1>5. proc[q].key \in Key /\ proc[q].mode \in DOMAIN Duration BY <1>1 DEF Sound, Ready, Selecting
  <1>6. QED BY <1>1, <1>2, <1>3, <1>4, <1>5, GotoFits

LEMMA CreateFits ==
    ASSUME TypeInv, NEW q \in Req, CreateSticky(q)
    PROVE  /\ Moves(q) /\ proc[q].pc = "createSticky" /\ proc'[q].pc = "idle" /\ proc'[q].mode = "sync"
           /\ proc[q].key \in Key /\ proc[q].mode \in DOMAIN Duration
           /\ [proxy |-> proc[q].pick, left |-> Duration[proc[q].mode]] \in Sessions
  <1>1. Sound(proc[q]) /\ proc[q].pc = "createSticky" BY RestFits DEF CreateSticky, At
  <1>2. proc[q].key \in Key /\ proc[q].mode \in DOMAIN Duration /\ proc[q].pick \in Proxy
    BY <1>1 DEF Sound, Ready, Selecting
  <1>3. Done(q) BY DEF CreateSticky
  <1>4. Duration[proc[q].mode] \in Nat BY <1>2, RoutingAssumption
  <1>5. QED BY <1>1, <1>2, <1>3, <1>4, DoneFits DEF Sessions
-----------------------------------------------------------------------------
(* Types.                                                                  *)

LEMMA MovesOK ==
    ASSUME TypeInv, NEW q \in Req, Moves(q)
    PROVE  ProcsOK'
  <1>1. \A r \in Req : Sound(proc'[r]) BY DEF TypeInv, ProcsOK, Moves
  <1>2. QED BY <1>1 DEF Moves, ProcsOK, Sound, Ready, RowFits

LEMMA RestOK ==
    ASSUME TypeInv
    PROVE  /\ UNCHANGED world => WorldOK'
           /\ UNCHANGED routing => TablesOK'
           /\ UNCHANGED past => PastOK'
           /\ UNCHANGED proc => ProcsOK'
  BY DEF TypeInv, WorldOK, TablesOK, PastOK, ProcsOK, Sound, Ready, RowFits, world, routing, past

LEMMA UpdatedFits ==
    ASSUME NEW old \in Rows, NEW new \in Rows
    PROVE  /\ Updated(old, new) \in Rows
           /\ Updated(old, new).health = new.health /\ Updated(old, new).status = new.status
           /\ new.score # 0 => Updated(old, new).score = new.score
  <1> DEFINE s == IF new.score = 0 THEN old.score ELSE new.score
             l == IF new.load = 0 THEN old.load ELSE new.load
             r == [new EXCEPT !.score = s, !.load = l]
  <1>1. s \in 0..100 /\ l \in 0..MaxLoad BY DEF Rows
  <1>2. new.score # 0 => s = new.score OBVIOUS
  <1>3. Updated(old, new) = r BY DEF Updated
  <1> HIDE DEF s, l
  <1>4. r \in Rows /\ r.health = new.health /\ r.status = new.status /\ r.score = s
    BY <1>1 DEF Rows
  <1> HIDE DEF r
  <1>5. QED BY <1>2, <1>3, <1>4

LEMMA AgedFits ==
    /\ NoBinding.left = 0 /\ NoBinding \notin Sessions
    /\ Aged(NoBinding) = NoBinding
    /\ \A row \in Sessions : /\ Aged(row) \in Sessions /\ Aged(row).proxy = row.proxy
                             /\ Aged(row).left > 0 => row.left > 0
  <1>1. NoBinding.left = 0 /\ NoBinding \notin Sessions BY RoutingAssumption DEF NoBinding, Sessions
  <1>2. Aged(NoBinding) = NoBinding BY DEF Aged, NoBinding
  <1>3. ASSUME NEW row \in Sessions
        PROVE  /\ Aged(row) \in Sessions /\ Aged(row).proxy = row.proxy
               /\ Aged(row).left > 0 => row.left > 0
    <2>1. PICK n \in Nat : n = (IF row.left > 0 THEN row.left - 1 ELSE 0) BY DEF Sessions
    <2>2. Aged(row) = [row EXCEPT !.left = n] BY <2>1 DEF Aged
    <2>3. QED BY <2>1, <2>2 DEF Sessions
  <1>4. QED BY <1>1, <1>2, <1>3

\* What a request writes of a member.
LEMMA MemberWritten ==
    ASSUME TypeInv, NEW q \in Req, UpdateMember(q) \/ CreateMember(q)
    PROVE  \E p \in Proxy : \E row, new \in Rows :
           /\ p = proc[q].pick /\ row = proc[q].row /\ RowFits(row)
           /\ new.health = row.health /\ new.status = row.status
           /\ row.score # 0 => new.score = row.score
           /\ \/ member' = [member EXCEPT ![p] = new] /\ judged' = [judged EXCEPT ![p] = row]
              \/ UNCHANGED <<member, judged>> /\ At(q, "create")
           /\ NextProxy(q) /\ UNCHANGED <<world, sticky, bound, mixed, fit>>
  <1>1. NextProxy(q) /\ proc[q].pc \in {"update", "create"} BY DEF UpdateMember, CreateMember, At
  <1>2. PICK p \in Proxy, row \in Rows : p = proc[q].pick /\ row = proc[q].row /\ RowFits(row)
    BY <1>1, SavedFits
  <1>3. member[p] \in Rows BY DEF TypeInv, TablesOK
  <1>4. CASE UpdateMember(q)
    <2>1. PICK new \in Rows : /\ new = Updated(member[p], row)
                              /\ new.health = row.health /\ new.status = row.status
                              /\ row.score # 0 => new.score = row.score
      BY <1>3, UpdatedFits
    <2>2. member' = [member EXCEPT ![p] = new] /\ judged' = [judged EXCEPT ![p] = row]
      BY <1>2, <1>4, <2>1 DEF UpdateMember
    <2>3. UNCHANGED <<world, sticky, bound, mixed, fit>> BY <1>4 DEF UpdateMember
    <2>4. QED BY <1>1, <1>2, <2>1, <2>2, <2>3
  <1>5. CASE CreateMember(q)
    <2>1. \/ member' = [member EXCEPT ![p] = row] /\ judged' = [judged EXCEPT ![p] = row]
          \/ UNCHANGED <<member, judged>> /\ At(q, "create")
      BY <1>2, <1>5 DEF CreateMember
    <2>2. UNCHANGED <<world, sticky, bound, mixed, fit>> BY <1>5 DEF CreateMember
    <2>3. QED BY <1>1, <1>2, <2>1, <2>2
  <1>6. QED BY <1>4, <1>5

\* What else a step of a request leaves.
LEMMA StepRest ==
    ASSUME NEW q \in Req, Step(q)
    PROVE  /\ UNCHANGED world
           /\ ~(UpdateMember(q) \/ CreateMember(q)) => UNCHANGED <<member, judged>>
           /\ ~(FindSticky(q) \/ DeleteSticky(q) \/ CreateSticky(q)) => UNCHANGED <<sticky, bound, mixed>>
           /\ \/ UNCHANGED fit
              \/ SyncPools(q) \/ ListPools(q) \/ \E p \in Proxy : CalculateQuality(q, p)
              \/ \E k \in Key, mode \in DOMAIN Duration \cup {"rotating"} : SelectProxy(q, k, mode)
              \/ SyncFails(q) \/ Show(q)
  BY DEF Step, SyncPools, ListPools, SelectProxy, Begin, CalculateQuality, LookUpMember, UpdateMember, CreateMember,
         SyncFails, SyncEnds, Show, FindSticky, JudgeSticky, Choose, DeleteSticky, CreateSticky, routing, past

LEMMA StepMoves ==
    ASSUME TypeInv, NEW q \in Req, Step(q)
    PROVE  Moves(q)
  <1>1. ASSUME NEW k \in Key, NEW mode \in DOMAIN Duration \cup {"rotating"}, SelectProxy(q, k, mode) PROVE Moves(q)
    <2>1. mode \in Modes BY DEF Modes
    <2>2. QED BY <1>1, <2>1, BeginFits DEF SelectProxy
  <1>2. CASE SyncPools(q) \/ ListPools(q) BY <1>2, BeginFits DEF SyncPools, ListPools, Modes
  <1>3. CASE SyncFails(q) \/ Show(q) BY <1>3, DoneFits DEF SyncFails, Show
  <1>4. CASE UpdateMember(q) \/ CreateMember(q)
    BY <1>4, SavedFits DEF UpdateMember, CreateMember, At
  <1>5. QED BY <1>1, <1>2, <1>3, <1>4, QualitySaid, LookedUpFits, SyncEndsFits, FindFits, JudgeFits, ChooseFits,
               DeleteFits, CreateFits DEF Step

LEMMA FitType ==
    ASSUME TypeInv, NEW q \in Req, Step(q)
    PROVE  fit' \in [Req -> SUBSET Proxy]
  <1>1. fit \in [Req -> SUBSET Proxy] BY DEF TypeInv, PastOK
  <1>2. {proc[r].pick : r \in {u \in Unwritten : Fit(proc[u].row)}} \in SUBSET Proxy
    BY RestFits DEF Unwritten, Sound, Ready, Writing
  <1>3. ASSUME NEW k, NEW mode, Begin(q, k, mode) PROVE fit' \in [Req -> SUBSET Proxy]
    BY <1>1, <1>2, <1>3 DEF Begin
  <1>4. ASSUME NEW p \in Proxy, CalculateQuality(q, p) PROVE fit' \in [Req -> SUBSET Proxy]
    BY <1>1, <1>4 DEF CalculateQuality
  <1>5. CASE SyncFails(q) \/ Show(q) BY <1>1, <1>5 DEF SyncFails, Show
  <1>6. QED BY <1>1, <1>3, <1>4, <1>5, StepRest DEF SyncPools, ListPools, SelectProxy

LEMMA StepTypes ==
    ASSUME TypeInv, NEW q \in Req, Step(q)
    PROVE  TypeInv'
  <1>1. UNCHANGED world /\ fit' \in [Req -> SUBSET Proxy] BY StepRest, FitType
  <1>2. ProcsOK' /\ WorldOK' BY <1>1, StepMoves, MovesOK, RestOK
  <1>3. member' \in [Proxy -> Rows] /\ judged' \in [Proxy -> Rows]
    <2>1. member \in [Proxy -> Rows] /\ judged \in [Proxy -> Rows] BY DEF TypeInv, TablesOK, PastOK
    <2>2. CASE UpdateMember(q) \/ CreateMember(q) BY <2>1, <2>2, MemberWritten
    <2>3. QED BY <2>1, <2>2, StepRest
  <1>4. /\ sticky' \in [Key -> Seq(Sessions)]
        /\ bound' \in [Key -> Sessions \cup {NoBinding}] /\ mixed' \subseteq Key
    <2>1. /\ sticky \in [Key -> Seq(Sessions)]
          /\ bound \in [Key -> Sessions \cup {NoBinding}] /\ mixed \subseteq Key
      BY DEF TypeInv, TablesOK, PastOK
    <2>2. CASE FindSticky(q)
      <3>1. PICK k \in Key : k = proc[q].key BY <2>2, FindFits
      <3>2. mixed' \in {mixed, mixed \cup {k}} /\ UNCHANGED <<sticky, bound>>
        BY <2>2, <3>1 DEF FindSticky, routing
      <3>3. QED BY <2>1, <3>2
    <2>3. CASE DeleteSticky(q)
      <3>1. PICK k \in Key : k = proc[q].key BY <2>3, DeleteFits
      <3>2. sticky' = [sticky EXCEPT ![k] = <<>>] /\ UNCHANGED <<bound, mixed>>
        BY <2>3, <3>1 DEF DeleteSticky, Forgotten, past
      <3>3. QED BY <2>1, <3>2
    <2>4. CASE CreateSticky(q)
      <3>1. PICK k \in Key : k = proc[q].key BY <2>4, CreateFits
      <3>2. PICK row \in Sessions : row = [proxy |-> proc[q].pick, left |-> Duration[proc[q].mode]]
        BY <2>4, CreateFits
      <3>3. /\ sticky' = [sticky EXCEPT ![k] = Append(@, row)]
            /\ bound' = [bound EXCEPT ![k] = row]
            /\ mixed' \in {mixed, mixed \ {k}}
        BY <2>4, <3>1, <3>2 DEF CreateSticky
      <3>4. Append(sticky[k], row) \in Seq(Sessions) BY <2>1
      <3>5. QED BY <2>1, <3>3, <3>4
    <2>5. QED BY <2>1, <2>2, <2>3, <2>4, StepRest
  <1>5. QED BY <1>1, <1>2, <1>3, <1>4 DEF TypeInv, TablesOK, PastOK

LEMMA OtherTypes ==
    ASSUME TypeInv, World \/ TimePasses \/ Crash \/ UNCHANGED vars
    PROVE  TypeInv'
  <1>1. ASSUME WorldOK', UNCHANGED <<routing, proc, past>> PROVE TypeInv'
    BY <1>1, RestOK DEF TypeInv
  <1>2. ASSUME NEW p \in Proxy, NEW l \in Latency, Checked(p, l) PROVE TypeInv'
    <2>1. PICK s \in Seq(CheckType) : s = <<[latency |-> l, ok |-> TRUE]>> \o checks[p]
      <3>1. [latency |-> l, ok |-> TRUE] \in CheckType BY DEF CheckType
      <3>2. checks[p] \in Seq(CheckType) BY DEF TypeInv, WorldOK
      <3>3. QED BY <3>1, <3>2, PushFits
    <2>2. PICK n \in 1..Len(s) : n = IF Len(checks[p]) < Window THEN Len(checks[p]) + 1 ELSE Window
      <3>1. checks[p] \in Seq(CheckType) BY DEF TypeInv, WorldOK
      <3>2. Len(s) = Len(checks[p]) + 1 /\ Len(checks[p]) \in Nat BY <2>1, <3>1
      <3>3. QED BY <3>2, RoutingAssumption
    <2>3. SubSeq(s, 1, n) \in Seq(CheckType) BY SubSeqProperties
    <2>4. checks' = [checks EXCEPT ![p] = SubSeq(s, 1, n)] BY <1>2, <2>1, <2>2 DEF Checked
    <2>5. WorldOK' BY <1>2, <2>3, <2>4 DEF Checked, TypeInv, WorldOK
    <2>6. QED BY <1>1, <1>2, <2>5 DEF Checked
  <1>3. ASSUME NEW p \in Proxy, NEW s \in Status, StatusChanges(p, s) PROVE TypeInv'
    <2>1. WorldOK' BY <1>3 DEF StatusChanges, TypeInv, WorldOK
    <2>2. QED BY <1>1, <1>3, <2>1 DEF StatusChanges
  <1>4. ASSUME NEW p \in Proxy, NEW n \in 0..MaxLoad, LoadChanges(p, n) PROVE TypeInv'
    <2>1. WorldOK' BY <1>4 DEF LoadChanges, TypeInv, WorldOK
    <2>2. QED BY <1>1, <1>4, <2>1 DEF LoadChanges
  <1>5. ASSUME NEW p \in Proxy, NEW k \in Key, CreateReservation(k, p) PROVE TypeInv'
    <2>1. WorldOK' BY <1>5 DEF CreateReservation, TypeInv, WorldOK
    <2>2. QED BY <1>1, <1>5, <2>1 DEF CreateReservation
  <1>6. ASSUME NEW a \in Agent, AgentChanges(a) PROVE TypeInv'
    <2>1. WorldOK' BY <1>6 DEF AgentChanges, TypeInv, WorldOK
    <2>2. QED BY <1>1, <1>6, <2>1 DEF AgentChanges
  <1>7. CASE TimePasses
    <2>1. ASSUME NEW k \in Key PROVE [i \in DOMAIN sticky[k] |-> Aged(sticky[k][i])] \in Seq(Sessions)
      <3>1. sticky[k] \in Seq(Sessions) BY DEF TypeInv, TablesOK
      <3>2. PICK n \in Nat : DOMAIN sticky[k] = 1..n BY <3>1
      <3>3. \A i \in 1..n : Aged(sticky[k][i]) \in Sessions BY <3>1, <3>2, AgedFits
      <3>4. [i \in 1..n |-> Aged(sticky[k][i])] \in [1..n -> Sessions] BY <3>3
      <3>5. QED BY <3>2, <3>4
    <2>2. TablesOK' BY <1>7, <2>1 DEF TimePasses, TypeInv, TablesOK
    <2>3. ASSUME NEW k \in Key PROVE Aged(bound[k]) \in Sessions \cup {NoBinding}
      BY AgedFits DEF TypeInv, PastOK
    <2>4. PastOK' BY <1>7, <2>3 DEF TimePasses, TypeInv, PastOK
    <2>5. UNCHANGED <<world, proc>> BY <1>7 DEF TimePasses
    <2>6. QED BY <2>2, <2>4, <2>5, RestOK DEF TypeInv
  <1>8. CASE Crash
    <2>1. ProcsOK' BY <1>8, IdleFits DEF Crash, ProcsOK, Sound, Ready, RowFits
    <2>2. UNCHANGED <<world, routing, judged, bound>> BY <1>8 DEF Crash
    <2>3. PastOK'
      <3>1. \A q \in Req : At(q, "createSticky") => proc[q].key \in Key
        BY RestFits DEF At, Sound, Ready, Selecting
      <3>2. mixed' \subseteq Key BY <1>8, <3>1 DEF Crash, TypeInv, PastOK
      <3>3. fit' \in [Req -> SUBSET Proxy] BY <1>8 DEF Crash
      <3>4. QED BY <2>2, <3>2, <3>3 DEF TypeInv, PastOK
    <2>4. QED BY <2>1, <2>2, <2>3, RestOK DEF TypeInv
  <1>9. CASE UNCHANGED vars BY <1>9, RestOK DEF TypeInv, vars
  <1>10. QED BY <1>2, <1>3, <1>4, <1>5, <1>6, <1>7, <1>8, <1>9 DEF World

LEMMA TypeStep == TypeInv /\ [Next]_vars => TypeInv'
  BY StepTypes, OtherTypes DEF Next

LEMMA TypeInit == Init => TypeInv
  <1> SUFFICES ASSUME Init PROVE TypeInv
    OBVIOUS
  <1>1. WorldOK BY RoutingAssumption DEF Init, WorldOK, Status
  <1>2. TablesOK BY NoMemberFits DEF Init, TablesOK
  <1>3. PastOK BY NoMemberFits DEF Init, PastOK
  <1>4. ProcsOK BY IdleFits DEF Init, ProcsOK
  <1>5. QED BY <1>1, <1>2, <1>3, <1>4 DEF TypeInv
-----------------------------------------------------------------------------
(* Members.                                                                *)

LEMMA MembersStep == TypeInv /\ MembersFit /\ [Next]_vars => MembersFit'
  <1> SUFFICES ASSUME TypeInv, MembersFit, [Next]_vars PROVE MembersFit'
    OBVIOUS
  <1>1. ASSUME UNCHANGED <<member, judged>> PROVE MembersFit'
    BY <1>1 DEF MembersFit, RowFits
  <1>2. ASSUME NEW q \in Req, UpdateMember(q) \/ CreateMember(q) PROVE MembersFit'
    <2>1. PICK p \in Proxy, row \in Rows, new \in Rows :
             /\ RowFits(row) /\ new.health = row.health /\ new.status = row.status
             /\ row.score # 0 => new.score = row.score
             /\ \/ member' = [member EXCEPT ![p] = new] /\ judged' = [judged EXCEPT ![p] = row]
                \/ UNCHANGED <<member, judged>>
      BY <1>2, MemberWritten
    <2>2. member \in [Proxy -> Rows] /\ judged \in [Proxy -> Rows] BY DEF TypeInv, TablesOK, PastOK
    <2>3. CASE member' = [member EXCEPT ![p] = new] /\ judged' = [judged EXCEPT ![p] = row]
      <3>1. \A r \in Proxy : /\ member'[r] = IF r = p THEN new ELSE member[r]
                             /\ judged'[r] = IF r = p THEN row ELSE judged[r]
        BY <2>2, <2>3
      <3>2. QED BY <2>1, <3>1 DEF MembersFit, RowFits
    <2>4. QED BY <1>1, <2>1, <2>3
  <1>3. ASSUME NEW q \in Req, Step(q) PROVE MembersFit'
    BY <1>1, <1>2, <1>3, StepRest
  <1>4. ASSUME World \/ TimePasses \/ Crash \/ UNCHANGED vars PROVE UNCHANGED <<member, judged>>
    BY <1>4 DEF World, Checked, StatusChanges, LoadChanges, CreateReservation, AgentChanges, TimePasses, Crash,
           vars, routing, past
  <1>5. QED BY <1>1, <1>3, <1>4 DEF Next

LEMMA MembersInit == Init => MembersFit
  BY NoMemberFits DEF Init, MembersFit
-----------------------------------------------------------------------------
(* Sessions.                                                               *)

LEMMA SeekingFits ==
    ASSUME NEW k \in Key
    PROVE  /\ Seeking(k) \subseteq Req
           /\ \A q \in Req :
                 /\ q \in Seeking(k) <=>
                        /\ proc[q].key = k /\ proc[q].mode \in DOMAIN Duration
                        /\ proc[q].pc \in {"judge", "candidates", "deleteSticky", "createSticky"}
                 /\ q \in Seeking(k)' <=>
                        /\ proc'[q].key = k /\ proc'[q].mode \in DOMAIN Duration
                        /\ proc'[q].pc \in {"judge", "candidates", "deleteSticky", "createSticky"}
           /\ Seeking(k)' \subseteq Req
  BY DEF Seeking

\* Nobody comes to seek k, and nobody goes between the two statements.
LEMMA KeyRest ==
    ASSUME NEW k \in Key, KeyFits(k), sticky'[k] = sticky[k], bound'[k] = bound[k],
           \A q \in Req : q \in Seeking(k)' => q \in Seeking(k) /\ proc'[q] = proc[q],
           \A q \in Req : q \in Seeking(k) => q \in Seeking(k)' \/ ~At(q, "createSticky")
    PROVE  KeyFits(k)'
  <1>1. Seeking(k) \subseteq Req /\ Seeking(k)' \subseteq Req BY SeekingFits
  <1>2. \A q, r \in Seeking(k)' : q = r BY <1>1 DEF KeyFits
  <1>3. (\A q \in Seeking(k)' : ~At(q, "createSticky")') => Kept(k)'
    BY <1>1 DEF KeyFits, Kept, At
  <1>4. \A q \in Seeking(k)' :
          /\ At(q, "createSticky")' => sticky'[k] = <<>>
          /\ k \notin Anonymous /\ bound'[k].left > 0 =>
                IF At(q, "judge")' THEN proc'[q].pick = bound'[k].proxy ELSE proc'[q].lost = bound'[k].proxy
    BY <1>1 DEF KeyFits, At
  <1>5. QED BY <1>2, <1>3, <1>4 DEF KeyFits, At

\* A step of q that is about no session, or ends it.
LEMMA SessionsRest ==
    ASSUME TypeInv, SessionsFit, UNCHANGED <<sticky, bound>>, mixed \subseteq mixed', NEW q \in Req, Moves(q),
           \A k \in Key : q \notin Seeking(k)', ~At(q, "createSticky")
    PROVE  SessionsFit'
  <1> SUFFICES ASSUME NEW k \in Key \ mixed' PROVE KeyFits(k)'
    BY DEF SessionsFit
  <1>1. KeyFits(k) BY DEF SessionsFit
  <1>2. \A r \in Req \ {q} : proc'[r] = proc[r] BY DEF Moves
  <1>3. \A r \in Req \ {q} : r \in Seeking(k)' <=> r \in Seeking(k) BY <1>2, SeekingFits
  <1>4. QED BY <1>1, <1>2, <1>3, KeyRest

\* A step of q within the session of k.
LEMMA SessionsOf ==
    ASSUME TypeInv, SessionsFit, NEW q \in Req, Moves(q), NEW k \in Key, proc[q].key = k,
           proc'[q].key = k \/ proc'[q].pc = "idle", mixed \ {k} \subseteq mixed',
           \A m \in Key \ {k} : sticky'[m] = sticky[m] /\ bound'[m] = bound[m],
           k \notin mixed' => KeyFits(k)'
    PROVE  SessionsFit'
  <1> SUFFICES ASSUME NEW m \in Key \ mixed', m # k PROVE KeyFits(m)'
    BY DEF SessionsFit
  <1>1. KeyFits(m) BY DEF SessionsFit
  <1>2. \A r \in Req \ {q} : proc'[r] = proc[r] BY DEF Moves
  <1>3. \A r \in Req \ {q} : r \in Seeking(m)' <=> r \in Seeking(m) BY <1>2, SeekingFits
  <1>4. q \notin Seeking(m) /\ q \notin Seeking(m)' BY SeekingFits
  <1>5. QED BY <1>1, <1>2, <1>3, <1>4, KeyRest

\* The only one that seeks k, before and after its step.
LEMMA Alone ==
    ASSUME NEW q \in Req, Moves(q), NEW k \in Key, KeyFits(k), q \in Seeking(k)
    PROVE  Seeking(k) = {q} /\ Seeking(k)' \subseteq {q}
  <1>1. Seeking(k) = {q} BY DEF KeyFits
  <1>2. \A r \in Req \ {q} : r \notin Seeking(k)' BY <1>1, SeekingFits DEF Moves
  <1>3. QED BY <1>1, <1>2, SeekingFits

LEMMA SessionsFind ==
    ASSUME TypeInv, SessionsFit, NEW q \in Req, FindSticky(q)
    PROVE  SessionsFit'
  <1>1. PICK k \in Key :
           /\ k = proc[q].key /\ proc[q].pc = "find" /\ proc[q].mode \in DOMAIN Duration
           /\ Moves(q) /\ proc'[q].key = k /\ proc'[q].mode = proc[q].mode
           /\ \/ LiveSessions(k, proc[q].mode) = {} /\ proc'[q].pc = "candidates"
              \/ \E i \in LiveSessions(k, proc[q].mode) :
                    proc'[q].pc = "judge" /\ proc'[q].pick = sticky[k][i].proxy
    BY FindFits
  <1>2. UNCHANGED <<sticky, bound>> BY DEF FindSticky, routing
  <1>3. mixed' = IF Seeking(k) = {} THEN mixed ELSE mixed \cup {k} BY <1>1 DEF FindSticky
  <1>4. ASSUME k \notin mixed' PROVE KeyFits(k)'
    <2>1. Seeking(k) = {} /\ KeyFits(k) BY <1>3, <1>4 DEF SessionsFit
    <2>2. Kept(k) BY <2>1 DEF KeyFits
    <2>3. Seeking(k)' \subseteq {q}
      <3>1. \A r \in Req \ {q} : r \notin Seeking(k)' BY <1>1, <2>1, SeekingFits DEF Moves
      <3>2. QED BY <3>1, SeekingFits
    <2>4. Kept(k)' BY <1>2, <2>2 DEF Kept
    <2>5. bound[k].left > 0 => sticky[k] = <<bound[k]>> BY <2>2, AgedFits DEF Kept
    <2>6. k \notin Anonymous /\ bound[k].left > 0 => 1 \in LiveSessions(k, proc[q].mode)
      BY <2>5, AgedFits DEF LiveSessions, TypeInv, PastOK, Sessions
    <2>7. \A i \in LiveSessions(k, proc[q].mode) : bound[k].left > 0 => sticky[k][i] = bound[k]
      BY <2>5 DEF LiveSessions
    <2>8. QED BY <1>1, <1>2, <2>3, <2>4, <2>6, <2>7 DEF KeyFits, At
  <1>5. QED BY <1>1, <1>2, <1>3, <1>4, SessionsOf

\* Judging and choosing: the table is as it was.
LEMMA SessionsJudge ==
    ASSUME TypeInv, SessionsFit, NEW q \in Req, JudgeSticky(q) \/ Choose(q)
    PROVE  SessionsFit'
  <1>1. UNCHANGED <<sticky, bound, mixed>> BY DEF JudgeSticky, Choose, routing, past
  <1>2. Moves(q) /\ proc[q].pc \in {"judge", "candidates"} BY JudgeFits, ChooseFits
  <1>3. CASE proc'[q].pc = "idle"
    <2>1. \A k \in Key : q \notin Seeking(k)' BY <1>3, SeekingFits
    <2>2. QED BY <1>1, <1>2, <2>1, SessionsRest DEF At
  <1>4. CASE /\ proc[q].mode \in DOMAIN Duration
             /\ proc'[q].key = proc[q].key /\ proc'[q].mode = proc[q].mode
             /\ \/ /\ proc[q].pc = "judge" /\ proc'[q].pc = "candidates"
                   /\ proc'[q].lost = proc[q].pick
                \/ /\ proc[q].pc = "candidates" /\ proc'[q].pc = "deleteSticky"
                   /\ proc'[q].lost = proc[q].lost
    <2>1. PICK k \in Key : k = proc[q].key BY <1>2, RestFits DEF Sound, Ready, Selecting
    <2>2. ASSUME k \notin mixed' PROVE KeyFits(k)'
      <3>1. KeyFits(k) BY <1>1, <2>2 DEF SessionsFit
      <3>2. q \in Seeking(k) BY <1>4, <2>1, SeekingFits
      <3>3. Seeking(k) = {q} /\ Seeking(k)' \subseteq {q} BY <1>2, <3>1, <3>2, Alone
      <3>4. Kept(k)' BY <1>1, <1>4, <3>1, <3>3 DEF KeyFits, Kept, At
      <3>5. QED BY <1>1, <1>4, <3>1, <3>2, <3>3, <3>4 DEF KeyFits, At
    <2>3. QED BY <1>1, <1>2, <1>4, <2>1, <2>2, SessionsOf
  <1>5. QED
    <2>1. JudgeSticky(q) => proc[q].mode \in DOMAIN Duration
      BY JudgeFits, RestFits DEF Sound, Ready
    <2>2. QED BY <1>3, <1>4, <2>1, JudgeFits, ChooseFits

LEMMA SessionsDelete ==
    ASSUME TypeInv, SessionsFit, NEW q \in Req, DeleteSticky(q)
    PROVE  SessionsFit'
  <1>1. PICK k \in Key : k = proc[q].key BY DeleteFits
  <1>2. /\ Moves(q) /\ proc[q].pc = "deleteSticky" /\ proc'[q].pc = "createSticky"
        /\ proc[q].mode \in DOMAIN Duration
        /\ proc'[q].key = k /\ proc'[q].mode = proc[q].mode /\ proc'[q].lost = proc[q].lost
    BY <1>1, DeleteFits
  <1>3. sticky' = [sticky EXCEPT ![k] = <<>>] /\ UNCHANGED <<bound, mixed>>
    BY <1>1 DEF DeleteSticky, Forgotten, past
  <1>4. sticky \in [Key -> Seq(Sessions)] BY DEF TypeInv, TablesOK
  <1>5. ASSUME k \notin mixed' PROVE KeyFits(k)'
    <2>1. KeyFits(k) BY <1>3, <1>5 DEF SessionsFit
    <2>2. q \in Seeking(k) /\ q \in Seeking(k)' BY <1>1, <1>2, SeekingFits
    <2>3. Seeking(k)' = {q} BY <1>2, <2>1, <2>2, Alone
    <2>4. sticky'[k] = <<>> BY <1>3, <1>4
    <2>5. k \notin Anonymous /\ bound[k].left > 0 => proc'[q].lost = bound[k].proxy
      BY <1>2, <2>1, <2>2 DEF KeyFits, At
    <2>6. QED BY <1>2, <1>3, <2>3, <2>4, <2>5 DEF KeyFits, At
  <1>6. \A m \in Key \ {k} : sticky'[m] = sticky[m] /\ bound'[m] = bound[m] BY <1>3, <1>4
  <1>7. QED BY <1>1, <1>2, <1>3, <1>5, <1>6, SessionsOf

LEMMA SessionsCreate ==
    ASSUME TypeInv, SessionsFit, NEW q \in Req, CreateSticky(q)
    PROVE  SessionsFit'
  <1>1. PICK k \in Key : k = proc[q].key BY CreateFits
  <1>2. /\ Moves(q) /\ proc[q].pc = "createSticky" /\ proc'[q].pc = "idle"
        /\ proc[q].mode \in DOMAIN Duration
    BY CreateFits
  <1>3. PICK row \in Sessions : row = [proxy |-> proc[q].pick, left |-> Duration[proc[q].mode]]
    BY CreateFits
  <1>4. /\ sticky' = [sticky EXCEPT ![k] = Append(@, row)]
        /\ bound' = [bound EXCEPT ![k] = row]
        /\ mixed \ {k} \subseteq mixed'
        /\ k \notin mixed' => k \notin mixed \/ (sticky[k] = <<>> /\ Seeking(k) = {q})
    BY <1>1, <1>3 DEF CreateSticky
  <1>5. sticky \in [Key -> Seq(Sessions)] /\ bound \in [Key -> Sessions \cup {NoBinding}]
    BY DEF TypeInv, TablesOK, PastOK
  <1>6. ASSUME k \notin mixed' PROVE KeyFits(k)'
    <2>1. KeyFits(k) \/ (sticky[k] = <<>> /\ Seeking(k) = {q}) BY <1>4, <1>6 DEF SessionsFit
    <2>2. q \in Seeking(k) /\ q \notin Seeking(k)' BY <1>1, <1>2, SeekingFits
    <2>3. Seeking(k)' = {}
      <3>1. KeyFits(k) => Seeking(k) = {q} BY <2>2 DEF KeyFits
      <3>2. \A r \in Req \ {q} : r \notin Seeking(k)' BY <1>2, <2>1, <3>1, SeekingFits DEF Moves
      <3>3. QED BY <2>2, <3>2, SeekingFits
    <2>4. sticky[k] = <<>> BY <1>2, <2>1, <2>2 DEF KeyFits, At
    <2>5. sticky'[k] = <<row>> /\ bound'[k] = row BY <1>4, <1>5, <2>4
    <2>6. Kept(k)' BY <2>5, AgedFits DEF Kept
    <2>7. QED BY <2>3, <2>6 DEF KeyFits
  <1>7. \A m \in Key \ {k} : sticky'[m] = sticky[m] /\ bound'[m] = bound[m] BY <1>4, <1>5
  <1>8. QED BY <1>1, <1>2, <1>4, <1>6, <1>7, SessionsOf

LEMMA SessionsTime ==
    ASSUME TypeInv, SessionsFit, TimePasses
    PROVE  SessionsFit'
  <1> SUFFICES ASSUME NEW k \in Key \ mixed' PROVE KeyFits(k)'
    BY DEF SessionsFit
  <1>1. UNCHANGED <<proc, mixed>> BY DEF TimePasses
  <1>2. KeyFits(k) BY <1>1 DEF SessionsFit
  <1>3. Seeking(k)' = Seeking(k) BY <1>1 DEF Seeking
  <1>4. bound[k] \in Sessions \cup {NoBinding} BY DEF TypeInv, PastOK
  <1>5. /\ bound'[k] = Aged(bound[k])
        /\ sticky'[k] = [i \in DOMAIN sticky[k] |-> Aged(sticky[k][i])]
    BY DEF TimePasses
  <1>6. sticky[k] = <<>> => sticky'[k] = <<>> BY <1>5
  <1>7. sticky[k] = <<bound[k]>> => sticky'[k] = <<bound'[k]>> BY <1>5
  <1>8. bound'[k] = NoBinding <=> bound[k] = NoBinding BY <1>4, <1>5, AgedFits
  <1>9. bound'[k].left > 0 => bound[k].left > 0 /\ bound'[k].proxy = bound[k].proxy
    BY <1>4, <1>5, AgedFits
  <1>10. Kept(k) => Kept(k)' BY <1>6, <1>7, <1>8 DEF Kept
  <1>11. QED BY <1>1, <1>2, <1>3, <1>6, <1>9, <1>10 DEF KeyFits, At

LEMMA SessionsCrash ==
    ASSUME TypeInv, SessionsFit, Crash
    PROVE  SessionsFit'
  <1> SUFFICES ASSUME NEW k \in Key \ mixed' PROVE KeyFits(k)'
    BY DEF SessionsFit
  <1>1. UNCHANGED <<sticky, bound>> /\ mixed \subseteq mixed' BY DEF Crash, routing
  <1>2. KeyFits(k) BY <1>1 DEF SessionsFit
  <1>3. \A q \in Req : q \notin Seeking(k)' BY SeekingFits, IdleFits DEF Crash
  <1>4. ASSUME NEW q \in Req, q \in Seeking(k), At(q, "createSticky") PROVE FALSE
    <2>1. proc[q].key = k BY <1>4, SeekingFits
    <2>2. k \in mixed' BY <1>4, <2>1 DEF Crash
    <2>3. QED BY <2>2
  <1>5. QED BY <1>1, <1>2, <1>3, <1>4, KeyRest

LEMMA SessionsStep == TypeInv /\ SessionsFit /\ [Next]_vars => SessionsFit'
  <1> SUFFICES ASSUME TypeInv, SessionsFit, [Next]_vars PROVE SessionsFit'
    OBVIOUS
  <1>1. ASSUME NEW q \in Req, Step(q) PROVE SessionsFit'
    <2>1. ASSUME Moves(q), UNCHANGED <<sticky, bound, mixed>>, proc[q].pc # "createSticky",
                 \/ proc'[q].pc \in {"idle", "find"} \cup Syncing
                 \/ proc'[q].mode \notin DOMAIN Duration
          PROVE  SessionsFit'
      <3>1. \A k \in Key : q \notin Seeking(k)' BY <2>1, SeekingFits DEF Syncing
      <3>2. QED BY <2>1, <3>1, SessionsRest DEF At
    <2>2. ASSUME NEW k \in Key \cup {Nothing}, NEW mode \in Modes, mode \notin {"sync", "list"} => k \in Key,
                 Begin(q, k, mode)
          PROVE  SessionsFit'
      <3>1. Moves(q) /\ proc'[q].pc = "sync" BY <2>2, BeginFits
      <3>2. proc[q].pc # "createSticky" /\ UNCHANGED <<sticky, bound, mixed>> BY <2>2 DEF Begin, At, routing
      <3>3. QED BY <2>1, <3>1, <3>2 DEF Syncing
    <2>3. CASE \/ SyncPools(q) \/ ListPools(q)
               \/ \E k \in Key, mode \in DOMAIN Duration \cup {"rotating"} : SelectProxy(q, k, mode)
      BY <2>2, <2>3 DEF SyncPools, ListPools, SelectProxy, Modes
    <2>4. CASE (\E p \in Proxy : CalculateQuality(q, p)) \/ LookUpMember(q) \/ UpdateMember(q) \/ CreateMember(q)
               \/ SyncFails(q) \/ SyncEnds(q) \/ Show(q)
      <3>1. UNCHANGED <<sticky, bound, mixed>> /\ proc[q].pc # "createSticky"
        BY <2>4 DEF CalculateQuality, LookUpMember, UpdateMember, CreateMember, SyncFails, SyncEnds, Show, At,
               routing, past
      <3>2. CASE (\E p \in Proxy : CalculateQuality(q, p)) \/ LookUpMember(q)
        BY <2>1, <3>1, <3>2, QualitySaid, LookedUpFits DEF Syncing
      <3>3. CASE UpdateMember(q) \/ CreateMember(q)
        BY <2>1, <3>1, <3>3, SavedFits DEF UpdateMember, CreateMember, At, Syncing
      <3>4. CASE SyncFails(q) \/ Show(q) BY <2>1, <3>1, <3>4, DoneFits DEF SyncFails, Show
      <3>5. CASE SyncEnds(q) BY <2>1, <3>1, <3>5, SyncEndsFits, RoutingAssumption DEF Syncing
      <3>6. QED BY <2>4, <3>2, <3>3, <3>4, <3>5
    <2>5. CASE FindSticky(q) \/ JudgeSticky(q) \/ Choose(q) \/ DeleteSticky(q) \/ CreateSticky(q)
      BY <2>5, SessionsFind, SessionsJudge, SessionsDelete, SessionsCreate
    <2>6. QED BY <1>1, <2>3, <2>4, <2>5 DEF Step
  <1>2. CASE World \/ UNCHANGED vars
    <2>1. UNCHANGED <<sticky, bound, mixed, proc>>
      BY <1>2 DEF World, Checked, StatusChanges, LoadChanges, CreateReservation, AgentChanges, vars, routing, past
    <2>2. \A k \in Key : Seeking(k)' = Seeking(k) BY <2>1 DEF Seeking
    <2>3. QED BY <2>1, <2>2, KeyRest, SeekingFits DEF SessionsFit
  <1>3. QED BY <1>1, <1>2, SessionsTime, SessionsCrash DEF Next
-----------------------------------------------------------------------------
(* The dashboard.                                                          *)

LEMMA MinFits ==
    ASSUME NEW n \in Nat
    PROVE  Min({100, n}) \in 0..100
  <1>1. \E m \in {100, n} : \A k \in {100, n} : m <= k BY DEF Min
  <1>2. /\ Min({100, n}) \in {100, n}
        /\ \A k \in {100, n} : Min({100, n}) <= k
    BY <1>1 DEF Min
  <1>3. QED BY <1>2

\* The average of scores is one.
LEMMA MeanFits ==
    ASSUME NEW S, IsFiniteSet(S), S # {}, NEW f, \A x \in S : f[x] \in 0..100
    PROVE  SumFunctionOnSet(f, S) \div Cardinality(S) \in 0..100
  <1>1. Cardinality(S) \in Nat \ {0} BY FS_CardinalityType, FS_EmptySet
  <1>2. SumFunctionOnSet(f, S) \in Nat BY SumType
  <1>3. SumFunctionOnSet(f, S) <= 100 * Cardinality(S) BY SumBound
  <1>4. PICK a \in Nat, b \in Nat \ {0} : a = SumFunctionOnSet(f, S) /\ b = Cardinality(S) BY <1>1, <1>2
  <1>5. a \div b \in Nat /\ a \div b <= 100 BY <1>3, <1>4, NatQuotient
  <1>6. QED BY <1>4, <1>5

LEMMA AverageQualityFits ==
    ASSUME TablesOK, NEW o
    PROVE  AverageQuality(o) \in 0..100
  <1> DEFINE score == [p \in Members(o) |-> member[p].score]
  <1>1. Members(o) \in SUBSET Proxy /\ IsFiniteSet(Members(o))
    BY RoutingAssumption, FS_Subset DEF Members
  <1>2. \A p \in Members(o) : score[p] \in 0..100 BY <1>1 DEF TablesOK, Rows
  <1>3. AverageQuality(o)
          = IF Members(o) = {} THEN 0 ELSE SumFunctionOnSet(score, Members(o)) \div Cardinality(Members(o))
    BY DEF AverageQuality
  <1> HIDE DEF score
  <1>4. QED BY <1>1, <1>2, <1>3, MeanFits

LEMMA PoolScoreFits ==
    ASSUME TablesOK, NEW o
    PROVE  PoolScore(o) \in 0..100
  <1>1. PICK n \in Nat : n = AverageQuality(o) + (IF Redundancy(o) >= 2 THEN 10 ELSE 0)
                                               + (IF Cardinality(Available(o)) >= 2 THEN 10 ELSE 0)
    BY AverageQualityFits
  <1>2. QED BY <1>1, MinFits DEF PoolScore

LEMMA HAScoreFits ==
    ASSUME TablesOK
    PROVE  HAScore \in 0..100
  <1> DEFINE score == [o \in Pool |-> PoolScore(o)]
  <1>1. HAScore = IF Pool = {} THEN 0 ELSE SumFunctionOnSet(score, Pool) \div Cardinality(Pool)
    BY DEF HAScore
  <1>2. \A o \in Pool : score[o] \in 0..100 BY PoolScoreFits
  <1> HIDE DEF score
  <1>3. IsFiniteSet(Pool) BY RoutingAssumption
  <1>4. QED BY <1>1, <1>2, <1>3, MeanFits

\* An available member was fit when its row was last written.
LEMMA AvailableFits == IInv => AvailableWasFit
  <1> SUFFICES ASSUME IInv, NEW o \in Pool, NEW p \in Available(o)
               PROVE  judged[p].score >= 40 /\ judged[p].health # "dead"
    BY DEF AvailableWasFit
  <1>1. p \in Proxy /\ Fit(member[p]) BY DEF Available, Members
  <1>2. QED BY <1>1 DEF IInv, MembersFit, RowFits, Fit
-----------------------------------------------------------------------------
(* Who asks for the dashboard.                                             *)

\* A request that does not move keeps what it knows.
LEMMA ListRest ==
    ASSUME TypeInv, NEW q \in Req, ListFits(q), proc'[q] = proc[q], fit[q] \subseteq fit'[q],
           \A r \in Req : Carries(proc'[r]) => proc'[r].pick \in fit'[q],
           \A p \in Proxy : Fit(member'[p]) => Fit(member[p]) \/ p \in fit'[q]
    PROVE  ListFits(q)'
  <1>1. Listed(q)' = Listed(q) /\ Listed(q) \subseteq Proxy BY DEF Listed
  <1>2. At(q, "create") => proc[q].pick \in Proxy BY RestFits DEF At, Sound, Ready, Writing
  <1>3. \A p \in Proxy : Fit(member[p])' <=> Fit(member'[p]) BY DEF Fit
  <1>4. QED BY <1>1, <1>2, <1>3 DEF ListFits, At, Carries, Fit

\* A step of q that calculates nothing, and after which it asks for no
\* dashboard or knows what it must.
LEMMA ListsRest ==
    ASSUME TypeInv, ListsFit, NEW q \in Req, Moves(q),
           \A r \in Req \ {q} : fit[r] \subseteq fit'[r],
           Carries(proc'[q]) => Carries(proc[q]) /\ proc'[q].pick = proc[q].pick,
           \A r \in Req : proc[r].mode = "list" =>
                \A p \in Proxy : Fit(member'[p]) => Fit(member[p]) \/ p \in fit[r],
           proc'[q].pc = "show" => proc'[q].mode = "list",
           proc'[q].mode = "list" => ListFits(q)'
    PROVE  ListsFit'
  <1> SUFFICES ASSUME NEW r \in Req, r # q
               PROVE  /\ At(r, "show")' => proc'[r].mode = "list"
                      /\ proc'[r].mode = "list" => ListFits(r)'
    BY DEF ListsFit, At
  <1>1. proc'[r] = proc[r] BY DEF Moves
  <1>2. ASSUME proc[r].mode = "list" PROVE ListFits(r)'
    <2>1. ListFits(r) /\ fit[r] \subseteq fit'[r] BY <1>2 DEF ListsFit
    <2>2. \A u \in Req : Carries(proc'[u]) => Carries(proc[u]) /\ proc'[u].pick = proc[u].pick
      BY DEF Moves
    <2>3. \A u \in Req : Carries(proc'[u]) => proc'[u].pick \in fit'[r] BY <2>1, <2>2 DEF ListFits
    <2>4. \A p \in Proxy : Fit(member'[p]) => Fit(member[p]) \/ p \in fit'[r] BY <1>2, <2>1
    <2>5. QED BY <1>1, <2>1, <2>3, <2>4, ListRest
  <1>3. QED BY <1>1, <1>2 DEF ListsFit, At

LEMMA ListsBegin ==
    ASSUME TypeInv, ListsFit, NEW q \in Req, NEW k \in Key \cup {Nothing}, NEW mode \in Modes,
           mode \notin {"sync", "list"} => k \in Key, Begin(q, k, mode)
    PROVE  ListsFit'
  <1>1. /\ Moves(q) /\ proc'[q].pc = "sync" /\ proc'[q].mode = mode
        /\ proc'[q].listed = status /\ proc'[q].todo = {p \in Proxy : status[p] # "none"}
    BY BeginFits
  <1>2. fit' = [fit EXCEPT ![q] = IF mode # "list" THEN {}
                                  ELSE {proc[r].pick : r \in {u \in Unwritten : Fit(proc[u].row)}}]
    BY DEF Begin
  <1>3. fit \in [Req -> SUBSET Proxy] BY DEF TypeInv, PastOK
  <1>4. \A r \in Req \ {q} : fit'[r] = fit[r] BY <1>2, <1>3
  <1>5. ~Carries(proc'[q]) BY <1>1 DEF Carries, Writing
  <1>6. UNCHANGED member BY DEF Begin, routing
  <1>7. ASSUME mode = "list" PROVE ListFits(q)'
    <2>1. fit'[q] = {proc[r].pick : r \in {u \in Unwritten : Fit(proc[u].row)}} BY <1>2, <1>3, <1>7
    <2>2. \A r \in Req \ {q} : proc'[r] = proc[r] BY <1>1 DEF Moves
    <2>3. \A r \in Req : Carries(proc[r]) => r \in {u \in Unwritten : Fit(proc[u].row)}
      BY DEF Carries, Unwritten, Writing
    <2>4. \A r \in Req : Carries(proc'[r]) => proc'[r].pick \in fit'[q] BY <1>5, <2>1, <2>2, <2>3
    <2>5. Listed(q)' \ proc'[q].todo = {} BY <1>1 DEF Listed
    <2>6. QED BY <1>1, <2>4, <2>5 DEF ListFits, At, Carries, Fit
  <1>8. QED BY <1>1, <1>4, <1>5, <1>6, <1>7, ListsRest

LEMMA ListsQuality ==
    ASSUME TypeInv, ListsFit, NEW q \in Req, NEW p \in Proxy, CalculateQuality(q, p)
    PROVE  ListsFit'
  <1>1. /\ Moves(q) /\ proc'[q].pc = "lookup" /\ proc'[q].pick = p
        /\ proc'[q].row = Row(p, proc[q].listed[p]) /\ proc'[q].mode = proc[q].mode
        /\ proc'[q].listed = proc[q].listed /\ proc'[q].todo = proc[q].todo
    BY QualitySaid
  <1>2. UNCHANGED member BY DEF CalculateQuality, routing
  <1>3. ASSUME NEW r \in Req, proc'[r].mode = "list" PROVE ListFits(r)'
    <2>1. proc[r].mode = "list" /\ ListFits(r) BY <1>1, <1>3 DEF Moves, ListsFit
    <2>2. fit'[r] = IF Fit(Row(p, proc[q].listed[p])) THEN fit[r] \cup {p} ELSE fit[r]
      BY <2>1 DEF CalculateQuality
    <2>3. \A u \in Req : Carries(proc'[u]) => proc'[u].pick \in fit'[r]
      <3>1. CASE Carries(proc'[q]) BY <1>1, <2>1, <2>2, <3>1 DEF Carries, Moves, ListFits
      <3>2. CASE ~Carries(proc'[q]) BY <1>1, <2>1, <2>2, <3>2 DEF Moves, ListFits
      <3>3. QED BY <3>1, <3>2
    <2>4. CASE r # q
      <3>1. proc'[r] = proc[r] BY <1>1, <2>4 DEF Moves
      <3>2. QED BY <1>2, <2>1, <2>2, <2>3, <3>1, ListRest
    <2>5. CASE r = q
      <3>1. Listed(q)' = Listed(q) BY <1>1 DEF Listed
      <3>2. \A x \in Listed(q)' \ proc'[q].todo : Fit(member'[x]) => x \in fit'[q]
        BY <1>1, <1>2, <2>1, <2>2, <2>5, <3>1 DEF ListFits
      <3>3. QED BY <1>1, <2>3, <2>5, <3>2 DEF ListFits, At, Carries, Fit
    <2>6. QED BY <2>4, <2>5
  <1>4. \A r \in Req : At(r, "show")' => proc'[r].mode = "list" BY <1>1 DEF Moves, ListsFit, At
  <1>5. QED BY <1>3, <1>4 DEF ListsFit

LEMMA NoMemberUnfit == ~Fit(NoMember)
  BY DEF Fit, NoMember

LEMMA ListsLookUp ==
    ASSUME TypeInv, ListsFit, NEW q \in Req, LookUpMember(q)
    PROVE  ListsFit'
  <1>1. /\ Moves(q) /\ proc[q].pc = "lookup" /\ proc'[q].mode = proc[q].mode
        /\ proc'[q].pick = proc[q].pick /\ proc'[q].row = proc[q].row
        /\ proc'[q].listed = proc[q].listed /\ proc'[q].todo = proc[q].todo
        /\ \/ proc'[q].pc = "update"
           \/ proc'[q].pc = "create" /\ member[proc[q].pick] = NoMember
    BY LookedUpFits
  <1>2. UNCHANGED <<member, fit>> BY DEF LookUpMember, routing, past
  <1>3. Carries(proc'[q]) <=> Carries(proc[q]) BY <1>1 DEF Carries, Writing
  <1>4. ASSUME proc'[q].mode = "list" PROVE ListFits(q)'
    <2>1. ListFits(q) BY <1>1, <1>4 DEF ListsFit
    <2>2. \A r \in Req : Carries(proc'[r]) => proc'[r].pick \in fit'[q]
      BY <1>1, <1>2, <1>3, <2>1 DEF ListFits, Moves
    <2>3. Listed(q)' = Listed(q) BY <1>1 DEF Listed
    <2>4. \A p \in Listed(q)' \ proc'[q].todo : Fit(member'[p]) => p \in fit'[q]
      BY <1>1, <1>2, <2>1, <2>3 DEF ListFits
    <2>5. proc'[q].pc = "create" => ~Fit(member'[proc'[q].pick]) BY <1>1, <1>2, NoMemberUnfit
    <2>6. QED BY <1>1, <2>2, <2>4, <2>5 DEF ListFits, At, Carries, Fit
  <1>5. QED BY <1>1, <1>2, <1>3, <1>4, ListsRest

LEMMA ListsWritten ==
    ASSUME TypeInv, ListsFit, NEW q \in Req, UpdateMember(q) \/ CreateMember(q)
    PROVE  ListsFit'
  <1>1. PICK p \in Proxy, row \in Rows, new \in Rows :
           /\ p = proc[q].pick /\ row = proc[q].row /\ RowFits(row)
           /\ new.health = row.health /\ new.status = row.status
           /\ row.score # 0 => new.score = row.score
           /\ \/ member' = [member EXCEPT ![p] = new] /\ judged' = [judged EXCEPT ![p] = row]
              \/ UNCHANGED <<member, judged>> /\ At(q, "create")
           /\ NextProxy(q) /\ UNCHANGED fit
    BY MemberWritten
  <1>2. proc[q].pc \in {"update", "create"} BY DEF UpdateMember, CreateMember, At
  <1>3. /\ Moves(q) /\ proc'[q].pc = "sync"
        /\ proc'[q].mode = proc[q].mode /\ proc'[q].listed = proc[q].listed
        /\ proc'[q].todo = proc[q].todo \ {p}
    BY <1>1, <1>2, SavedFits
  <1>4. Fit(new) => Carries(proc[q]) BY <1>1, <1>2 DEF Fit, RowFits, Carries, Writing
  <1>5. member \in [Proxy -> Rows] BY DEF TypeInv, TablesOK
  <1>6. ASSUME NEW r \in Req, proc[r].mode = "list"
        PROVE  /\ \A x \in Proxy : Fit(member'[x]) => Fit(member[x]) \/ x \in fit[r]
               /\ r = q /\ Fit(member'[p]) => p \in fit[q]
    <2>1. ListFits(r) BY <1>6 DEF ListsFit
    <2>2. Fit(new) => p \in fit[r] BY <1>1, <1>4, <2>1 DEF ListFits
    <2>3. CASE member' = [member EXCEPT ![p] = new]
      <3>1. \A x \in Proxy : member'[x] = IF x = p THEN new ELSE member[x] BY <1>5, <2>3
      <3>2. QED BY <2>2, <3>1
    <2>4. CASE UNCHANGED member /\ At(q, "create") BY <1>1, <2>1, <2>4 DEF ListFits
    <2>5. QED BY <1>1, <2>3, <2>4
  <1>7. ~Carries(proc'[q]) BY <1>3 DEF Carries, Writing
  <1>8. ASSUME proc'[q].mode = "list" PROVE ListFits(q)'
    <2>1. proc[q].mode = "list" /\ ListFits(q) BY <1>3, <1>8 DEF ListsFit
    <2>2. \A r \in Req : Carries(proc'[r]) => proc'[r].pick \in fit'[q]
      BY <1>1, <1>3, <1>7, <2>1 DEF ListFits, Moves
    <2>3. Listed(q)' = Listed(q) /\ Listed(q) \subseteq Proxy BY <1>3 DEF Listed
    <2>4. \A x \in Listed(q) \ (proc[q].todo \ {p}) : Fit(member'[x]) => x \in fit[q]
      <3>1. ASSUME NEW x \in Listed(q) \ proc[q].todo, Fit(member'[x]) PROVE x \in fit[q]
        BY <1>6, <2>1, <2>3, <3>1 DEF ListFits
      <3>2. Fit(member'[p]) => p \in fit[q] BY <1>6, <2>1
      <3>3. QED BY <3>1, <3>2
    <2>5. QED BY <1>1, <1>3, <2>2, <2>3, <2>4 DEF ListFits, At, Carries, Fit
  <1>9. QED BY <1>1, <1>3, <1>6, <1>7, <1>8, ListsRest

LEMMA ListsSyncEnds ==
    ASSUME TypeInv, ListsFit, NEW q \in Req, SyncEnds(q)
    PROVE  ListsFit'
  <1>1. UNCHANGED <<member, fit>> BY DEF SyncEnds, routing, past
  <1>2. Moves(q) /\ ~Carries(proc'[q]) /\ (proc'[q].pc = "show" => proc'[q].mode = "list")
    BY SyncEndsFits DEF Carries, Writing
  <1>3. ASSUME proc'[q].mode = "list" PROVE ListFits(q)'
    <2>1. /\ proc'[q].pc = "show" /\ proc[q].mode = "list" /\ proc[q].todo = {}
          /\ proc'[q].listed = proc[q].listed /\ proc'[q].todo = {}
      BY <1>3, SyncEndsFits, RoutingAssumption
    <2>2. ListFits(q) BY <2>1 DEF ListsFit
    <2>3. Listed(q)' = Listed(q) BY <2>1 DEF Listed
    <2>4. \A r \in Req : Carries(proc'[r]) => proc'[r].pick \in fit'[q]
      BY <1>1, <1>2, <2>2 DEF ListFits, Moves
    <2>5. \A p \in Listed(q)' \ proc'[q].todo : Fit(member'[p]) => p \in fit'[q]
      BY <1>1, <2>1, <2>2, <2>3 DEF ListFits
    <2>6. QED BY <2>1, <2>4, <2>5 DEF ListFits, At, Carries, Fit
  <1>4. QED BY <1>1, <1>2, <1>3, ListsRest

\* A step after which q asks for no dashboard.
LEMMA ListsOther ==
    ASSUME TypeInv, ListsFit, NEW q \in Req, Moves(q), UNCHANGED member,
           \A r \in Req \ {q} : fit'[r] = fit[r],
           proc'[q].pc \in {"idle"} \cup Selecting, proc'[q].mode # "list"
    PROVE  ListsFit'
  <1>1. ~Carries(proc'[q]) /\ proc'[q].pc # "show" BY DEF Carries, Writing, Selecting
  <1>2. QED BY <1>1, ListsRest

LEMMA ListsStep == TypeInv /\ ListsFit /\ [Next]_vars => ListsFit'
  <1> SUFFICES ASSUME TypeInv, ListsFit, [Next]_vars PROVE ListsFit'
    OBVIOUS
  <1>1. ASSUME NEW q \in Req, Step(q) PROVE ListsFit'
    <2>1. CASE \/ SyncPools(q) \/ ListPools(q)
               \/ \E k \in Key, mode \in DOMAIN Duration \cup {"rotating"} : SelectProxy(q, k, mode)
      BY <2>1, ListsBegin DEF SyncPools, ListPools, SelectProxy, Modes
    <2>2. CASE SyncFails(q) \/ Show(q)
      <3>1. Done(q) /\ fit' = [fit EXCEPT ![q] = {}] /\ UNCHANGED member
        BY <2>2 DEF SyncFails, Show, routing
      <3>2. \A r \in Req \ {q} : fit'[r] = fit[r] BY <3>1 DEF TypeInv, PastOK
      <3>3. QED BY <3>1, <3>2, DoneFits, ListsOther
    <2>3. CASE FindSticky(q) \/ JudgeSticky(q) \/ Choose(q) \/ DeleteSticky(q) \/ CreateSticky(q)
      <3>1. UNCHANGED <<member, fit>>
        BY <2>3 DEF FindSticky, JudgeSticky, Choose, DeleteSticky, CreateSticky, routing, past
      <3>2. proc[q].mode # "list"
        <4>1. proc[q].pc \in Selecting
          BY <2>3 DEF FindSticky, JudgeSticky, Choose, DeleteSticky, CreateSticky, At, Selecting
        <4>2. QED BY <4>1, RestFits DEF Sound, Ready
      <3>3. /\ Moves(q) /\ proc'[q].pc \in {"idle"} \cup Selecting
            /\ proc'[q].mode = "sync" \/ proc'[q].mode = proc[q].mode
        BY <2>3, FindFits, JudgeFits, ChooseFits, DeleteFits, CreateFits DEF Selecting
      <3>4. QED BY <3>1, <3>2, <3>3, ListsOther
    <2>4. QED BY <1>1, <2>1, <2>2, <2>3, ListsQuality, ListsLookUp, ListsWritten, ListsSyncEnds DEF Step
  <1>2. CASE World \/ TimePasses \/ UNCHANGED vars
    <2>1. UNCHANGED <<member, proc, fit>>
      BY <1>2 DEF World, Checked, StatusChanges, LoadChanges, CreateReservation, AgentChanges, TimePasses,
             vars, routing, past
    <2>2. QED BY <2>1 DEF ListsFit, ListFits, Listed, At, Carries, Fit
  <1>3. CASE Crash
    <2>1. \A q \in Req : proc'[q].pc = "idle" /\ proc'[q].mode = "sync" BY <1>3, IdleFits DEF Crash
    <2>2. QED BY <2>1 DEF ListsFit, At
  <1>4. QED BY <1>1, <1>2, <1>3 DEF Next
-----------------------------------------------------------------------------
LEMMA Invariance == Spec => []IInv
  <1>1. Init => IInv
    <2> SUFFICES ASSUME Init PROVE IInv
      OBVIOUS
    <2>1. \A k \in Key : Seeking(k) = {} BY DEF Init, Idle, Seeking
    <2>2. SessionsFit BY <2>1 DEF Init, SessionsFit, KeyFits, Kept
    <2>3. ListsFit BY IdleFits DEF Init, ListsFit, At
    <2>4. QED BY <2>2, <2>3, TypeInit, MembersInit DEF IInv
  <1>2. IInv /\ [Next]_vars => IInv'
    BY TypeStep, MembersStep, SessionsStep, ListsStep DEF IInv
  <1>3. QED
    BY <1>1, <1>2, PTL DEF Spec

\* A session has the one row that was made last, for any number of requests
\* (StickyKept of Routing).
THEOREM StickyKeptCorrect == Spec => []StickyKept
  <1>1. IInv => StickyKept BY DEF IInv, SessionsFit, KeyFits, Kept, StickyKept
  <1>2. QED BY <1>1, Invariance, PTL

\* The session of a customer that has not expired moves to another proxy only
\* after its own was found dead or deleted (StickyStable of Routing).
THEOREM StickyStableCorrect == Spec => []StickyStable
  <1>1. IInv => StickyStable BY DEF IInv, SessionsFit, KeyFits, StickyStable, At
  <1>2. QED BY <1>1, Invariance, PTL

\* What counts as available was so when its row was last written
\* (AvailableWasFit of Routing).
THEOREM AvailableCorrect == Spec => []AvailableWasFit
  BY AvailableFits, Invariance, PTL

\* The type invariant: every score, the average of a pool and that of the whole
\* stay within 0..100, for any latencies, failures and numbers of proxies and
\* pools (TypeOK of Routing).
THEOREM TypeCorrect == Spec => []TypeOK
  <1>1. IInv => TypeOK
    <2> SUFFICES ASSUME IInv PROVE TypeOK
      OBVIOUS
    <2>1. HAScore \in 0..100 BY HAScoreFits DEF IInv, TypeInv
    <2>2. ASSUME NEW q \in Req
          PROVE  /\ proc[q].pc \in Pcs
                 /\ proc[q].pc \in Selecting => proc[q].key \in Key
                 /\ proc[q].pc \in {"find", "judge", "deleteSticky", "createSticky"} => proc[q].mode \in DOMAIN Duration
                 /\ proc[q].pc \in {"lookup", "update", "create", "judge", "deleteSticky", "createSticky"}
                       => proc[q].pick \in Proxy
                 /\ proc[q].listed \in [Proxy -> Status] /\ proc[q].todo \subseteq Proxy /\ proc[q].row \in Rows
      <3>1. proc[q] \in ProcType /\ Sound(proc[q]) BY RestFits DEF IInv
      <3>2. QED BY <3>1 DEF Sound, Ready, ProcType, Writing
    <2>3. WorldOK /\ TablesOK /\ PastOK BY DEF IInv, TypeInv
    <2>4. QED BY <2>1, <2>2, <2>3 DEF TypeOK, WorldOK, TablesOK, PastOK, CheckType, Pcs
  <1>2. QED BY <1>1, Invariance, PTL

\* A pool none of whose members was calculated fit since the dashboard was
\* asked for, nor was on its way to a row then, is shown as out of service, with
\* any number of requests that write the rows meanwhile (OutageShows of Routing).
THEOREM OutageCorrect == Spec => []OutageShows
  <1>1. IInv => OutageShows
    <2> SUFFICES ASSUME IInv, NEW q \in Req, At(q, "show"), NEW o \in Pool, Members(o) \subseteq Listed(q) \ fit[q]
                 PROVE  PoolScore(o) = 0
      BY DEF OutageShows
    <2>1. ListFits(q) BY DEF IInv, ListsFit
    <2>2. ASSUME NEW p \in Available(o) PROVE FALSE
      <3>1. p \in Members(o) /\ Fit(member[p]) BY <2>2 DEF Available
      <3>2. p \in Listed(q) \ proc[q].todo /\ p \notin fit[q] BY <2>1, <3>1 DEF ListFits
      <3>3. QED BY <2>1, <3>1, <3>2 DEF ListFits
    <2>3. QED BY <2>2 DEF PoolScore
  <1>2. QED BY <1>1, Invariance, PTL
=============================================================================
