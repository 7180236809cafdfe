-------------------------- MODULE AbuseGuardProofs --------------------------
(***************************************************************************)
(* Proofs about AbuseGuard: the counters of the guard, the limit they      *)
(* stand for, the risk score, and the failures of the logins with the      *)
(* blocks and suspensions they set.                                        *)
(***************************************************************************)
EXTENDS AbuseGuard, FiniteSetTheorems, SequenceTheorems, SumTheorems, TLAPS

Pcs  == {"idle", "login", "credential", "failed", "whitelist", "denied", "closed", "enforce", "readScore",
         "saveScore", "guard", "limits", "count", "dial", "bridge", "usage", "release"}
\* With factors still to add.
Busy == {"enforce", "readScore", "saveScore"}

\* What a connection at pc has.
Ready(pc, proxy, who, scored, todo, next) ==
    /\ pc # "idle" => proxy \in Proxy
    /\ pc \in {"whitelist", "guard", "limits", "count"} => who \in Customer
    /\ pc \in {"readScore", "saveScore"} => scored \in Customer \cup Proxy
    /\ todo # <<>> <=> pc \in Busy
    /\ next = "release" => pc \in Busy \cup {"release"}
Fits(r) == r \in ConnType /\ Ready(r.pc, r.proxy, r.who, r.scored, r.todo, r.next)

\* The types, and that a connection to be released afterwards is adding factors.
TypeInv == TypeOK /\ \A q \in Conn : Fits(conn[q])

\* Connections the guard has counted.
Carried == {q \in Counted : conn[q].who # Nobody}

\* A connection about to save a score has read the one in the row.
ScoresFit ==
    \A q \in Conn : At(q, "saveScore") /\ conn[q].scored \notin raced =>
        conn[q].score = risk[conn[q].scored]

\* Who never lost the subscription has its limit.
LimitsFit == \A c \in Customer \ lapsed : limit[c] = Limit

Block   == "failed_auth_temporary_block"
Suspend == "credential_suspended"

\* Connections at p that f is still to come for, and logins that may yet fail.
Pending(p, f) == {q \in Conn : conn[q].proxy = p /\ f \in Range(conn[q].todo)}
Entering(p)   == {q \in Conn : conn[q].proxy = p /\ conn[q].pc \in {"credential", "failed"}}

\* As many failures as the threshold are in a window only while a block is to
\* come, or lasts until the window has passed.
BlocksFit ==
    \A p \in Proxy : \A s \in 1..BlockSpan :
        Failures(p, s) >= BlockAt => Pending(p, Block) # {} \/ blocked[p] + s > BlockSpan
\* Without a block, each failure from the threshold on has its own to come.
PendingFit ==
    \A p \in Proxy : blocked[p] = 0 =>
        Failures(p, BlockSpan) + 1 <= BlockAt + Cardinality(Pending(p, Block))
\* The failures, and those that may still be added to them.
EnteringFit ==
    \A p \in Proxy : Failures(p, BlockSpan) + Cardinality(Entering(p)) + 1 <= BlockAt + trying[p]
\* A factor has taken effect before its score is added.
EffectsFit ==
    \A q \in Conn : conn[q].pc \in {"readScore", "saveScore"} =>
        /\ Head(conn[q].todo) = Block => blocked[conn[q].proxy] = BlockSpan + 1
        /\ Head(conn[q].todo) = Suspend => cred[conn[q].proxy] = "suspended"

SuspendsFit ==
    \A p \in Proxy : Failures(p, SuspendSpan) >= SuspendAt =>
        cred[p] = "suspended" \/ Pending(p, Suspend) # {}

FailuresInv == BlocksFit /\ PendingFit /\ EnteringFit /\ EffectsFit /\ SuspendsFit

IInv == TypeInv /\ CountersMatch /\ LimitsFit /\ LimitOvershoot /\ ScoresFit /\ RiskAccounted
        /\ FailuresInv
-----------------------------------------------------------------------------
(* One connection moves, the others stay.                                  *)

Moves(q) == /\ conn' \in [Conn -> ConnType]
            /\ Fits(conn'[q])
            /\ \A r \in Conn \ {q} : conn'[r] = conn[r]
\* It keeps proxy and customer.
Stays(q) == conn'[q].proxy = conn[q].proxy /\ conn'[q].who = conn[q].who

LEMMA PutFits ==
    ASSUME TypeInv, NEW q \in Conn, NEW r, Fits(r), conn' = [conn EXCEPT ![q] = r]
    PROVE  Moves(q) /\ conn'[q] = r
  BY DEF TypeInv, TypeOK, Moves, Fits

LEMMA GotoFits ==
    ASSUME TypeInv, NEW q \in Conn, NEW pc \in Pcs, Goto(q, pc),
           Ready(pc, conn[q].proxy, conn[q].who, conn[q].scored, conn[q].todo, conn[q].next)
    PROVE  /\ Moves(q) /\ Stays(q) /\ conn'[q].pc = pc
           /\ conn'[q].scored = conn[q].scored /\ conn'[q].todo = conn[q].todo
           /\ conn'[q].next = conn[q].next
  <1> DEFINE r == [conn[q] EXCEPT !.pc = pc]
  <1>1. conn[q] \in ConnType BY DEF TypeInv, TypeOK
  <1>2. /\ r \in ConnType /\ r.pc = pc
        /\ r.proxy = conn[q].proxy /\ r.who = conn[q].who /\ r.scored = conn[q].scored
        /\ r.todo = conn[q].todo /\ r.next = conn[q].next
    BY <1>1 DEF ConnType, Pcs
  <1>3. conn' = [conn EXCEPT ![q] = r] BY DEF Goto
  <1> HIDE DEF r
  <1>4. Fits(r) BY <1>2 DEF Fits
  <1>5. QED BY <1>2, <1>3, <1>4, PutFits DEF Stays

LEMMA PunishFits ==
    ASSUME TypeInv, NEW q \in Conn, conn[q].proxy \in Proxy, NEW x \in Customer \cup Proxy \cup {Nobody},
           NEW factors \in Seq(Factors), factors # <<>>, NEW next \in {"denied", "closed", "release"},
           Punish(q, x, factors, next)
    PROVE  /\ Moves(q) /\ Stays(q) /\ conn'[q].pc = "enforce" /\ conn'[q].next = next
           /\ conn'[q].todo = factors
  <1> DEFINE r == [conn[q] EXCEPT !.pc = "enforce", !.scored = x, !.todo = factors, !.next = next]
  <1>1. conn[q] \in ConnType BY DEF TypeInv, TypeOK
  <1>2. /\ r \in ConnType /\ r.pc = "enforce"
        /\ r.proxy = conn[q].proxy /\ r.who = conn[q].who /\ r.scored = x
        /\ r.todo = factors /\ r.next = next
    BY <1>1 DEF ConnType
  <1>3. conn' = [conn EXCEPT ![q] = r] BY DEF Punish
  <1> HIDE DEF r
  <1>4. Fits(r) BY <1>2 DEF Fits, Ready, Busy
  <1>5. QED BY <1>2, <1>3, <1>4, PutFits DEF Stays

LEMMA PoppedFits ==
    ASSUME TypeInv, NEW q \in Conn, conn[q].pc \in Busy, Popped(q)
    PROVE  /\ Moves(q) /\ Stays(q) /\ conn'[q].pc \in {"enforce", conn[q].next}
           /\ conn'[q].next = conn[q].next /\ conn'[q].todo = Tail(conn[q].todo)
  <1> DEFINE rest == Tail(conn[q].todo)
             pc   == IF rest = <<>> THEN conn[q].next ELSE "enforce"
             r    == [conn[q] EXCEPT !.todo = rest, !.pc = pc]
  <1>1. conn[q] \in ConnType /\ Fits(conn[q]) BY DEF TypeInv, TypeOK
  <1>2. rest \in Seq(Factors)
    <2>1. conn[q].todo \in Seq(Factors) /\ conn[q].todo # <<>>
      BY <1>1 DEF ConnType, Fits, Ready
    <2>2. QED BY <2>1, HeadTailProperties
  <1>3. pc \in Pcs /\ pc \in {"enforce", "idle", "denied", "closed", "release"}
    BY <1>1 DEF Pcs, ConnType
  <1>4. /\ r \in ConnType /\ r.pc = pc
        /\ r.proxy = conn[q].proxy /\ r.who = conn[q].who /\ r.scored = conn[q].scored
        /\ r.todo = rest /\ r.next = conn[q].next
    <2> HIDE DEF rest, pc
    <2>1. QED BY <1>1, <1>2, <1>3 DEF ConnType, Pcs
  <1>5. conn' = [conn EXCEPT ![q] = r] BY DEF Popped
  <1>6. conn[q].proxy \in Proxy BY <1>1 DEF Fits, Ready, Busy
  <1>7. (rest # <<>> <=> pc = "enforce") /\ pc \in {"enforce", conn[q].next}
    BY <1>1 DEF ConnType
  <1> HIDE DEF r, pc, rest
  <1>8. Fits(r) BY <1>3, <1>4, <1>6, <1>7 DEF Fits, Ready, Busy
  <1>9. conn'[q] = r /\ Moves(q) BY <1>5, <1>8, PutFits
  <1>10. QED BY <1>4, <1>7, <1>9 DEF Stays, rest

LEMMA IdleFits == Idle \in ConnType /\ Idle.pc = "idle" /\ Idle.next = "idle" /\ Idle.todo = <<>> /\ Fits(Idle)
  <1>1. 0 \in 0..MaxScore /\ <<>> \in Seq(Factors) BY AbuseAssumption
  <1>2. Idle \in ConnType BY <1>1 DEF Idle, ConnType
  <1>3. QED BY <1>2 DEF Idle, Fits, Ready, Busy

LEMMA DoneFits ==
    ASSUME TypeInv, NEW q \in Conn, Done(q)
    PROVE  Moves(q) /\ conn'[q].pc = "idle" /\ conn'[q].next = "idle" /\ conn'[q].todo = <<>>
  BY IdleFits, PutFits DEF Done

LEMMA AcceptFits ==
    ASSUME TypeInv, NEW q \in Conn, NEW p \in Proxy, Accept(q, p)
    PROVE  Moves(q) /\ conn'[q].pc = "login" /\ conn'[q].next = "idle" /\ conn'[q].todo = <<>>
  <1> DEFINE r == [Idle EXCEPT !.pc = "login", !.proxy = p]
  <1>1. r \in ConnType /\ r.pc = "login" /\ r.proxy = p /\ r.todo = <<>> /\ r.next = "idle"
    BY IdleFits DEF Idle, ConnType
  <1>2. Fits(r) BY <1>1 DEF Fits, Ready, Busy
  <1>3. conn' = [conn EXCEPT ![q] = r] BY DEF Accept
  <1> HIDE DEF r
  <1>4. QED BY <1>1, <1>2, <1>3, PutFits

\* The connection gets its customer, or Nobody, on the way to pc.
LEMMA GivenFits ==
    ASSUME TypeInv, NEW q \in Conn, conn[q].proxy \in Proxy, conn[q].todo = <<>>, conn[q].next # "release",
           NEW pc \in {"whitelist", "failed", "dial"}, NEW who \in Customer \cup {Nobody},
           pc = "whitelist" => who \in Customer,
           conn' = [conn EXCEPT ![q] = [@ EXCEPT !.pc = pc, !.who = who]]
    PROVE  /\ Moves(q) /\ conn'[q].pc = pc /\ conn'[q].who = who /\ conn'[q].next = conn[q].next
           /\ conn'[q].proxy = conn[q].proxy /\ conn'[q].todo = <<>>
  <1> DEFINE r == [conn[q] EXCEPT !.pc = pc, !.who = who]
  <1>1. conn[q] \in ConnType BY DEF TypeInv, TypeOK
  <1>2. /\ r \in ConnType /\ r.pc = pc /\ r.who = who
        /\ r.proxy = conn[q].proxy /\ r.scored = conn[q].scored
        /\ r.todo = conn[q].todo /\ r.next = conn[q].next
    BY <1>1 DEF ConnType
  <1>3. conn' = [conn EXCEPT ![q] = r] OBVIOUS
  <1> HIDE DEF r
  <1>4. Fits(r) BY <1>2 DEF Fits, Ready, Busy
  <1>5. QED BY <1>2, <1>3, <1>4, PutFits

LEMMA ReadFits ==
    ASSUME TypeInv, NEW q \in Conn, ReadScore(q)
    PROVE  /\ Moves(q) /\ Stays(q) /\ conn'[q].pc = "saveScore" /\ conn'[q].next = conn[q].next
           /\ conn'[q].scored = conn[q].scored /\ conn'[q].score = risk[conn[q].scored]
           /\ conn'[q].todo = conn[q].todo
  <1> DEFINE r == [conn[q] EXCEPT !.pc = "saveScore", !.score = risk[conn[q].scored]]
  <1>1. conn[q] \in ConnType /\ Fits(conn[q]) /\ conn[q].pc = "readScore"
    BY DEF TypeInv, TypeOK, ReadScore, At
  <1>2. risk[conn[q].scored] \in 0..MaxScore BY <1>1 DEF TypeInv, TypeOK, Fits, Ready
  <1>3. /\ r \in ConnType /\ r.pc = "saveScore" /\ r.score = risk[conn[q].scored]
        /\ r.proxy = conn[q].proxy /\ r.who = conn[q].who /\ r.scored = conn[q].scored
        /\ r.todo = conn[q].todo /\ r.next = conn[q].next
    BY <1>1, <1>2 DEF ConnType
  <1>4. conn' = [conn EXCEPT ![q] = r] BY DEF ReadScore
  <1> HIDE DEF r
  <1>5. Fits(r) BY <1>1, <1>3 DEF Fits, Ready, Busy
  <1>6. QED BY <1>3, <1>4, <1>5, PutFits DEF Stays

LEMMA CalledFits ==
    ASSUME NEW p, NEW span, NEW threshold, NEW factor \in Factors
    PROVE  Called(p, span, threshold, factor) \in Seq(Factors)
  BY DEF Called

LEMMA DueFits == ASSUME NEW p PROVE Due(p) \in Seq(Factors)
  <1> DEFINE a == Called(p, WarnSpan, WarnAt, "failed_auth_warning")
             b == Called(p, BlockSpan, BlockAt, "failed_auth_temporary_block")
             c == Called(p, SuspendSpan, SuspendAt, "credential_suspended")
  <1>1. a \in Seq(Factors) /\ b \in Seq(Factors) /\ c \in Seq(Factors)
    BY CalledFits DEF Factors
  <1>2. Due(p) = a \o b \o c BY DEF Due
  <1> HIDE DEF a, b, c
  <1>3. QED BY <1>1, <1>2, ConcatProperties

LEMMA PunishOneFits ==
    ASSUME TypeInv, NEW q \in Conn, conn[q].proxy \in Proxy, NEW x \in Customer \cup Proxy,
           NEW f \in Factors, NEW next \in {"denied", "closed", "release"},
           Punish(q, x, <<f>>, next)
    PROVE  /\ Moves(q) /\ Stays(q) /\ conn'[q].pc = "enforce" /\ conn'[q].next = next
           /\ conn'[q].todo = <<f>>
  <1> DEFINE factors == <<f>>
  <1>1. factors \in Seq(Factors) /\ factors # <<>> OBVIOUS
  <1>2. Punish(q, x, factors, next) OBVIOUS
  <1>3. x \in Customer \cup Proxy \cup {Nobody} OBVIOUS
  <1>4. factors = <<f>> OBVIOUS
  <1> HIDE DEF factors
  <1>5. /\ Moves(q) /\ Stays(q) /\ conn'[q].pc = "enforce" /\ conn'[q].next = next
        /\ conn'[q].todo = factors
    BY <1>1, <1>2, <1>3, PunishFits
  <1>6. QED BY <1>4, <1>5

\* A step of q that neither counts it, nor lets it past the limit, nor releases it.
Quiet(q) == /\ Moves(q)
            /\ q \in Carried' <=> q \in Carried
            /\ q \in Carried => Stays(q)
            /\ ~At(q, "count") /\ ~At(q, "count")'

LEMMA CarriedFits ==
    ASSUME NEW q \in Conn
    PROVE  /\ q \in Carried <=>
              /\ conn[q].pc \in {"dial", "bridge", "usage", "release"} \/ conn[q].next = "release"
              /\ conn[q].who # Nobody
           /\ q \in Carried' <=>
              /\ conn'[q].pc \in {"dial", "bridge", "usage", "release"} \/ conn'[q].next = "release"
              /\ conn'[q].who # Nobody
  BY DEF Carried, Counted

LEMMA RestFits ==
    ASSUME TypeInv, NEW q \in Conn
    PROVE  /\ Fits(conn[q]) /\ conn[q] \in ConnType
           /\ conn[q].next # "release" => conn[q].next \in {"idle", "denied", "closed"}
  BY DEF TypeInv, TypeOK, ConnType

LEMMA LoginQuiet ==
    ASSUME TypeInv, NEW q \in Conn, Login(q)
    PROVE  Quiet(q)
  <1> USE CarriedFits DEF Quiet, Stays, At
  <1>0. /\ Fits(conn[q]) /\ conn[q] \in ConnType
        /\ conn[q].next # "release" => conn[q].next \in {"idle", "denied", "closed"}
    BY RestFits
  <1>1. ASSUME NEW p \in Proxy, Accept(q, p) PROVE Quiet(q)
    BY <1>0, <1>1, AcceptFits DEF Accept, Fits, Ready, Busy
  <1>2. CASE BlockedUntil(q)
    <2>1. ASSUME NEW pc \in {"denied", "credential"}, Goto(q, pc) PROVE Quiet(q)
      BY <1>0, <1>2, <2>1, GotoFits DEF BlockedUntil, Fits, Ready, Busy, Pcs
    <2>2. QED BY <1>2, <2>1 DEF BlockedUntil
  <1>3. CASE CheckCredential(q)
    <2>1. conn[q].proxy \in Proxy /\ conn[q].todo = <<>> /\ conn[q].next # "release" /\ conn[q].pc = "credential"
      BY <1>0, <1>3 DEF CheckCredential, Fits, Ready, Busy
    <2>2. CASE Goto(q, "failed")
      BY <1>0, <2>1, <2>2, GotoFits DEF Ready, Busy, Pcs
    <2>3. ASSUME NEW pc \in {"whitelist", "failed"},
                 conn' = [conn EXCEPT ![q] = [@ EXCEPT !.pc = pc, !.who = Owner[conn[q].proxy]]]
          PROVE  Quiet(q)
      <3>1. PICK w \in Customer : w = Owner[conn[q].proxy] BY <2>1, AbuseAssumption
      <3>2. conn' = [conn EXCEPT ![q] = [@ EXCEPT !.pc = pc, !.who = w]] BY <2>3, <3>1
      <3>3. QED BY <1>0, <2>1, <3>2, GivenFits
    <2>4. QED BY <1>3, <2>2, <2>3 DEF CheckCredential
  <1>4. CASE RecordFailedAuth(q)
    <2>1. conn[q].proxy \in Proxy /\ conn[q].todo = <<>> /\ conn[q].next # "release" /\ conn[q].pc = "failed"
      BY <1>0, <1>4 DEF RecordFailedAuth, Fits, Ready, Busy
    <2>2. CASE Goto(q, "denied")
      BY <1>0, <2>1, <2>2, GotoFits DEF Ready, Busy, Pcs
    <2>3. CASE Due(conn[q].proxy) # <<>> /\ Punish(q, conn[q].who, Due(conn[q].proxy), "denied")
      <3>1. PICK factors \in Seq(Factors) : factors = Due(conn[q].proxy) BY DueFits
      <3>2. conn[q].who \in Customer \cup Proxy \cup {Nobody} BY <1>0 DEF ConnType
      <3>3. QED BY <1>0, <2>1, <2>3, <3>1, <3>2, PunishFits
    <2>4. QED BY <1>4, <2>2, <2>3 DEF RecordFailedAuth
  <1>5. CASE ClientAllowed(q)
    <2>1. /\ conn[q].proxy \in Proxy /\ conn[q].todo = <<>> /\ conn[q].next # "release" /\ conn[q].pc = "whitelist"
          /\ conn[q].who \in Customer
      BY <1>0, <1>5 DEF ClientAllowed, Fits, Ready, Busy
    <2>2. ASSUME NEW pc \in {"guard", "denied"}, Goto(q, pc) PROVE Quiet(q)
      BY <1>0, <2>1, <2>2, GotoFits DEF Ready, Busy, Pcs
    <2>3. CASE Punish(q, conn[q].who, <<"ip_whitelist_denied">>, "denied")
      BY <1>0, <2>1, <2>3, PunishOneFits DEF Factors
    <2>4. QED BY <1>5, <2>2, <2>3 DEF ClientAllowed
  <1>6. CASE ServedForNobody(q)
    <2>1. /\ conn[q].proxy \in Proxy /\ conn[q].todo = <<>> /\ conn[q].next # "release"
          /\ conn[q].pc \in {"denied", "login"}
      BY <1>0, <1>6 DEF ServedForNobody, Fits, Ready, Busy
    <2>2. QED BY <1>0, <1>6, <2>1, GivenFits DEF ServedForNobody
  <1>7. CASE Return(q)
    BY <1>0, <1>7, DoneFits DEF Return, Fits, Ready, Busy
  <1>8. ASSUME conn[q].pc \in Busy, Popped(q) PROVE Quiet(q)
    BY <1>0, <1>8, PoppedFits DEF Busy
  <1>9. CASE Enforce(q)
    <2>1. CASE Popped(q) BY <1>8, <1>9, <2>1 DEF Enforce, Busy
    <2>2. CASE conn[q].scored # Nobody /\ Goto(q, "readScore")
      <3>1. /\ conn[q].proxy \in Proxy /\ conn[q].todo # <<>> /\ conn[q].pc = "enforce"
            /\ conn[q].scored \in Customer \cup Proxy
        BY <1>0, <1>9, <2>2 DEF Enforce, Fits, Ready, Busy, ConnType
      <3>2. QED BY <1>0, <2>2, <3>1, GotoFits DEF Ready, Busy, Pcs
    <2>3. QED BY <1>9, <2>1, <2>2 DEF Enforce
  <1>10. CASE ReadScore(q)
    <2>1. conn[q].pc = "readScore" BY <1>10 DEF ReadScore, At
    <2>2. /\ Moves(q) /\ Stays(q) /\ conn'[q].pc = "saveScore"
          /\ conn'[q].next = conn[q].next
      BY <1>10, ReadFits
    <2>3. QED BY <1>0, <2>1, <2>2
  <1>11. CASE SaveScore(q) BY <1>8, <1>11 DEF SaveScore, Busy
  <1>12. QED BY <1>1, <1>2, <1>3, <1>4, <1>5, <1>6, <1>7, <1>9, <1>10, <1>11 DEF Login

LEMMA ServeQuiet ==
    ASSUME TypeInv, NEW q \in Conn, GuardTarget(q) \/ Dial(q) \/ DialFails(q) \/ BridgeEnds(q) \/ RecordUsage(q)
    PROVE  Quiet(q)
  <1> USE CarriedFits DEF Quiet, Stays, At
  <1>0. /\ Fits(conn[q]) /\ conn[q] \in ConnType
        /\ conn[q].next # "release" => conn[q].next \in {"idle", "denied", "closed"}
    BY RestFits
  <1>1. CASE GuardTarget(q)
    <2>1. /\ conn[q].proxy \in Proxy /\ conn[q].todo = <<>> /\ conn[q].next # "release" /\ conn[q].pc = "guard"
          /\ conn[q].who \in Customer
      BY <1>0, <1>1 DEF GuardTarget, Fits, Ready, Busy
    <2>2. CASE Goto(q, "limits")
      BY <1>0, <2>1, <2>2, GotoFits DEF Ready, Busy, Pcs
    <2>3. CASE Punish(q, conn[q].who, <<"blocked_target">>, "closed")
      BY <1>0, <2>1, <2>3, PunishOneFits DEF Factors
    <2>4. QED BY <1>1, <2>2, <2>3 DEF GuardTarget
  <1>2. ASSUME NEW pc \in {"bridge", "release", "usage"}, Goto(q, pc), conn[q].pc \in {"dial", "bridge", "usage"}
        PROVE  Quiet(q)
    BY <1>0, <1>2, GotoFits DEF Fits, Ready, Busy, Pcs
  <1>3. CASE Dial(q) BY <1>2, <1>3 DEF Dial
  <1>4. CASE DialFails(q) BY <1>2, <1>4 DEF DialFails
  <1>5. CASE BridgeEnds(q) BY <1>2, <1>5 DEF BridgeEnds
  <1>6. CASE RecordUsage(q)
    <2>1. conn[q].pc = "usage" /\ conn[q].proxy \in Proxy
      BY <1>0, <1>6 DEF RecordUsage, Fits, Ready
    <2>2. CASE Goto(q, "release") BY <1>2, <2>1, <2>2
    <2>3. CASE Punish(q, conn[q].proxy, <<"bandwidth_spike">>, "release")
      BY <1>0, <2>1, <2>3, PunishOneFits DEF Factors
    <2>4. QED BY <1>6, <2>2, <2>3 DEF RecordUsage
  <1>7. QED BY <1>1, <1>3, <1>4, <1>5, <1>6

LEMMA LimitsFits ==
    ASSUME TypeInv, NEW q \in Conn, CheckConnectionLimits(q)
    PROVE  /\ Moves(q) /\ Stays(q) /\ conn[q].who \in Customer /\ At(q, "limits")
           /\ q \notin Carried /\ q \notin Carried'
           /\ \/ conn'[q].pc = "enforce" /\ UNCHANGED passing
              \/ /\ conn'[q].pc = "count" /\ ~Exceeded(conn[q].who)
                 /\ passing' = [passing EXCEPT ![conn[q].who] = Bigger(@, Cardinality(Passing(conn[q].who)) + 1)]
  <1> USE CarriedFits DEF Stays, At
  <1>0. Fits(conn[q]) /\ conn[q] \in ConnType BY RestFits
  <1>1. /\ conn[q].proxy \in Proxy /\ conn[q].todo = <<>> /\ conn[q].next # "release" /\ conn[q].pc = "limits"
        /\ conn[q].who \in Customer
    BY <1>0 DEF CheckConnectionLimits, Fits, Ready, Busy
  <1>2. CASE /\ Goto(q, "count") /\ ~Exceeded(conn[q].who)
             /\ passing' = [passing EXCEPT ![conn[q].who] = Bigger(@, Cardinality(Passing(conn[q].who)) + 1)]
    BY <1>0, <1>1, <1>2, GotoFits DEF Ready, Busy, Pcs
  <1>3. CASE Punish(q, conn[q].who, <<"connection_limit">>, "closed") /\ UNCHANGED passing
    BY <1>0, <1>1, <1>3, PunishOneFits DEF Factors
  <1>4. QED BY <1>2, <1>3 DEF CheckConnectionLimits

LEMMA CountFits ==
    ASSUME TypeInv, NEW q \in Conn, GuardConnection(q)
    PROVE  /\ Moves(q) /\ Stays(q) /\ conn[q].who \in Customer /\ conn[q].proxy \in Proxy /\ conn'[q].pc = "dial"
           /\ q \notin Carried /\ q \in Carried' /\ At(q, "count")
  <1> USE CarriedFits DEF Stays, At
  <1>0. Fits(conn[q]) BY RestFits
  <1>1. /\ conn[q].proxy \in Proxy /\ conn[q].todo = <<>> /\ conn[q].next # "release" /\ conn[q].pc = "count"
        /\ conn[q].who \in Customer
    BY <1>0 DEF GuardConnection, Fits, Ready, Busy
  <1>2. conn[q].who # Nobody BY <1>1, AbuseAssumption
  <1>3. Goto(q, "dial") BY DEF GuardConnection
  <1>4. QED BY <1>1, <1>2, <1>3, GotoFits DEF Ready, Busy, Pcs

LEMMA ReleaseFits ==
    ASSUME TypeInv, NEW q \in Conn, Release(q)
    PROVE  /\ Moves(q) /\ conn'[q].pc = "idle" /\ At(q, "release") /\ q \notin Carried'
           /\ conn[q].todo = <<>> /\ conn'[q].todo = <<>>
           /\ q \in Carried <=> conn[q].who # Nobody
           /\ conn[q].who # Nobody => conn[q].who \in Customer /\ conn[q].proxy \in Proxy
  <1> USE CarriedFits DEF Stays, At
  <1>1. Fits(conn[q]) /\ conn[q] \in ConnType BY RestFits
  <1>2. conn[q].pc = "release" /\ Done(q) BY DEF Release
  <1>3. QED BY <1>1, <1>2, DoneFits DEF Fits, Ready, Busy, ConnType
-----------------------------------------------------------------------------
(* Types.                                                                  *)

MemoryOK == /\ failed \in [Proxy -> [0..SuspendSpan - 1 -> Nat]]
            /\ blocked \in [Proxy -> 0..BlockSpan + 1]
            /\ active \in [Customer -> Nat] /\ busy \in [Proxy -> Nat]
RowsOK == /\ cred \in [Proxy -> {"active", "suspended"}]
          /\ limit \in [Customer -> {0, Limit}]
          /\ risk \in [Customer \cup Proxy -> 0..MaxScore]
          /\ metered \subseteq Proxy \X Customer
PastOK == /\ trying \in [Proxy -> Nat] /\ passing \in [Customer -> Nat]
          /\ lapsed \subseteq Customer /\ raced \subseteq Customer \cup Proxy
          /\ due \in [Customer \cup Proxy -> 0..MaxScore]
          /\ moved \subseteq Customer \X Proxy
ConnsOK == conn \in [Conn -> ConnType] /\ \A q \in Conn : Fits(conn[q])

LEMMA TypeParts == TypeInv <=> MemoryOK /\ RowsOK /\ PastOK /\ ConnsOK
  BY DEF TypeInv, TypeOK, MemoryOK, RowsOK, PastOK, ConnsOK, Fits, Ready, Busy

LEMMA TypePartsNext == TypeInv' <=> MemoryOK' /\ RowsOK' /\ PastOK' /\ ConnsOK'
  BY TypeParts, PTL

LEMMA MovesOK ==
    ASSUME TypeInv, NEW q \in Conn, Moves(q)
    PROVE  ConnsOK'
  <1>1. \A r \in Conn : Fits(conn'[r]) BY DEF TypeInv, Moves
  <1>2. QED BY <1>1 DEF Moves, ConnsOK, Fits, Ready, ConnType

LEMMA RestOK ==
    /\ MemoryOK /\ UNCHANGED memory => MemoryOK'
    /\ RowsOK /\ UNCHANGED rows => RowsOK'
    /\ PastOK /\ UNCHANGED past => PastOK'
  BY DEF MemoryOK, RowsOK, PastOK, memory, rows, past

LEMMA ConnsFinite ==
    ASSUME NEW S \in SUBSET Conn
    PROVE  IsFiniteSet(S) /\ Cardinality(S) \in Nat
  BY AbuseAssumption, FS_Subset, FS_CardinalityType

LEMMA OneMoreFits ==
    ASSUME NEW f \in [0..SuspendSpan - 1 -> Nat]
    PROVE  OneMore(f) \in [0..SuspendSpan - 1 -> Nat]
  <1>1. 0 \in 0..SuspendSpan - 1 BY AbuseAssumption
  <1>2. f[0] + 1 \in Nat BY <1>1
  <1>3. QED BY <1>2 DEF OneMore

LEMMA CappedFits == ASSUME NEW n \in Nat PROVE Capped(n) \in 0..MaxScore
  BY AbuseAssumption DEF Capped

LEMMA RaisedFits ==
    ASSUME TypeInv, NEW q \in Conn, conn[q].pc \in Busy
    PROVE  Delta[Head(conn[q].todo)] \in Nat /\ Raised(q) \in 0..MaxScore
  <1>1. conn[q].todo \in Seq(Factors) /\ conn[q].todo # <<>> /\ conn[q].score \in 0..MaxScore
    BY DEF TypeInv, Fits, Ready, ConnType
  <1>2. Head(conn[q].todo) \in Factors BY <1>1
  <1>3. Delta[Head(conn[q].todo)] \in Nat BY <1>2, AbuseAssumption
  <1>4. PICK n \in Nat : n = conn[q].score + Delta[Head(conn[q].todo)] BY <1>1, <1>3
  <1>5. QED BY <1>3, <1>4, CappedFits DEF Raised

LEMMA LoginTypes ==
    ASSUME TypeInv, NEW q \in Conn, Login(q)
    PROVE  TypeInv'
  <1>0. /\ MemoryOK /\ RowsOK /\ PastOK /\ ConnsOK' /\ Fits(conn[q])
    BY LoginQuiet, MovesOK, TypeParts, RestFits DEF Quiet
  <1>1. CASE UNCHANGED <<memory, rows, past>>
    BY <1>0, <1>1, RestOK, TypePartsNext
  <1>2. CASE BlockedUntil(q)
    <2>1. conn[q].proxy \in Proxy BY <1>0, <1>2 DEF BlockedUntil, At, Fits, Ready
    <2>2. PICK n \in Nat : n = Cardinality(Trying(conn[q].proxy)) + 1
      <3>1. Trying(conn[q].proxy) \in SUBSET Conn BY DEF Trying
      <3>2. QED BY <3>1, ConnsFinite
    <2>3. trying' \in [Proxy -> Nat]
      BY <1>0, <1>2, <2>1, <2>2 DEF BlockedUntil, Bigger, PastOK
    <2>4. PastOK' BY <1>0, <1>2, <2>3 DEF BlockedUntil, PastOK
    <2>5. QED BY <1>0, <1>2, <2>4, RestOK, TypePartsNext DEF BlockedUntil
  <1>3. CASE RecordFailedAuth(q)
    <2>1. PICK p \in Proxy : p = conn[q].proxy
      BY <1>0, <1>3 DEF RecordFailedAuth, At, Fits, Ready
    <2>2. failed[p] \in [0..SuspendSpan - 1 -> Nat] BY <1>0 DEF MemoryOK
    <2>3. OneMore(failed[p]) \in [0..SuspendSpan - 1 -> Nat] BY <2>2, OneMoreFits
    <2>4. failed' = [failed EXCEPT ![p] = OneMore(@)] BY <1>3, <2>1 DEF RecordFailedAuth
    <2>5. MemoryOK' BY <1>0, <1>3, <2>3, <2>4 DEF RecordFailedAuth, MemoryOK
    <2>6. UNCHANGED <<rows, past>> BY <1>3 DEF RecordFailedAuth
    <2>7. QED BY <1>0, <2>5, <2>6, RestOK, TypePartsNext
  <1>4. CASE Enforce(q)
    <2>1. PICK p \in Proxy : p = conn[q].proxy BY <1>0, <1>4 DEF Enforce, At, Fits, Ready
    <2>2. BlockSpan + 1 \in 0..BlockSpan + 1 BY AbuseAssumption
    <2>3. blocked' \in [Proxy -> 0..BlockSpan + 1]
      BY <1>0, <1>4, <2>1, <2>2 DEF Enforce, BlockFor, MemoryOK
    <2>4. MemoryOK' BY <1>0, <1>4, <2>3 DEF Enforce, MemoryOK
    <2>5. cred' \in [Proxy -> {"active", "suspended"}]
      BY <1>0, <1>4, <2>1 DEF Enforce, RowsOK
    <2>6. RowsOK' BY <1>0, <1>4, <2>5 DEF Enforce, RowsOK
    <2>7. UNCHANGED past BY <1>4 DEF Enforce
    <2>8. QED BY <1>0, <2>4, <2>6, <2>7, RestOK, TypePartsNext
  <1>5. CASE SaveScore(q)
    <2>1. PICK x \in Customer \cup Proxy : x = conn[q].scored
      BY <1>0, <1>5 DEF SaveScore, At, Fits, Ready
    <2>2. Delta[Head(conn[q].todo)] \in Nat /\ Raised(q) \in 0..MaxScore
      BY <1>5, RaisedFits DEF SaveScore, At, Busy
    <2>3. Capped(due[x] + Delta[Head(conn[q].todo)]) \in 0..MaxScore
      BY <1>0, <2>2, CappedFits DEF PastOK
    <2>4. risk' \in [Customer \cup Proxy -> 0..MaxScore]
      BY <1>0, <1>5, <2>1, <2>2 DEF SaveScore, RowsOK
    <2>5. due' \in [Customer \cup Proxy -> 0..MaxScore]
      BY <1>0, <1>5, <2>1, <2>3 DEF SaveScore, PastOK
    <2>6. raced' \subseteq Customer \cup Proxy
      BY <1>0, <1>5, <2>1 DEF SaveScore, Touched, PastOK
    <2>7. RowsOK' BY <1>0, <1>5, <2>4 DEF SaveScore, RowsOK
    <2>8. PastOK' BY <1>0, <1>5, <2>5, <2>6 DEF SaveScore, PastOK
    <2>9. UNCHANGED memory BY <1>5 DEF SaveScore
    <2>10. QED BY <1>0, <2>7, <2>8, <2>9, RestOK, TypePartsNext
  <1>6. QED
    BY <1>1, <1>2, <1>3, <1>4, <1>5
       DEF Login, Accept, CheckCredential, ClientAllowed, ServedForNobody, Return, ReadScore

LEMMA ServeTypes ==
    ASSUME TypeInv, NEW q \in Conn, Serve(q)
    PROVE  TypeInv'
  <1>0. /\ MemoryOK /\ RowsOK /\ PastOK /\ Fits(conn[q])
    BY TypeParts, RestFits
  <1>1. ConnsOK'
    BY ServeQuiet, LimitsFits, CountFits, ReleaseFits, MovesOK DEF Serve, Quiet
  <1>2. CASE UNCHANGED <<memory, rows, past>>
    BY <1>0, <1>1, <1>2, RestOK, TypePartsNext
  <1>3. CASE CheckConnectionLimits(q)
    <2>1. PICK c \in Customer : c = conn[q].who BY <1>3, LimitsFits
    <2>2. PICK n \in Nat : n = Cardinality(Passing(c)) + 1
      <3>1. Passing(c) \in SUBSET Conn BY DEF Passing
      <3>2. QED BY <3>1, ConnsFinite
    <2>3. passing' \in [Customer -> Nat]
      BY <1>0, <1>3, <2>1, <2>2 DEF CheckConnectionLimits, Bigger, PastOK
    <2>4. PastOK' BY <1>0, <1>3, <2>3 DEF CheckConnectionLimits, PastOK
    <2>5. UNCHANGED <<memory, rows>> BY <1>3 DEF CheckConnectionLimits
    <2>6. QED BY <1>0, <1>1, <2>4, <2>5, RestOK, TypePartsNext
  <1>4. CASE GuardConnection(q)
    <2>1. PICK c \in Customer, p \in Proxy : c = conn[q].who /\ p = conn[q].proxy BY <1>4, CountFits
    <2>2. active' \in [Customer -> Nat] /\ busy' \in [Proxy -> Nat]
      BY <1>0, <1>4, <2>1 DEF GuardConnection, MemoryOK
    <2>3. MemoryOK' BY <1>0, <1>4, <2>2 DEF GuardConnection, MemoryOK
    <2>4. UNCHANGED <<rows, past>> BY <1>4 DEF GuardConnection
    <2>5. QED BY <1>0, <1>1, <2>3, <2>4, RestOK, TypePartsNext
  <1>5. CASE RecordUsage(q)
    <2>1. UNCHANGED memory BY <1>5 DEF RecordUsage
    <2>2. conn[q].who # Nobody => conn[q].who \in Customer /\ conn[q].proxy \in Proxy
      BY <1>0, <1>5 DEF RecordUsage, At, Fits, Ready, ConnType
    <2>3. metered' \subseteq Proxy \X Customer /\ moved' \subseteq Customer \X Proxy
      BY <1>0, <1>5, <2>2 DEF RecordUsage, RowsOK, PastOK
    <2>4. RowsOK' BY <1>0, <1>5, <2>3 DEF RecordUsage, RowsOK
    <2>5. PastOK' BY <1>0, <1>5, <2>3 DEF RecordUsage, PastOK
    <2>6. QED BY <1>0, <1>1, <2>1, <2>4, <2>5, RestOK, TypePartsNext
  <1>6. CASE Release(q)
    <2>1. active' \in [Customer -> Nat] /\ busy' \in [Proxy -> Nat]
      <3>1. CASE conn[q].who = Nobody
        BY <1>0, <1>6, <3>1 DEF Release, Released, MemoryOK
      <3>2. CASE conn[q].who # Nobody
        <4>1. PICK c \in Customer, p \in Proxy : c = conn[q].who /\ p = conn[q].proxy
          BY <1>6, <3>2, ReleaseFits
        <4>2. /\ active' = [active EXCEPT ![c] = IF @ > 0 THEN @ - 1 ELSE 0]
              /\ busy' = [busy EXCEPT ![p] = IF @ > 0 THEN @ - 1 ELSE 0]
          BY <1>6, <3>2, <4>1 DEF Release, Released
        <4>3. QED BY <1>0, <4>2 DEF MemoryOK
      <3>3. QED BY <3>1, <3>2
    <2>2. MemoryOK' BY <1>0, <1>6, <2>1 DEF Release, MemoryOK
    <2>3. UNCHANGED <<rows, past>> BY <1>6 DEF Release
    <2>4. QED BY <1>0, <1>1, <2>2, <2>3, RestOK, TypePartsNext
  <1>7. QED
    BY <1>2, <1>3, <1>4, <1>5, <1>6 DEF Serve, GuardTarget, Dial, DialFails, BridgeEnds

LEMMA BesideTypes ==
    ASSUME TypeInv,
           \/ \E p \in Proxy : DisableCredential(p)
           \/ \E c \in Customer : ClearRisk(c) \/ SubscriptionEnds(c) \/ SubscriptionStarts(c)
           \/ Tick
           \/ Crash
           \/ UNCHANGED vars
    PROVE  TypeInv'
  <1>0. MemoryOK /\ RowsOK /\ PastOK /\ ConnsOK BY TypeParts
  <1>1. ASSUME UNCHANGED conn PROVE ConnsOK' BY <1>0, <1>1 DEF ConnsOK, Fits, Ready, ConnType
  <1>2. ASSUME NEW p \in Proxy, DisableCredential(p) PROVE TypeInv'
    <2>1. RowsOK' BY <1>0, <1>2 DEF DisableCredential, RowsOK
    <2>2. UNCHANGED <<memory, past, conn>> BY <1>2 DEF DisableCredential
    <2>3. QED BY <1>0, <1>1, <2>1, <2>2, RestOK, TypePartsNext
  <1>3. ASSUME NEW c \in Customer, ClearRisk(c) PROVE TypeInv'
    <2>1. 0 \in 0..MaxScore BY AbuseAssumption
    <2>2. RowsOK' BY <1>0, <1>3, <2>1 DEF ClearRisk, RowsOK
    <2>3. PastOK' BY <1>0, <1>3, <2>1 DEF ClearRisk, Touched, PastOK
    <2>4. UNCHANGED <<memory, conn>> BY <1>3 DEF ClearRisk
    <2>5. QED BY <1>0, <1>1, <2>2, <2>3, <2>4, RestOK, TypePartsNext
  <1>4. ASSUME NEW c \in Customer, SubscriptionEnds(c) PROVE TypeInv'
    <2>1. RowsOK' BY <1>0, <1>4 DEF SubscriptionEnds, RowsOK
    <2>2. PastOK' BY <1>0, <1>4 DEF SubscriptionEnds, PastOK
    <2>3. UNCHANGED <<memory, conn>> BY <1>4 DEF SubscriptionEnds
    <2>4. QED BY <1>0, <1>1, <2>1, <2>2, <2>3, RestOK, TypePartsNext
  <1>5. ASSUME NEW c \in Customer, SubscriptionStarts(c) PROVE TypeInv'
    <2>1. RowsOK' BY <1>0, <1>5 DEF SubscriptionStarts, RowsOK
    <2>2. UNCHANGED <<memory, past, conn>> BY <1>5 DEF SubscriptionStarts
    <2>3. QED BY <1>0, <1>1, <2>1, <2>2, RestOK, TypePartsNext
  <1>6. CASE Tick
    <2>1. failed' \in [Proxy -> [0..SuspendSpan - 1 -> Nat]]
      <3>1. ASSUME NEW p \in Proxy, NEW a \in 0..SuspendSpan - 1
            PROVE  (IF a = 0 THEN 0 ELSE failed[p][a - 1]) \in Nat
        <4>1. failed[p] \in [0..SuspendSpan - 1 -> Nat] BY <1>0 DEF MemoryOK
        <4>2. a # 0 => a - 1 \in 0..SuspendSpan - 1 BY AbuseAssumption
        <4>3. QED BY <4>1, <4>2
      <3>2. QED BY <1>6, <3>1 DEF Tick
    <2>2. blocked' \in [Proxy -> 0..BlockSpan + 1]
      <3>1. ASSUME NEW p \in Proxy PROVE (IF blocked[p] > 0 THEN blocked[p] - 1 ELSE 0) \in 0..BlockSpan + 1
        BY <1>0, AbuseAssumption DEF MemoryOK
      <3>2. QED BY <1>6, <3>1 DEF Tick
    <2>3. MemoryOK' BY <1>0, <1>6, <2>1, <2>2 DEF Tick, MemoryOK
    <2>4. UNCHANGED <<rows, past, conn>> BY <1>6 DEF Tick
    <2>5. QED BY <1>0, <1>1, <2>3, <2>4, RestOK, TypePartsNext
  <1>7. CASE Crash
    <2>1. 0 \in 0..BlockSpan + 1 BY AbuseAssumption
    <2>2. MemoryOK' BY <1>7, <2>1 DEF Crash, MemoryOK
    <2>3. ConnsOK' BY <1>7, IdleFits DEF Crash, ConnsOK, Fits, Ready, ConnType
    <2>4. UNCHANGED <<rows, past>> BY <1>7 DEF Crash
    <2>5. QED BY <1>0, <2>2, <2>3, <2>4, RestOK, TypePartsNext
  <1>8. CASE UNCHANGED vars BY <1>0, <1>1, <1>8, RestOK, TypePartsNext DEF vars
  <1>9. QED BY <1>2, <1>3, <1>4, <1>5, <1>6, <1>7, <1>8

LEMMA TypeStep == TypeInv /\ [Next]_vars => TypeInv'
  BY LoginTypes, ServeTypes, BesideTypes DEF Next

LEMMA TypeInit == Init => TypeInv
  <1> SUFFICES ASSUME Init PROVE TypeInv
    OBVIOUS
  <1>1. /\ 0 \in 0..BlockSpan + 1 /\ 0 \in 0..MaxScore
        /\ Limit \in {0, Limit}
    BY AbuseAssumption
  <1>2. MemoryOK BY <1>1 DEF Init, MemoryOK
  <1>3. RowsOK BY <1>1 DEF Init, RowsOK
  <1>4. PastOK BY <1>1 DEF Init, PastOK
  <1>5. ConnsOK BY IdleFits DEF Init, ConnsOK
  <1>6. QED BY <1>2, <1>3, <1>4, <1>5, TypeParts

\* The type invariant (TypeOK of AbuseGuard): who is counted, or about to be,
\* has a customer, whichever way the connection came.
THEOREM TypeCorrect == Spec => []TypeOK
  <1>1. TypeInv => TypeOK BY DEF TypeInv
  <1>2. QED BY <1>1, TypeInit, TypeStep, PTL DEF Spec
-----------------------------------------------------------------------------
(* The counters.                                                           *)

\* The connections that are counted for a customer, and for a proxy.
On(p) == {q \in Conn : q \in Carried /\ conn[q].proxy = p}

LEMMA CountersOf ==
    CountersMatch <=> /\ \A c \in Customer : active[c] = Cardinality(Open(c))
                      /\ \A p \in Proxy : busy[p] = Cardinality(On(p))
  <1>1. \A p \in Proxy : On(p) = {q \in Counted : conn[q].who # Nobody /\ conn[q].proxy = p}
    BY DEF On, Carried, Counted
  <1>2. QED BY <1>1 DEF CountersMatch

LEMMA CountersNext ==
    CountersMatch' <=> /\ \A c \in Customer : active'[c] = Cardinality(Open(c)')
                       /\ \A p \in Proxy : busy'[p] = Cardinality(On(p)')
  <1>1. \A p \in Proxy : On(p)' = {q \in Counted' : conn'[q].who # Nobody /\ conn'[q].proxy = p}
    BY DEF On, Carried, Counted
  <1>2. QED BY <1>1 DEF CountersMatch

LEMMA OpenFits ==
    ASSUME NEW c \in Customer
    PROVE  /\ Open(c) = {q \in Conn : q \in Carried /\ conn[q].who = c}
           /\ Open(c)' = {q \in Conn : q \in Carried' /\ conn'[q].who = c}
  <1>1. c # Nobody BY AbuseAssumption
  <1>2. QED BY <1>1 DEF Open, Carried, Counted

\* Who is counted, and for whom, is as before.
LEMMA CountersRest ==
    ASSUME CountersMatch, UNCHANGED <<active, busy>>,
           \A q \in Conn : /\ q \in Carried' <=> q \in Carried
                           /\ q \in Carried => Stays(q)
    PROVE  CountersMatch'
  <1>1. ASSUME NEW c \in Customer PROVE Open(c)' = Open(c) BY OpenFits DEF Stays
  <1>2. ASSUME NEW p \in Proxy PROVE On(p)' = On(p) BY DEF On, Stays
  <1>3. QED BY <1>1, <1>2, CountersOf, CountersNext

LEMMA OthersCarried ==
    ASSUME NEW q \in Conn, Moves(q), NEW r \in Conn \ {q}
    PROVE  (r \in Carried' <=> r \in Carried) /\ Stays(r)
  BY CarriedFits DEF Moves, Stays

LEMMA CountersQuiet ==
    ASSUME CountersMatch, UNCHANGED <<active, busy>>, NEW q \in Conn, Moves(q),
           q \in Carried' <=> q \in Carried, q \in Carried => Stays(q)
    PROVE  CountersMatch'
  BY CountersRest, OthersCarried

LEMMA CountersCount ==
    ASSUME TypeInv, CountersMatch, NEW q \in Conn, GuardConnection(q)
    PROVE  CountersMatch'
  <1>1. PICK c \in Customer, p \in Proxy : c = conn[q].who /\ p = conn[q].proxy BY CountFits
  <1>2. Moves(q) /\ Stays(q) /\ q \notin Carried /\ q \in Carried' BY CountFits
  <1>3. active' = [active EXCEPT ![c] = @ + 1] /\ busy' = [busy EXCEPT ![p] = @ + 1]
    BY <1>1 DEF GuardConnection
  <1>4. active \in [Customer -> Nat] /\ busy \in [Proxy -> Nat] BY DEF TypeInv, TypeOK
  <1>5. ASSUME NEW d \in Customer PROVE active'[d] = Cardinality(Open(d)')
    <2>1. CASE d = c
      <3>1. Open(d)' = Open(d) \cup {q} /\ q \notin Open(d)
        BY <1>1, <1>2, <2>1, OpenFits, OthersCarried DEF Stays
      <3>2. IsFiniteSet(Open(d)) /\ Cardinality(Open(d)) = active[d] BY OpenFits, ConnsFinite, CountersOf
      <3>3. QED BY <1>3, <1>4, <2>1, <3>1, <3>2, FS_AddElement
    <2>2. CASE d # c
      <3>1. ASSUME NEW r \in Conn PROVE r \in Open(d)' <=> r \in Open(d)
        <4>1. CASE r = q BY <1>1, <1>2, <2>2, <4>1, OpenFits DEF Stays
        <4>2. CASE r # q
          <5>1. (r \in Carried' <=> r \in Carried) /\ Stays(r) BY <1>2, <4>2, OthersCarried
          <5>2. QED BY <5>1, OpenFits DEF Stays
        <4>3. QED BY <4>1, <4>2
      <3>2. Open(d)' = Open(d) BY <3>1, OpenFits
      <3>3. QED BY <1>3, <1>4, <2>2, <3>2, CountersOf
    <2>3. QED BY <2>1, <2>2
  <1>6. ASSUME NEW r \in Proxy PROVE busy'[r] = Cardinality(On(r)')
    <2>1. CASE r = p
      <3>1. On(r)' = On(r) \cup {q} /\ q \notin On(r)
        BY <1>1, <1>2, <2>1, OthersCarried DEF On, Stays
      <3>2. On(r) \in SUBSET Conn BY DEF On
      <3>3. IsFiniteSet(On(r)) /\ Cardinality(On(r)) = busy[r] BY <3>2, ConnsFinite, CountersOf
      <3>4. QED BY <1>3, <1>4, <2>1, <3>1, <3>3, FS_AddElement
    <2>2. CASE r # p
      <3>1. On(r)' = On(r) BY <1>1, <1>2, <2>2, OthersCarried DEF On, Stays
      <3>2. QED BY <1>3, <1>4, <2>2, <3>1, CountersOf
    <2>3. QED BY <2>1, <2>2
  <1>7. QED BY <1>5, <1>6, CountersNext

LEMMA CountersRelease ==
    ASSUME TypeInv, CountersMatch, NEW q \in Conn, Release(q)
    PROVE  CountersMatch'
  <1>1. CASE conn[q].who = Nobody
    <2>1. UNCHANGED <<active, busy>> BY <1>1 DEF Release, Released
    <2>2. QED BY <1>1, <2>1, ReleaseFits, CountersQuiet
  <1>2. CASE conn[q].who # Nobody
    <2>1. PICK c \in Customer, p \in Proxy : c = conn[q].who /\ p = conn[q].proxy BY <1>2, ReleaseFits
    <2>2. Moves(q) /\ q \in Carried /\ q \notin Carried' BY <1>2, ReleaseFits
    <2>3. /\ active' = [active EXCEPT ![c] = IF @ > 0 THEN @ - 1 ELSE 0]
          /\ busy' = [busy EXCEPT ![p] = IF @ > 0 THEN @ - 1 ELSE 0]
      BY <1>2, <2>1 DEF Release, Released
    <2>4. active \in [Customer -> Nat] /\ busy \in [Proxy -> Nat] BY DEF TypeInv, TypeOK
    <2>5. ASSUME NEW d \in Customer PROVE active'[d] = Cardinality(Open(d)')
      <3>1. CASE d = c
        <4>1. Open(d)' = Open(d) \ {q} /\ q \in Open(d)
          BY <2>1, <2>2, <3>1, OpenFits, OthersCarried DEF Stays
        <4>2. IsFiniteSet(Open(d)) /\ Cardinality(Open(d)) = active[d] BY OpenFits, ConnsFinite, CountersOf
        <4>3. Cardinality(Open(d)') = active[d] - 1 BY <4>1, <4>2, FS_RemoveElement
        <4>4. active[d] # 0 BY <4>1, <4>2, FS_EmptySet
        <4>5. QED BY <2>3, <2>4, <3>1, <4>3, <4>4
      <3>2. CASE d # c
        <4>1. ASSUME NEW r \in Conn PROVE r \in Open(d)' <=> r \in Open(d)
          <5>1. CASE r = q BY <2>1, <2>2, <3>2, <5>1, OpenFits
          <5>2. CASE r # q
            <6>1. (r \in Carried' <=> r \in Carried) /\ Stays(r) BY <2>2, <5>2, OthersCarried
            <6>2. QED BY <6>1, OpenFits DEF Stays
          <5>3. QED BY <5>1, <5>2
        <4>2. Open(d)' = Open(d) BY <4>1, OpenFits
        <4>3. QED BY <2>3, <2>4, <3>2, <4>2, CountersOf
      <3>3. QED BY <3>1, <3>2
    <2>6. ASSUME NEW r \in Proxy PROVE busy'[r] = Cardinality(On(r)')
      <3>1. CASE r = p
        <4>1. On(r)' = On(r) \ {q} /\ q \in On(r)
          BY <2>1, <2>2, <3>1, OthersCarried DEF On, Stays
        <4>2. On(r) \in SUBSET Conn BY DEF On
        <4>3. IsFiniteSet(On(r)) /\ Cardinality(On(r)) = busy[r] BY <4>2, ConnsFinite, CountersOf
        <4>4. Cardinality(On(r)') = busy[r] - 1 BY <4>1, <4>3, FS_RemoveElement
        <4>5. busy[r] # 0 BY <4>1, <4>3, FS_EmptySet
        <4>6. QED BY <2>3, <2>4, <3>1, <4>4, <4>5
      <3>2. CASE r # p
        <4>1. On(r)' = On(r) BY <2>1, <2>2, <3>2, OthersCarried DEF On, Stays
        <4>2. QED BY <2>3, <2>4, <3>2, <4>1, CountersOf
      <3>3. QED BY <3>1, <3>2
    <2>7. QED BY <2>5, <2>6, CountersNext
  <1>3. QED BY <1>1, <1>2

LEMMA CountersCrash ==
    ASSUME Crash
    PROVE  CountersMatch'
  <1>1. \A q \in Conn : q \notin Carried' BY CarriedFits, IdleFits DEF Crash, Idle
  <1>2. ASSUME NEW c \in Customer PROVE Open(c)' = {} BY <1>1, OpenFits
  <1>3. ASSUME NEW p \in Proxy PROVE On(p)' = {} BY <1>1 DEF On
  <1>4. QED BY <1>2, <1>3, CountersNext, FS_EmptySet DEF Crash

LEMMA CountersInit == Init => CountersMatch
  <1> SUFFICES ASSUME Init PROVE CountersMatch
    OBVIOUS
  <1>1. \A q \in Conn : q \notin Carried BY CarriedFits DEF Init, Idle
  <1>2. ASSUME NEW c \in Customer PROVE Open(c) = {} BY <1>1, OpenFits
  <1>3. ASSUME NEW p \in Proxy PROVE On(p) = {} BY <1>1 DEF On
  <1>4. QED BY <1>2, <1>3, CountersOf, FS_EmptySet DEF Init

LEMMA CountersStep == TypeInv /\ CountersMatch /\ [Next]_vars => CountersMatch'
  <1> SUFFICES ASSUME TypeInv, CountersMatch, [Next]_vars PROVE CountersMatch'
    OBVIOUS
  <1>1. ASSUME NEW q \in Conn, Quiet(q), UNCHANGED <<active, busy>> PROVE CountersMatch'
    BY <1>1, CountersQuiet DEF Quiet
  <1>2. ASSUME NEW q \in Conn, Login(q) PROVE CountersMatch'
    <2>1. UNCHANGED <<active, busy>>
      BY <1>2 DEF Login, Accept, BlockedUntil, CheckCredential, RecordFailedAuth, ClientAllowed, ServedForNobody,
              Return, Enforce, ReadScore, SaveScore, memory
    <2>2. QED BY <1>1, <1>2, <2>1, LoginQuiet
  <1>3. ASSUME NEW q \in Conn, Serve(q) PROVE CountersMatch'
    <2>1. CASE GuardTarget(q) \/ Dial(q) \/ DialFails(q) \/ BridgeEnds(q) \/ RecordUsage(q)
      <3>1. UNCHANGED <<active, busy>>
        BY <2>1 DEF GuardTarget, Dial, DialFails, BridgeEnds, RecordUsage, memory
      <3>2. QED BY <1>1, <2>1, <3>1, ServeQuiet
    <2>2. CASE CheckConnectionLimits(q)
      <3>1. UNCHANGED <<active, busy>> BY <2>2 DEF CheckConnectionLimits, memory
      <3>2. QED BY <2>2, <3>1, LimitsFits, CountersQuiet
    <2>3. QED BY <1>3, <2>1, <2>2, CountersCount, CountersRelease DEF Serve
  <1>4. ASSUME UNCHANGED <<active, busy, conn>> PROVE CountersMatch'
    BY <1>4, CarriedFits, CountersRest DEF Stays
  <1>5. CASE Crash BY <1>5, CountersCrash
  <1>6. QED
    BY <1>2, <1>3, <1>4, <1>5
       DEF Next, DisableCredential, ClearRisk, SubscriptionEnds, SubscriptionStarts, Tick, vars, memory
-----------------------------------------------------------------------------
(* The limit.                                                              *)

LEMMA LimitsStep == TypeInv /\ LimitsFit /\ [Next]_vars => LimitsFit'
  <1> SUFFICES ASSUME TypeInv, LimitsFit, [Next]_vars PROVE LimitsFit'
    OBVIOUS
  <1>1. CASE UNCHANGED <<limit, lapsed>> BY <1>1 DEF LimitsFit
  <1>2. ASSUME NEW c \in Customer, SubscriptionEnds(c) \/ SubscriptionStarts(c) PROVE LimitsFit'
    BY <1>2 DEF SubscriptionEnds, SubscriptionStarts, LimitsFit, TypeInv, TypeOK, past
  <1>3. ASSUME NEW q \in Conn, Login(q) PROVE UNCHANGED <<limit, lapsed>>
    BY <1>3 DEF Login, Accept, BlockedUntil, CheckCredential, RecordFailedAuth, ClientAllowed, ServedForNobody,
            Return, Enforce, ReadScore, SaveScore, rows, past
  <1>4. ASSUME NEW q \in Conn, Serve(q) PROVE UNCHANGED <<limit, lapsed>>
    BY <1>4 DEF Serve, GuardTarget, CheckConnectionLimits, GuardConnection, Dial, DialFails, BridgeEnds,
            RecordUsage, Release, rows, past
  <1>5. QED
    BY <1>1, <1>2, <1>3, <1>4 DEF Next, DisableCredential, ClearRisk, Tick, Crash, vars, rows, past

LEMMA PassingFits ==
    ASSUME NEW c \in Customer
    PROVE  /\ Passing(c) \in SUBSET Conn /\ IsFiniteSet(Passing(c)) /\ Cardinality(Passing(c)) \in Nat
           /\ \A r \in Conn : r \in Passing(c) <=> At(r, "count") /\ conn[r].who = c
           /\ Passing(c)' \in SUBSET Conn /\ IsFiniteSet(Passing(c)')
           /\ \A r \in Conn : r \in Passing(c)' <=> At(r, "count")' /\ conn'[r].who = c
  <1>1. Passing(c) \in SUBSET Conn /\ Passing(c)' \in SUBSET Conn BY DEF Passing
  <1>2. IsFiniteSet(Passing(c)) /\ Cardinality(Passing(c)) \in Nat /\ IsFiniteSet(Passing(c)')
    BY <1>1, ConnsFinite
  <1>3. QED BY <1>1, <1>2 DEF Passing

LEMMA OthersPass ==
    ASSUME NEW q \in Conn, Moves(q), NEW c \in Customer, NEW r \in Conn \ {q}
    PROVE  r \in Passing(c)' <=> r \in Passing(c)
  <1>1. conn'[r] = conn[r] BY DEF Moves
  <1>2. QED BY <1>1, PassingFits DEF At

LEMMA SamePass ==
    ASSUME NEW q \in Conn, Moves(q), NEW c \in Customer, q \in Passing(c)' <=> q \in Passing(c)
    PROVE  Passing(c)' = Passing(c)
  <1>1. ASSUME NEW r \in Conn PROVE r \in Passing(c)' <=> r \in Passing(c)
    <2>1. CASE r = q BY <2>1
    <2>2. CASE r # q BY <2>2, OthersPass
    <2>3. QED BY <2>1, <2>2
  <1>2. Passing(c) \subseteq Conn /\ Passing(c)' \subseteq Conn BY PassingFits
  <1>3. QED BY <1>1, <1>2

\* Nobody comes past the limit, and no more are counted.
LEMMA OvershootRest ==
    ASSUME TypeInv, TypeInv', LimitOvershoot, UNCHANGED passing, lapsed \subseteq lapsed',
           \A c \in Customer : active'[c] <= active[c] /\ Passing(c)' = Passing(c)
    PROVE  LimitOvershoot'
  <1> SUFFICES ASSUME NEW c \in Customer \ lapsed'
               PROVE  active'[c] + Cardinality(Passing(c)') + 1 <= Limit + (IF passing'[c] = 0 THEN 1 ELSE passing'[c])
    BY DEF LimitOvershoot
  <1>1. active[c] \in Nat /\ active'[c] \in Nat /\ passing[c] \in Nat /\ Limit \in Nat
        /\ Cardinality(Passing(c)) \in Nat
    BY PassingFits, AbuseAssumption DEF TypeInv, TypeOK
  <1>2. active[c] + Cardinality(Passing(c)) + 1 <= Limit + (IF passing[c] = 0 THEN 1 ELSE passing[c])
    BY DEF LimitOvershoot
  <1>3. active'[c] <= active[c] /\ Cardinality(Passing(c)') = Cardinality(Passing(c)) OBVIOUS
  <1>4. QED BY <1>1, <1>2, <1>3

LEMMA OvershootQuiet ==
    ASSUME TypeInv, TypeInv', LimitOvershoot, UNCHANGED passing, lapsed \subseteq lapsed',
           \A c \in Customer : active'[c] <= active[c],
           NEW q \in Conn, Moves(q), ~At(q, "count"), ~At(q, "count")'
    PROVE  LimitOvershoot'
  <1>1. ASSUME NEW c \in Customer PROVE Passing(c)' = Passing(c)
    <2>1. q \notin Passing(c) /\ q \notin Passing(c)' BY PassingFits
    <2>2. QED BY <2>1, SamePass
  <1>2. QED BY <1>1, OvershootRest

LEMMA OvershootCheck ==
    ASSUME TypeInv, TypeInv', LimitsFit, LimitOvershoot, NEW q \in Conn, CheckConnectionLimits(q)
    PROVE  LimitOvershoot'
  <1>1. PICK c \in Customer : c = conn[q].who BY LimitsFits
  <1>2. Moves(q) /\ Stays(q) /\ At(q, "limits") BY LimitsFits
  <1>3. UNCHANGED <<active, lapsed>> BY DEF CheckConnectionLimits, memory
  <1>4. \A d \in Customer : active[d] \in Nat /\ passing[d] \in Nat BY DEF TypeInv, TypeOK
  <1>5. CASE conn'[q].pc = "enforce" /\ UNCHANGED passing
    BY <1>2, <1>3, <1>4, <1>5, OvershootQuiet DEF At
  <1>6. CASE /\ conn'[q].pc = "count" /\ ~Exceeded(c)
             /\ passing' = [passing EXCEPT ![c] = Bigger(@, Cardinality(Passing(c)) + 1)]
    <2> SUFFICES ASSUME NEW d \in Customer \ lapsed'
                 PROVE  active'[d] + Cardinality(Passing(d)') + 1
                          <= Limit + (IF passing'[d] = 0 THEN 1 ELSE passing'[d])
      BY DEF LimitOvershoot
    <2>1. active[d] + Cardinality(Passing(d)) + 1 <= Limit + (IF passing[d] = 0 THEN 1 ELSE passing[d])
      BY <1>3 DEF LimitOvershoot
    <2>2. CASE d # c
      <3>1. Passing(d)' = Passing(d)
        <4>1. q \notin Passing(d) /\ q \notin Passing(d)'
          BY <1>1, <1>2, <2>2, PassingFits DEF At, Stays
        <4>2. QED BY <1>2, <4>1, SamePass
      <3>2. passing'[d] = passing[d] BY <1>6, <2>2 DEF TypeInv, TypeOK
      <3>3. QED BY <1>3, <2>1, <3>1, <3>2
    <2>3. CASE d = c
      <3>1. PICK n \in Nat : n = Cardinality(Passing(c)) BY PassingFits
      <3>2. Passing(c)' = Passing(c) \cup {q} /\ q \notin Passing(c)
        BY <1>1, <1>2, <1>6, PassingFits, OthersPass DEF At, Stays
      <3>3. Cardinality(Passing(c)') = n + 1 BY <3>1, <3>2, PassingFits, FS_AddElement
      <3>4. passing'[c] >= n + 1 /\ passing'[c] \in Nat
        BY <1>4, <1>6, <3>1 DEF Bigger, TypeInv, TypeOK
      <3>5. limit[c] = Limit /\ Limit \in Nat \ {0} BY <1>3, <2>3, AbuseAssumption DEF LimitsFit
      <3>6. active[c] < Limit BY <1>4, <1>6, <3>5 DEF Exceeded
      <3>7. QED BY <1>3, <1>4, <2>3, <3>1, <3>3, <3>4, <3>5, <3>6
    <2>4. QED BY <2>2, <2>3
  <1>7. QED BY <1>1, <1>5, <1>6, LimitsFits

LEMMA OvershootCount ==
    ASSUME TypeInv, TypeInv', LimitOvershoot, NEW q \in Conn, GuardConnection(q)
    PROVE  LimitOvershoot'
  <1>1. PICK c \in Customer : c = conn[q].who BY CountFits
  <1>2. Moves(q) /\ At(q, "count") /\ conn'[q].pc = "dial" BY CountFits
  <1>3. active' = [active EXCEPT ![c] = @ + 1] /\ UNCHANGED <<passing, lapsed>>
    BY <1>1 DEF GuardConnection, past
  <1> SUFFICES ASSUME NEW d \in Customer \ lapsed'
               PROVE  active'[d] + Cardinality(Passing(d)') + 1 <= Limit + (IF passing'[d] = 0 THEN 1 ELSE passing'[d])
    BY DEF LimitOvershoot
  <1>4. active[d] + Cardinality(Passing(d)) + 1 <= Limit + (IF passing[d] = 0 THEN 1 ELSE passing[d])
    BY <1>3 DEF LimitOvershoot
  <1>5. active \in [Customer -> Nat] /\ active[d] \in Nat BY DEF TypeInv, TypeOK
  <1>6. CASE d # c
    <2>1. Passing(d)' = Passing(d)
      <3>1. q \notin Passing(d) /\ q \notin Passing(d)'
        BY <1>1, <1>2, <1>6, PassingFits DEF At
      <3>2. QED BY <1>2, <3>1, SamePass
    <2>2. QED BY <1>3, <1>4, <1>5, <1>6, <2>1
  <1>7. CASE d = c
    <2>1. Passing(c)' = Passing(c) \ {q} /\ q \in Passing(c)
      BY <1>1, <1>2, PassingFits, OthersPass DEF At
    <2>2. PICK n \in Nat : n = Cardinality(Passing(c)) BY PassingFits
    <2>3. Cardinality(Passing(c)') = n - 1 BY <2>1, <2>2, PassingFits, FS_RemoveElement
    <2>4. active'[c] = active[c] + 1 BY <1>3, <1>5
    <2>5. passing[c] \in Nat /\ Limit \in Nat BY AbuseAssumption DEF TypeInv, TypeOK
    <2>6. QED BY <1>3, <1>4, <1>5, <1>7, <2>2, <2>3, <2>4, <2>5
  <1>8. QED BY <1>6, <1>7

LEMMA OvershootCrash ==
    ASSUME TypeInv, Crash
    PROVE  LimitOvershoot'
  <1> SUFFICES ASSUME NEW c \in Customer
               PROVE  active'[c] + Cardinality(Passing(c)') + 1 <= Limit + (IF passing'[c] = 0 THEN 1 ELSE passing'[c])
    BY DEF LimitOvershoot
  <1>1. Passing(c)' = {} BY PassingFits DEF Crash, At, Idle
  <1>2. active'[c] = 0 /\ passing'[c] \in Nat /\ Limit \in Nat
    BY AbuseAssumption DEF Crash, past, TypeInv, TypeOK
  <1>3. QED BY <1>1, <1>2, FS_EmptySet

LEMMA OvershootInit == Init => LimitOvershoot
  <1> SUFFICES ASSUME Init, NEW c \in Customer
               PROVE  active[c] + Cardinality(Passing(c)) + 1 <= Limit + (IF passing[c] = 0 THEN 1 ELSE passing[c])
    BY DEF LimitOvershoot
  <1>1. Passing(c) = {} BY PassingFits DEF Init, At, Idle
  <1>2. active[c] = 0 /\ passing[c] = 0 /\ Limit \in Nat BY AbuseAssumption DEF Init
  <1>3. QED BY <1>1, <1>2, FS_EmptySet

LEMMA OvershootStep == TypeInv /\ LimitsFit /\ LimitOvershoot /\ [Next]_vars => LimitOvershoot'
  <1> SUFFICES ASSUME TypeInv, LimitsFit, LimitOvershoot, [Next]_vars PROVE LimitOvershoot'
    OBVIOUS
  <1>0. TypeInv' /\ \A c \in Customer : active[c] \in Nat BY TypeStep DEF TypeInv, TypeOK
  <1>1. ASSUME NEW q \in Conn, Quiet(q), UNCHANGED <<active, passing, lapsed>> PROVE LimitOvershoot'
    BY <1>0, <1>1, OvershootQuiet DEF Quiet
  <1>2. ASSUME NEW q \in Conn, Login(q) PROVE LimitOvershoot'
    <2>1. UNCHANGED <<active, passing, lapsed>>
      BY <1>2 DEF Login, Accept, BlockedUntil, CheckCredential, RecordFailedAuth, ClientAllowed, ServedForNobody,
              Return, Enforce, ReadScore, SaveScore, memory, past
    <2>2. QED BY <1>1, <1>2, <2>1, LoginQuiet
  <1>3. ASSUME NEW q \in Conn, Serve(q) PROVE LimitOvershoot'
    <2>1. CASE GuardTarget(q) \/ Dial(q) \/ DialFails(q) \/ BridgeEnds(q) \/ RecordUsage(q)
      <3>1. UNCHANGED <<active, passing, lapsed>>
        BY <2>1 DEF GuardTarget, Dial, DialFails, BridgeEnds, RecordUsage, memory, past
      <3>2. QED BY <1>1, <2>1, <3>1, ServeQuiet
    <2>2. CASE Release(q)
      <3>1. UNCHANGED <<passing, lapsed>> BY <2>2 DEF Release, past
      <3>2. ASSUME NEW c \in Customer PROVE active'[c] <= active[c]
        <4>1. CASE conn[q].who = Nobody
          BY <1>0, <2>2, <4>1 DEF Release, Released
        <4>2. CASE conn[q].who # Nobody
          <5>1. active' = [active EXCEPT ![conn[q].who] = IF @ > 0 THEN @ - 1 ELSE 0]
            BY <2>2, <4>2 DEF Release, Released
          <5>2. active \in [Customer -> Nat] BY DEF TypeInv, TypeOK
          <5>3. QED BY <5>1, <5>2
        <4>3. QED BY <4>1, <4>2
      <3>3. Moves(q) /\ ~At(q, "count") /\ ~At(q, "count")' BY <2>2, ReleaseFits DEF At
      <3>4. QED BY <1>0, <3>1, <3>2, <3>3, OvershootQuiet
    <2>3. QED BY <1>0, <1>3, <2>1, <2>2, OvershootCheck, OvershootCount DEF Serve
  <1>4. ASSUME UNCHANGED <<active, passing, conn>>, lapsed \subseteq lapsed' PROVE LimitOvershoot'
    <2>1. \A c \in Customer : Passing(c)' = Passing(c) BY <1>4 DEF Passing, At
    <2>2. QED BY <1>0, <1>4, <2>1, OvershootRest
  <1>5. CASE Crash BY <1>5, OvershootCrash
  <1>6. QED
    BY <1>2, <1>3, <1>4, <1>5
       DEF Next, DisableCredential, ClearRisk, SubscriptionEnds, SubscriptionStarts, Tick, vars, memory, past
-----------------------------------------------------------------------------
(* The risk score.                                                         *)

\* No score changes, and q is not about to save one.
LEMMA ScoresRest ==
    ASSUME ScoresFit, RiskAccounted, UNCHANGED <<risk, due, raced>>,
           \A q \in Conn : At(q, "saveScore")' => conn'[q] = conn[q]
    PROVE  ScoresFit' /\ RiskAccounted'
  BY DEF ScoresFit, RiskAccounted, At

LEMMA ScoresQuiet ==
    ASSUME ScoresFit, RiskAccounted, UNCHANGED <<risk, due, raced>>,
           NEW q \in Conn, Moves(q), conn'[q].pc # "saveScore"
    PROVE  ScoresFit' /\ RiskAccounted'
  <1>1. \A r \in Conn : At(r, "saveScore")' => conn'[r] = conn[r] BY DEF Moves, At
  <1>2. QED BY <1>1, ScoresRest

LEMMA ScoresRead ==
    ASSUME TypeInv, ScoresFit, RiskAccounted, NEW q \in Conn, ReadScore(q)
    PROVE  ScoresFit' /\ RiskAccounted'
  <1>1. UNCHANGED <<risk, due, raced>> BY DEF ReadScore, rows, past
  <1>2. /\ Moves(q) /\ conn'[q].scored = conn[q].scored /\ conn'[q].score = risk[conn[q].scored]
    BY ReadFits
  <1>3. QED BY <1>1, <1>2 DEF ScoresFit, RiskAccounted, At, Moves

LEMMA ScoresSave ==
    ASSUME TypeInv, ScoresFit, RiskAccounted, NEW q \in Conn, SaveScore(q)
    PROVE  ScoresFit' /\ RiskAccounted'
  <1>0. At(q, "saveScore") /\ conn[q].pc \in Busy BY DEF SaveScore, At, Busy
  <1>1. PICK x \in Customer \cup Proxy : x = conn[q].scored
    BY <1>0, RestFits DEF At, Fits, Ready
  <1>2. Moves(q) /\ conn'[q].pc \in {"enforce", conn[q].next} BY <1>0, PoppedFits DEF SaveScore
  <1>3. conn'[q].pc # "saveScore" BY <1>2, RestFits
  <1>4. /\ risk' = [risk EXCEPT ![x] = Raised(q)]
        /\ due' = [due EXCEPT ![x] = Capped(@ + Delta[Head(conn[q].todo)])]
        /\ raced' = IF Scoring(x) \ {q} = {} THEN raced ELSE raced \cup {x}
    BY <1>1 DEF SaveScore, Touched
  <1>5. /\ risk \in [Customer \cup Proxy -> 0..MaxScore]
        /\ due \in [Customer \cup Proxy -> 0..MaxScore]
    BY DEF TypeInv, TypeOK
  <1>6. ASSUME NEW y \in (Customer \cup Proxy) \ raced' PROVE risk'[y] = due'[y]
    <2>1. y \notin raced /\ risk[y] = due[y] BY <1>4, <1>6 DEF RiskAccounted
    <2>2. CASE y = x
      <3>1. conn[q].score = risk[x] BY <1>0, <1>1, <2>1, <2>2 DEF ScoresFit
      <3>2. Raised(q) = Capped(due[x] + Delta[Head(conn[q].todo)]) BY <2>1, <2>2, <3>1 DEF Raised
      <3>3. QED BY <1>4, <1>5, <2>2, <3>2
    <2>3. CASE y # x BY <1>4, <1>5, <2>1, <2>3
    <2>4. QED BY <2>2, <2>3
  <1>7. ASSUME NEW r \in Conn, conn'[r].pc = "saveScore", conn'[r].scored \notin raced'
        PROVE  conn'[r].score = risk'[conn'[r].scored]
    <2>1. r # q /\ conn'[r] = conn[r] BY <1>2, <1>3, <1>7 DEF Moves
    <2>2. conn[r].scored \notin raced /\ conn[r].scored # x
      BY <1>4, <1>7, <2>1 DEF Scoring, At
    <2>3. conn[r].scored \in Customer \cup Proxy BY <1>7, <2>1, RestFits DEF Fits, Ready
    <2>4. risk'[conn[r].scored] = risk[conn[r].scored] BY <1>4, <1>5, <2>2, <2>3
    <2>5. QED BY <1>7, <2>1, <2>2, <2>4 DEF ScoresFit, At
  <1>8. QED BY <1>6, <1>7 DEF ScoresFit, RiskAccounted, At

LEMMA ScoresClear ==
    ASSUME TypeInv, ScoresFit, RiskAccounted, NEW c \in Customer, ClearRisk(c)
    PROVE  ScoresFit' /\ RiskAccounted'
  <1>1. /\ risk' = [risk EXCEPT ![c] = 0] /\ due' = [due EXCEPT ![c] = 0] /\ conn' = conn
        /\ raced' = IF Scoring(c) = {} THEN raced ELSE raced \cup {c}
    BY DEF ClearRisk, Touched
  <1>2. /\ risk \in [Customer \cup Proxy -> 0..MaxScore]
        /\ due \in [Customer \cup Proxy -> 0..MaxScore]
    BY DEF TypeInv, TypeOK
  <1>3. RiskAccounted' BY <1>1, <1>2 DEF RiskAccounted
  <1>4. ASSUME NEW r \in Conn, conn[r].pc = "saveScore", conn[r].scored \notin raced'
        PROVE  conn[r].score = risk'[conn[r].scored]
    <2>1. conn[r].scored \notin raced /\ conn[r].scored # c BY <1>1, <1>4 DEF Scoring, At
    <2>2. conn[r].scored \in Customer \cup Proxy BY <1>4, RestFits DEF Fits, Ready
    <2>3. QED BY <1>1, <1>2, <1>4, <2>1, <2>2 DEF ScoresFit, At
  <1>5. QED BY <1>1, <1>3, <1>4 DEF ScoresFit, At

\* Where a step of q leads that reads no score.
LEMMA NoScore ==
    ASSUME TypeInv, NEW q \in Conn, Login(q) \/ Serve(q), ~ReadScore(q)
    PROVE  Moves(q) /\ conn'[q].pc # "saveScore"
  <1>0. Moves(q) BY LoginQuiet, ServeQuiet, LimitsFits, CountFits, ReleaseFits DEF Serve, Quiet
  <1>1. conn[q] \in ConnType BY RestFits
  <1>2. ASSUME NEW pc \in Pcs, Goto(q, pc), pc # "saveScore" PROVE conn'[q].pc # "saveScore"
    BY <1>1, <1>2 DEF Goto, TypeInv, TypeOK, ConnType
  <1>3. ASSUME NEW x, NEW factors, NEW next, Punish(q, x, factors, next) PROVE conn'[q].pc # "saveScore"
    BY <1>1, <1>3 DEF Punish, TypeInv, TypeOK, ConnType
  <1>4. ASSUME conn[q].pc \in Busy, Popped(q) PROVE conn'[q].pc # "saveScore"
    BY <1>1, <1>4, PoppedFits DEF ConnType
  <1>5. ASSUME Done(q) PROVE conn'[q].pc # "saveScore" BY <1>5, DoneFits
  <1>6. ASSUME NEW p \in Proxy, Accept(q, p) PROVE conn'[q].pc # "saveScore" BY <1>6, AcceptFits
  <1>7. ASSUME NEW pc \in Pcs, NEW who, pc # "saveScore", conn' = [conn EXCEPT ![q] = [@ EXCEPT !.pc = pc, !.who = who]]
        PROVE  conn'[q].pc # "saveScore"
    BY <1>1, <1>7 DEF TypeInv, TypeOK, ConnType
  <1>8. ASSUME Login(q) PROVE conn'[q].pc # "saveScore"
    <2>1. CASE CheckCredential(q)
      <3>1. PICK pc \in {"whitelist", "failed"} :
                \/ conn' = [conn EXCEPT ![q] = [@ EXCEPT !.pc = pc, !.who = Owner[conn[q].proxy]]]
                \/ Goto(q, pc)
        BY <2>1, Zenon DEF CheckCredential
      <3>2. pc \in Pcs /\ pc # "saveScore" BY DEF Pcs
      <3>3. QED BY <1>2, <1>7, <3>1, <3>2
    <2>2. CASE Enforce(q) BY <1>2, <1>4, <2>2 DEF Enforce, At, Busy, Pcs
    <2>3. CASE SaveScore(q) BY <1>4, <2>3 DEF SaveScore, At, Busy
    <2>4. CASE BlockedUntil(q) \/ RecordFailedAuth(q) \/ ClientAllowed(q)
      BY <1>2, <1>3, <2>4 DEF BlockedUntil, RecordFailedAuth, ClientAllowed, Pcs
    <2>5. CASE ServedForNobody(q) BY <1>7, <2>5 DEF ServedForNobody, Pcs
    <2>6. CASE Return(q) BY <1>5, <2>6 DEF Return
    <2>7. QED BY <1>6, <1>8, <2>1, <2>2, <2>3, <2>4, <2>5, <2>6 DEF Login
  <1>9. ASSUME Serve(q) PROVE conn'[q].pc # "saveScore"
    <2>1. CASE GuardTarget(q) \/ CheckConnectionLimits(q) \/ RecordUsage(q)
      BY <1>2, <1>3, <2>1 DEF GuardTarget, CheckConnectionLimits, RecordUsage, Pcs
    <2>2. CASE GuardConnection(q) \/ Dial(q) \/ DialFails(q) \/ BridgeEnds(q)
      BY <1>2, <2>2 DEF GuardConnection, Dial, DialFails, BridgeEnds, Pcs
    <2>3. CASE Release(q) BY <1>5, <2>3 DEF Release
    <2>4. QED BY <1>9, <2>1, <2>2, <2>3 DEF Serve
  <1>10. QED BY <1>0, <1>8, <1>9

LEMMA ScoresStep == TypeInv /\ ScoresFit /\ RiskAccounted /\ [Next]_vars => ScoresFit' /\ RiskAccounted'
  <1> SUFFICES ASSUME TypeInv, ScoresFit, RiskAccounted, [Next]_vars PROVE ScoresFit' /\ RiskAccounted'
    OBVIOUS
  <1>1. ASSUME NEW q \in Conn, Login(q) \/ Serve(q), ~ReadScore(q), ~SaveScore(q)
        PROVE  ScoresFit' /\ RiskAccounted'
    <2>1. CASE Login(q)
      <3>1. UNCHANGED <<risk, due, raced>>
        BY <1>1, <2>1 DEF Login, Accept, BlockedUntil, CheckCredential, RecordFailedAuth, ClientAllowed,
                ServedForNobody, Return, Enforce, rows, past
      <3>2. QED BY <1>1, <3>1, NoScore, ScoresQuiet
    <2>2. CASE Serve(q)
      <3>1. UNCHANGED <<risk, due, raced>>
        BY <2>2 DEF Serve, GuardTarget, CheckConnectionLimits, GuardConnection, Dial, DialFails, BridgeEnds,
                RecordUsage, Release, rows, past
      <3>2. QED BY <1>1, <3>1, NoScore, ScoresQuiet
    <2>3. QED BY <1>1, <2>1, <2>2
  <1>2. ASSUME UNCHANGED <<risk, due, raced, conn>> PROVE ScoresFit' /\ RiskAccounted'
    BY <1>2, ScoresRest
  <1>3. CASE Crash
    <2>1. \A q \in Conn : At(q, "saveScore")' => conn'[q] = conn[q] BY <1>3 DEF Crash, At, Idle
    <2>2. UNCHANGED <<risk, due, raced>> BY <1>3 DEF Crash, rows, past
    <2>3. QED BY <2>1, <2>2, ScoresRest
  <1>4. QED
    BY <1>1, <1>2, <1>3, ScoresRead, ScoresSave, ScoresClear
       DEF Next, DisableCredential, SubscriptionEnds, SubscriptionStarts, Tick, vars, rows, past
-----------------------------------------------------------------------------
(* The failures of the logins.                                             *)

LEMMA SetsFinite ==
    ASSUME NEW p \in Proxy
    PROVE  /\ \A f : IsFiniteSet(Pending(p, f)) /\ Cardinality(Pending(p, f)) \in Nat
           /\ \A f : IsFiniteSet(Pending(p, f)') /\ Cardinality(Pending(p, f)') \in Nat
           /\ IsFiniteSet(Entering(p)) /\ Cardinality(Entering(p)) \in Nat
           /\ IsFiniteSet(Entering(p)') /\ Cardinality(Entering(p)') \in Nat
  <1>1. \A f : Pending(p, f) \in SUBSET Conn /\ Pending(p, f)' \in SUBSET Conn BY DEF Pending
  <1>2. Entering(p) \in SUBSET Conn /\ Entering(p)' \in SUBSET Conn BY DEF Entering
  <1>3. QED BY <1>1, <1>2, ConnsFinite

LEMMA FailuresNext == \A p, s : Failures(p, s)' = SumFunctionOnSet(failed'[p], 0..s - 1)
  BY DEF Failures

LEMMA FailuresOf ==
    ASSUME TypeInv, NEW p \in Proxy, NEW s \in 0..SuspendSpan
    PROVE  /\ Failures(p, s) \in Nat
           /\ \A r \in 0..s : Failures(p, r) <= Failures(p, s)
  <1>1. IsFiniteSet(0..s - 1)
    <2>1. 0 \in Int /\ s - 1 \in Int BY AbuseAssumption
    <2>2. QED BY <2>1, FS_Interval
  <1>2. \A a \in 0..s - 1 : failed[p][a] \in Nat
    <2>1. failed[p] \in [0..SuspendSpan - 1 -> Nat] BY DEF TypeInv, TypeOK
    <2>2. \A a \in 0..s - 1 : a \in 0..SuspendSpan - 1 BY AbuseAssumption
    <2>3. QED BY <2>1, <2>2
  <1>3. \A r \in 0..s : 0..r - 1 \in SUBSET (0..s - 1) BY AbuseAssumption
  <1>4. QED BY <1>1, <1>2, <1>3, SumType, SumOfSubset DEF Failures

\* One more failure at p.
LEMMA FailuresAdded ==
    ASSUME TypeInv, NEW p \in Proxy, failed' = [failed EXCEPT ![p] = OneMore(@)],
           NEW s \in 1..SuspendSpan, NEW r \in Proxy
    PROVE  Failures(r, s)' = IF r = p THEN Failures(p, s) + 1 ELSE Failures(r, s)
  <1>1. failed \in [Proxy -> [0..SuspendSpan - 1 -> Nat]] BY DEF TypeInv, TypeOK
  <1>2. CASE r # p
    <2>1. failed'[r] = failed[r] BY <1>1, <1>2
    <2>2. QED BY <1>2, <2>1, FailuresNext DEF Failures
  <1>3. CASE r = p
    <2>1. failed'[p] = OneMore(failed[p]) BY <1>1
    <2>2. \A a \in 0..s - 1 : failed[p][a] \in Nat BY <1>1, AbuseAssumption
    <2>3. \A a \in 0..s - 1 : failed'[p][a] = IF a = 0 THEN failed[p][a] + 1 ELSE failed[p][a]
      BY <1>1, <2>1, AbuseAssumption DEF OneMore
    <2>4. 0 \in 0..s - 1 /\ IsFiniteSet(0..s - 1)
      <3>1. 0 \in Int /\ s - 1 \in Int BY AbuseAssumption
      <3>2. 0 \in 0..s - 1 BY AbuseAssumption
      <3>3. QED BY <3>1, <3>2, FS_Interval
    <2> DEFINE f == failed[p]  g == failed'[p]
    <2>5. SumFunctionOnSet(g, 0..s - 1) = SumFunctionOnSet(f, 0..s - 1) + 1
      <3>1. \A a \in 0..s - 1 : f[a] \in Nat BY <2>2
      <3>2. \A a \in 0..s - 1 : g[a] = IF a = 0 THEN f[a] + 1 ELSE f[a] BY <2>3
      <3> HIDE DEF f, g
      <3>3. QED BY <2>4, <3>1, <3>2, SumOneMore
    <2>6. QED BY <1>3, <2>5, FailuresNext DEF Failures
  <1>4. QED BY <1>2, <1>3

\* A tick later.
LEMMA FailuresAged ==
    ASSUME TypeInv, Tick, NEW p \in Proxy, NEW s \in 1..SuspendSpan
    PROVE  Failures(p, s)' <= Failures(p, s - 1)
  <1> DEFINE f == failed[p]  g == failed'[p]
  <1>1. failed \in [Proxy -> [0..SuspendSpan - 1 -> Nat]] BY DEF TypeInv, TypeOK
  <1>2. g = [a \in 0..SuspendSpan - 1 |-> IF a = 0 THEN 0 ELSE f[a - 1]] BY DEF Tick
  <1>3. \A a \in 0..s - 1 : f[a] \in Nat BY <1>1, AbuseAssumption
  <1>4. \A a \in 0..s - 1 : g[a] = IF a = 0 THEN 0 ELSE f[a - 1] BY <1>2, AbuseAssumption
  <1>5. s \in Nat BY AbuseAssumption
  <1> HIDE DEF f, g
  <1>6. SumFunctionOnSet(g, 0..s - 1) <= SumFunctionOnSet(f, 0..s - 2) BY <1>3, <1>4, <1>5, SumShift
  <1>7. (s - 1) - 1 = s - 2 BY <1>5
  <1>8. QED BY <1>6, <1>7, FailuresNext DEF Failures, f, g

LEMMA PendingAt ==
    ASSUME NEW q \in Conn, NEW p, NEW f
    PROVE  /\ q \in Pending(p, f) <=> conn[q].proxy = p /\ f \in Range(conn[q].todo)
           /\ q \in Pending(p, f)' <=> conn'[q].proxy = p /\ f \in Range(conn'[q].todo)
           /\ q \in Entering(p) <=> conn[q].proxy = p /\ conn[q].pc \in {"credential", "failed"}
           /\ q \in Entering(p)' <=> conn'[q].proxy = p /\ conn'[q].pc \in {"credential", "failed"}
  BY DEF Pending, Entering

LEMMA OthersPending ==
    ASSUME NEW q \in Conn, Moves(q), NEW r \in Conn \ {q}, NEW p, NEW f
    PROVE  /\ r \in Pending(p, f)' <=> r \in Pending(p, f)
           /\ r \in Entering(p)' <=> r \in Entering(p)
  <1>1. conn'[r] = conn[r] BY DEF Moves
  <1>2. QED BY <1>1, PendingAt

LEMMA RangeEmpty == Range(<<>>) = {}
  BY DEF Range

LEMMA RangePop ==
    ASSUME NEW s \in Seq(Factors), s # <<>>
    PROVE  Head(s) \in Range(s) /\ Range(s) = {Head(s)} \cup Range(Tail(s))
  <1>1. Len(s) \in Nat \ {0} /\ DOMAIN s = 1..Len(s) /\ Head(s) = s[1] OBVIOUS
  <1>2. /\ DOMAIN Tail(s) = 1..Len(s) - 1
        /\ \A i \in 1..Len(s) - 1 : Tail(s)[i] = s[i + 1]
    BY <1>1
  <1>3. ASSUME NEW f \in Range(s) PROVE f \in {Head(s)} \cup Range(Tail(s))
    <2>1. PICK i \in 1..Len(s) : f = s[i] BY <1>1 DEF Range
    <2>2. CASE i = 1 BY <1>1, <2>1, <2>2
    <2>3. CASE i # 1
      <3>1. i - 1 \in 1..Len(s) - 1 /\ (i - 1) + 1 = i BY <1>1, <2>3
      <3>2. f = Tail(s)[i - 1] BY <1>2, <2>1, <3>1
      <3>3. QED BY <1>2, <3>1, <3>2 DEF Range
    <2>4. QED BY <2>2, <2>3
  <1>4. Head(s) \in Range(s) BY <1>1 DEF Range
  <1>5. ASSUME NEW f \in Range(Tail(s)) PROVE f \in Range(s)
    <2>1. PICK i \in 1..Len(s) - 1 : f = Tail(s)[i] BY <1>2 DEF Range
    <2>2. i + 1 \in 1..Len(s) /\ f = s[i + 1] BY <1>1, <1>2, <2>1
    <2>3. QED BY <1>1, <2>2 DEF Range
  <1>6. QED BY <1>3, <1>4, <1>5

LEMMA RangeConcat ==
    ASSUME NEW s \in Seq(Factors), NEW t \in Seq(Factors)
    PROVE  Range(s \o t) = Range(s) \cup Range(t)
  <1>1. /\ Len(s) \in Nat /\ Len(t) \in Nat
        /\ DOMAIN s = 1..Len(s) /\ DOMAIN t = 1..Len(t) /\ DOMAIN (s \o t) = 1..Len(s) + Len(t)
        /\ \A i \in 1..Len(s) + Len(t) : (s \o t)[i] = IF i <= Len(s) THEN s[i] ELSE t[i - Len(s)]
    OBVIOUS
  <1>2. ASSUME NEW f \in Range(s \o t) PROVE f \in Range(s) \cup Range(t)
    <2>1. PICK i \in 1..Len(s) + Len(t) : f = (s \o t)[i] BY <1>1 DEF Range
    <2>2. CASE i <= Len(s)
      <3>1. i \in 1..Len(s) /\ f = s[i] BY <1>1, <2>1, <2>2
      <3>2. QED BY <1>1, <3>1 DEF Range
    <2>3. CASE ~(i <= Len(s))
      <3>1. i - Len(s) \in 1..Len(t) /\ f = t[i - Len(s)] BY <1>1, <2>1, <2>3
      <3>2. QED BY <1>1, <3>1 DEF Range
    <2>4. QED BY <2>2, <2>3
  <1>3. ASSUME NEW f \in Range(s) PROVE f \in Range(s \o t)
    <2>1. PICK i \in 1..Len(s) : f = s[i] BY <1>1 DEF Range
    <2>2. i \in 1..Len(s) + Len(t) /\ f = (s \o t)[i] BY <1>1, <2>1
    <2>3. QED BY <1>1, <2>2 DEF Range
  <1>4. ASSUME NEW f \in Range(t) PROVE f \in Range(s \o t)
    <2>1. PICK i \in 1..Len(t) : f = t[i] BY <1>1 DEF Range
    <2>2. i + Len(s) \in 1..Len(s) + Len(t) /\ ~(i + Len(s) <= Len(s)) /\ (i + Len(s)) - Len(s) = i
      BY <1>1, <2>1
    <2>3. f = (s \o t)[i + Len(s)] BY <1>1, <2>1, <2>2
    <2>4. QED BY <1>1, <2>2, <2>3 DEF Range
  <1>5. QED BY <1>2, <1>3, <1>4

\* What a failure calls for.
LEMMA DueHolds ==
    ASSUME NEW p
    PROVE  /\ Block \in Range(Due(p)) <=> Failures(p, BlockSpan) + 1 >= BlockAt
           /\ Suspend \in Range(Due(p)) <=> Failures(p, SuspendSpan) + 1 >= SuspendAt
  <1> DEFINE a == Called(p, WarnSpan, WarnAt, "failed_auth_warning")
             b == Called(p, BlockSpan, BlockAt, "failed_auth_temporary_block")
             c == Called(p, SuspendSpan, SuspendAt, "credential_suspended")
  <1>1. a \in Seq(Factors) /\ b \in Seq(Factors) /\ c \in Seq(Factors)
    BY CalledFits DEF Factors
  <1>2. ASSUME NEW f PROVE Range(<<f>>) = {f}
    <2>1. DOMAIN <<f>> = {1} /\ <<f>>[1] = f OBVIOUS
    <2>2. QED BY <2>1 DEF Range
  <1>3. Range(a) \subseteq {"failed_auth_warning"}
    BY <1>2, RangeEmpty DEF Called
  <1>4. Range(b) = IF Failures(p, BlockSpan) + 1 >= BlockAt THEN {Block} ELSE {}
    BY <1>2, RangeEmpty DEF Called, Reached, Block
  <1>5. Range(c) = IF Failures(p, SuspendSpan) + 1 >= SuspendAt THEN {Suspend} ELSE {}
    BY <1>2, RangeEmpty DEF Called, Reached, Suspend
  <1>6. Due(p) = (a \o b) \o c BY <1>1 DEF Due
  <1> HIDE DEF a, b, c
  <1>7. a \o b \in Seq(Factors) BY <1>1, ConcatProperties
  <1>8. Range(Due(p)) = Range(a) \cup Range(b) \cup Range(c)
    BY <1>1, <1>6, <1>7, RangeConcat
  <1>9. QED BY <1>3, <1>4, <1>5, <1>8 DEF Block, Suspend

\* No failure, and no block or suspension is given up before it took effect.
LEMMA FailuresKept ==
    ASSUME TypeInv, TypeInv', BlocksFit, PendingFit, SuspendsFit, UNCHANGED failed,
           \A p \in Proxy : \/ blocked'[p] = BlockSpan + 1
                            \/ blocked'[p] = blocked[p] /\ Pending(p, Block) \subseteq Pending(p, Block)',
           \A p \in Proxy : \/ cred'[p] = "suspended"
                            \/ cred'[p] = cred[p] /\ Pending(p, Suspend) \subseteq Pending(p, Suspend)'
    PROVE  BlocksFit' /\ PendingFit' /\ SuspendsFit'
  <1>1. \A p, s : Failures(p, s)' = Failures(p, s) BY DEF Failures
  <1>2. ASSUME NEW p \in Proxy, NEW s \in 1..BlockSpan, Failures(p, s)' >= BlockAt
        PROVE  Pending(p, Block)' # {} \/ blocked'[p] + s > BlockSpan
    <2>1. Pending(p, Block) # {} \/ blocked[p] + s > BlockSpan BY <1>1, <1>2 DEF BlocksFit
    <2>2. CASE blocked'[p] = BlockSpan + 1 BY <2>2, AbuseAssumption
    <2>3. CASE blocked'[p] = blocked[p] /\ Pending(p, Block) \subseteq Pending(p, Block)' BY <2>1, <2>3
    <2>4. QED BY <2>2, <2>3
  <1>3. ASSUME NEW p \in Proxy, blocked'[p] = 0
        PROVE  Failures(p, BlockSpan)' + 1 <= BlockAt + Cardinality(Pending(p, Block)')
    <2>1. blocked[p] = 0 /\ Pending(p, Block) \subseteq Pending(p, Block)' BY <1>3, AbuseAssumption
    <2>2. Failures(p, BlockSpan) + 1 <= BlockAt + Cardinality(Pending(p, Block)) BY <2>1 DEF PendingFit
    <2>3. PICK m \in Nat, n \in Nat : m = Cardinality(Pending(p, Block)) /\ n = Cardinality(Pending(p, Block)')
      BY SetsFinite
    <2>4. m <= n BY <2>1, <2>3, SetsFinite, FS_Subset
    <2>5. Failures(p, BlockSpan) \in Nat BY FailuresOf, AbuseAssumption
    <2>6. QED BY <1>1, <2>2, <2>3, <2>4, <2>5, AbuseAssumption
  <1>4. ASSUME NEW p \in Proxy, Failures(p, SuspendSpan)' >= SuspendAt
        PROVE  cred'[p] = "suspended" \/ Pending(p, Suspend)' # {}
    <2>1. cred[p] = "suspended" \/ Pending(p, Suspend) # {} BY <1>1, <1>4 DEF SuspendsFit
    <2>2. QED BY <2>1
  <1>5. QED BY <1>2, <1>3, <1>4 DEF BlocksFit, PendingFit, SuspendsFit

\* Nobody comes past the look at the block.
LEMMA EnteringKept ==
    ASSUME TypeInv, EnteringFit, UNCHANGED <<failed, trying>>,
           \A p \in Proxy : Entering(p)' \subseteq Entering(p)
    PROVE  EnteringFit'
  <1> SUFFICES ASSUME NEW p \in Proxy
               PROVE  Failures(p, BlockSpan)' + Cardinality(Entering(p)') + 1 <= BlockAt + trying'[p]
    BY DEF EnteringFit
  <1>1. Failures(p, BlockSpan)' = Failures(p, BlockSpan) BY DEF Failures
  <1>2. PICK m \in Nat, n \in Nat : m = Cardinality(Entering(p)) /\ n = Cardinality(Entering(p)')
    BY SetsFinite
  <1>3. n <= m BY <1>2, SetsFinite, FS_Subset
  <1>4. Failures(p, BlockSpan) \in Nat BY FailuresOf, AbuseAssumption
  <1>5. Failures(p, BlockSpan) + m + 1 <= BlockAt + trying[p] BY <1>2 DEF EnteringFit
  <1>6. trying[p] \in Nat BY DEF TypeInv, TypeOK
  <1>7. QED BY <1>1, <1>2, <1>3, <1>4, <1>5, <1>6, AbuseAssumption

\* What took effect lasts while the others add their scores.
LEMMA EffectsKept ==
    ASSUME TypeInv, EffectsFit, NEW q \in Conn, Moves(q),
           \A p \in Proxy : blocked'[p] \in {blocked[p], BlockSpan + 1} /\ cred'[p] \in {cred[p], "suspended"},
           conn'[q].pc \in {"readScore", "saveScore"} =>
               /\ Head(conn'[q].todo) = Block => blocked'[conn'[q].proxy] = BlockSpan + 1
               /\ Head(conn'[q].todo) = Suspend => cred'[conn'[q].proxy] = "suspended"
    PROVE  EffectsFit'
  <1> SUFFICES ASSUME NEW r \in Conn, conn'[r].pc \in {"readScore", "saveScore"}
               PROVE  /\ Head(conn'[r].todo) = Block => blocked'[conn'[r].proxy] = BlockSpan + 1
                      /\ Head(conn'[r].todo) = Suspend => cred'[conn'[r].proxy] = "suspended"
    BY DEF EffectsFit
  <1>1. CASE r = q BY <1>1
  <1>2. CASE r # q
    <2>1. conn'[r] = conn[r] BY <1>2 DEF Moves
    <2>2. conn[r].proxy \in Proxy BY <2>1, RestFits DEF Fits, Ready
    <2>3. /\ Head(conn[r].todo) = Block => blocked[conn[r].proxy] = BlockSpan + 1
          /\ Head(conn[r].todo) = Suspend => cred[conn[r].proxy] = "suspended"
      BY <2>1 DEF EffectsFit
    <2>4. QED BY <2>1, <2>2, <2>3
  <1>3. QED BY <1>1, <1>2

\* A step of q with nothing of this to come, before or after, that leaves the
\* failures alone and comes to no login.
Harmless(q) ==
    /\ Moves(q)
    /\ \/ conn[q].todo = <<>> /\ Block \notin Range(conn'[q].todo) /\ Suspend \notin Range(conn'[q].todo)
       \/ conn'[q].todo = conn[q].todo /\ conn'[q].proxy = conn[q].proxy
    /\ conn'[q].pc \in {"credential", "failed"} =>
          conn[q].pc \in {"credential", "failed"} /\ conn'[q].proxy = conn[q].proxy
    /\ conn'[q].pc \in {"readScore", "saveScore"} =>
          conn[q].pc = "readScore" /\ conn'[q].todo = conn[q].todo /\ conn'[q].proxy = conn[q].proxy

LEMMA HarmlessSets ==
    ASSUME NEW q \in Conn, Harmless(q), NEW p
    PROVE  /\ Pending(p, Block) \subseteq Pending(p, Block)'
           /\ Pending(p, Suspend) \subseteq Pending(p, Suspend)'
           /\ Entering(p)' \subseteq Entering(p)
  <1>1. \A f : \A r \in Conn \ {q} :
            /\ r \in Pending(p, f)' <=> r \in Pending(p, f)
            /\ r \in Entering(p)' <=> r \in Entering(p)
    BY OthersPending DEF Harmless
  <1>2. \A f \in {Block, Suspend} : q \in Pending(p, f) => q \in Pending(p, f)'
    <2>1. CASE conn[q].todo = <<>> BY <2>1, PendingAt, RangeEmpty
    <2>2. CASE conn'[q].todo = conn[q].todo /\ conn'[q].proxy = conn[q].proxy BY <2>2, PendingAt
    <2>3. QED BY <2>1, <2>2 DEF Harmless
  <1>3. q \in Entering(p)' => q \in Entering(p) BY PendingAt DEF Harmless
  <1>4. Pending(p, Block) \subseteq Conn /\ Pending(p, Suspend) \subseteq Conn /\ Entering(p)' \subseteq Conn
    BY DEF Pending, Entering
  <1>5. QED BY <1>1, <1>2, <1>3, <1>4

LEMMA FailuresHarmless ==
    ASSUME TypeInv, TypeInv', FailuresInv, NEW q \in Conn, Harmless(q), UNCHANGED <<failed, blocked, cred, trying>>
    PROVE  FailuresInv'
  <1>1. BlocksFit' /\ PendingFit' /\ SuspendsFit' BY HarmlessSets, FailuresKept DEF FailuresInv
  <1>2. EnteringFit' BY HarmlessSets, EnteringKept DEF FailuresInv
  <1>3. EffectsFit'
    <2>1. Moves(q) BY DEF Harmless
    <2>2. conn'[q].pc \in {"readScore", "saveScore"} =>
               /\ Head(conn'[q].todo) = Block => blocked'[conn'[q].proxy] = BlockSpan + 1
               /\ Head(conn'[q].todo) = Suspend => cred'[conn'[q].proxy] = "suspended"
      BY DEF Harmless, FailuresInv, EffectsFit
    <2>3. QED BY <2>1, <2>2, EffectsKept DEF FailuresInv
  <1>4. QED BY <1>1, <1>2, <1>3 DEF FailuresInv

\* Where a connection stands that has nothing to come.
LEMMA AtFits ==
    ASSUME TypeInv, NEW q \in Conn
    PROVE  /\ Fits(conn[q]) /\ conn[q] \in ConnType
           /\ conn[q].pc \in Pcs \ Busy => conn[q].todo = <<>>
           /\ conn[q].pc \in Pcs \ {"idle"} => conn[q].proxy \in Proxy
           /\ conn[q].pc \in Pcs \ (Busy \cup {"release"}) => conn[q].next # "release"
  BY RestFits DEF Fits, Ready, ConnType

LEMMA GotoHarmless ==
    ASSUME TypeInv, NEW q \in Conn, NEW pc \in Pcs \ {"credential", "readScore", "saveScore"}, Goto(q, pc),
           conn[q].pc \in Pcs \ Busy, pc = "failed" => conn[q].pc = "credential",
           Ready(pc, conn[q].proxy, conn[q].who, conn[q].scored, conn[q].todo, conn[q].next)
    PROVE  Harmless(q)
  <1>1. Moves(q) /\ Stays(q) /\ conn'[q].pc = pc /\ conn'[q].todo = conn[q].todo BY GotoFits
  <1>2. QED BY <1>1 DEF Harmless, Stays, Pcs

LEMMA PunishHarmless ==
    ASSUME TypeInv, NEW q \in Conn, conn[q].pc \in Pcs \ (Busy \cup {"idle"}),
           NEW x \in Customer \cup Proxy, NEW f \in Factors \ {Block, Suspend},
           NEW next \in {"denied", "closed", "release"}, Punish(q, x, <<f>>, next)
    PROVE  Harmless(q)
  <1>1. conn[q].proxy \in Proxy /\ conn[q].todo = <<>> BY AtFits DEF Busy
  <1>2. Moves(q) /\ conn'[q].pc = "enforce" /\ conn'[q].todo = <<f>> BY <1>1, PunishOneFits
  <1>3. Range(<<f>>) = {f}
    <2>1. DOMAIN <<f>> = {1} /\ <<f>>[1] = f OBVIOUS
    <2>2. QED BY <2>1 DEF Range
  <1>4. QED BY <1>1, <1>2, <1>3 DEF Harmless

LEMMA DoneHarmless ==
    ASSUME TypeInv, NEW q \in Conn, Done(q), conn[q].pc \in Pcs \ Busy
    PROVE  Harmless(q)
  BY AtFits, DoneFits, RangeEmpty DEF Harmless

LEMMA LoginHarmless ==
    ASSUME TypeInv, NEW q \in Conn,
           \/ \E p \in Proxy : Accept(q, p)
           \/ BlockedUntil(q) /\ Goto(q, "denied")
           \/ CheckCredential(q) \/ ClientAllowed(q) \/ ServedForNobody(q) \/ Return(q) \/ ReadScore(q)
    PROVE  Harmless(q)
  <1>0. /\ Fits(conn[q]) /\ conn[q] \in ConnType
        /\ conn[q].pc \in Pcs \ Busy => conn[q].todo = <<>>
        /\ conn[q].pc \in Pcs \ {"idle"} => conn[q].proxy \in Proxy
        /\ conn[q].pc \in Pcs \ (Busy \cup {"release"}) => conn[q].next # "release"
    BY AtFits
  <1>1. ASSUME NEW p \in Proxy, Accept(q, p) PROVE Harmless(q)
    BY <1>0, <1>1, AcceptFits, RangeEmpty DEF Accept, At, Harmless, Pcs, Busy
  <1>2. CASE BlockedUntil(q) /\ Goto(q, "denied")
    <2>1. conn[q].pc = "login" BY <1>2 DEF BlockedUntil, At
    <2>2. QED BY <1>0, <1>2, <2>1, GotoHarmless DEF Ready, Pcs, Busy
  <1>3. CASE CheckCredential(q)
    <2>1. conn[q].pc = "credential" BY <1>3 DEF CheckCredential, At
    <2>2. CASE Goto(q, "failed") BY <1>0, <2>1, <2>2, GotoHarmless DEF Ready, Pcs, Busy
    <2>3. ASSUME NEW pc \in {"whitelist", "failed"},
                 conn' = [conn EXCEPT ![q] = [@ EXCEPT !.pc = pc, !.who = Owner[conn[q].proxy]]]
          PROVE  Harmless(q)
      <3>1. conn[q].proxy \in Proxy /\ conn[q].todo = <<>> /\ conn[q].next # "release"
        BY <1>0, <2>1 DEF Pcs, Busy
      <3>2. PICK w \in Customer : w = Owner[conn[q].proxy] BY <3>1, AbuseAssumption
      <3>3. conn' = [conn EXCEPT ![q] = [@ EXCEPT !.pc = pc, !.who = w]] BY <2>3, <3>2
      <3>4. Moves(q) /\ conn'[q].pc = pc /\ conn'[q].proxy = conn[q].proxy /\ conn'[q].todo = <<>>
        BY <3>1, <3>3, GivenFits
      <3>5. QED BY <2>1, <3>1, <3>4 DEF Harmless
    <2>4. QED BY <1>3, <2>2, <2>3 DEF CheckCredential
  <1>4. CASE ClientAllowed(q)
    <2>1. conn[q].pc = "whitelist" /\ conn[q].who \in Customer
      BY <1>0, <1>4 DEF ClientAllowed, At, Fits, Ready
    <2>2. ASSUME NEW pc \in {"guard", "denied"}, Goto(q, pc) PROVE Harmless(q)
      BY <1>0, <2>1, <2>2, GotoHarmless DEF Ready, Pcs, Busy
    <2>3. CASE Punish(q, conn[q].who, <<"ip_whitelist_denied">>, "denied")
      BY <2>1, <2>3, PunishHarmless DEF Factors, Block, Suspend, Pcs, Busy
    <2>4. QED BY <1>4, <2>2, <2>3 DEF ClientAllowed
  <1>5. CASE ServedForNobody(q)
    <2>1. conn[q].pc \in {"denied", "login"} BY <1>5 DEF ServedForNobody, At
    <2>2. conn[q].proxy \in Proxy /\ conn[q].todo = <<>> /\ conn[q].next # "release"
      BY <1>0, <2>1 DEF Pcs, Busy
    <2>3. Moves(q) /\ conn'[q].pc = "dial" /\ conn'[q].todo = <<>> /\ conn'[q].proxy = conn[q].proxy
      BY <1>5, <2>2, GivenFits DEF ServedForNobody
    <2>4. QED BY <2>2, <2>3 DEF Harmless
  <1>6. CASE Return(q) BY <1>6, DoneHarmless DEF Return, Pcs, Busy
  <1>7. CASE ReadScore(q) BY <1>7, ReadFits DEF ReadScore, At, Harmless, Stays
  <1>8. QED BY <1>1, <1>2, <1>3, <1>4, <1>5, <1>6, <1>7

LEMMA ServeHarmless ==
    ASSUME TypeInv, NEW q \in Conn, Serve(q)
    PROVE  Harmless(q)
  <1>0. /\ Fits(conn[q]) /\ conn[q] \in ConnType
        /\ conn[q].pc \in Pcs \ Busy => conn[q].todo = <<>>
        /\ conn[q].pc \in Pcs \ {"idle"} => conn[q].proxy \in Proxy
        /\ conn[q].pc \in Pcs \ (Busy \cup {"release"}) => conn[q].next # "release"
    BY AtFits
  <1>1. ASSUME NEW pc \in {"limits", "count", "dial", "bridge", "usage", "release"}, Goto(q, pc),
               conn[q].pc \in {"guard", "limits", "count", "dial", "bridge", "usage"},
               pc \in {"limits", "count"} => conn[q].who \in Customer
        PROVE  Harmless(q)
    BY <1>0, <1>1, GotoHarmless DEF Ready, Pcs, Busy
  <1>2. ASSUME NEW x \in Customer \cup Proxy,
               NEW f \in {"blocked_target", "connection_limit", "bandwidth_spike"},
               NEW next \in {"closed", "release"}, Punish(q, x, <<f>>, next),
               conn[q].pc \in {"guard", "limits", "usage"}
        PROVE  Harmless(q)
    <2>1. f \in Factors \ {Block, Suspend} /\ next \in {"denied", "closed", "release"}
      BY DEF Factors, Block, Suspend
    <2>2. conn[q].pc \in Pcs \ (Busy \cup {"idle"}) BY <1>2 DEF Pcs, Busy
    <2>3. QED BY <1>2, <2>1, <2>2, PunishHarmless
  <1>3. conn[q].pc \in {"guard", "limits", "count"} => conn[q].who \in Customer
    BY <1>0 DEF Fits, Ready
  <1>4. CASE GuardTarget(q) BY <1>1, <1>2, <1>3, <1>4 DEF GuardTarget, At
  <1>5. CASE CheckConnectionLimits(q) BY <1>1, <1>2, <1>3, <1>5 DEF CheckConnectionLimits, At
  <1>6. CASE GuardConnection(q) BY <1>1, <1>6 DEF GuardConnection, At
  <1>7. CASE Dial(q) \/ DialFails(q) \/ BridgeEnds(q) BY <1>1, <1>7 DEF Dial, DialFails, BridgeEnds, At
  <1>8. CASE RecordUsage(q)
    <2>1. conn[q].pc = "usage" /\ conn[q].proxy \in Proxy
      BY <1>0, <1>8 DEF RecordUsage, At, Fits, Ready
    <2>2. QED BY <1>1, <1>2, <1>8, <2>1 DEF RecordUsage
  <1>9. CASE Release(q) BY <1>9, DoneHarmless DEF Release, At, Pcs, Busy
  <1>10. QED BY <1>4, <1>5, <1>6, <1>7, <1>8, <1>9 DEF Serve

LEMMA FailuresNextOf ==
    ASSUME TypeInv', NEW p \in Proxy, NEW s \in 0..SuspendSpan
    PROVE  Failures(p, s)' \in Nat
  <1> DEFINE g == failed'[p]
  <1>1. IsFiniteSet(0..s - 1)
    <2>1. 0 \in Int /\ s - 1 \in Int BY AbuseAssumption
    <2>2. QED BY <2>1, FS_Interval
  <1>2. \A a \in 0..s - 1 : g[a] \in Nat
    <2>1. g \in [0..SuspendSpan - 1 -> Nat] BY DEF TypeInv, TypeOK
    <2>2. \A a \in 0..s - 1 : a \in 0..SuspendSpan - 1 BY AbuseAssumption
    <2> HIDE DEF g
    <2>3. QED BY <2>1, <2>2
  <1> HIDE DEF g
  <1>3. SumFunctionOnSet(g, 0..s - 1) \in Nat BY <1>1, <1>2, SumType
  <1>4. QED BY <1>3, FailuresNext DEF g

\* Only q moves: what the others have to come, and where they are, stays.
LEMMA OtherSets ==
    ASSUME NEW q \in Conn, Moves(q), NEW p, NEW f
    PROVE  /\ Pending(p, f) \ {q} = Pending(p, f)' \ {q}
           /\ Entering(p) \ {q} = Entering(p)' \ {q}
           /\ (q \in Pending(p, f)' <=> q \in Pending(p, f)) => Pending(p, f)' = Pending(p, f)
           /\ (q \in Entering(p)' <=> q \in Entering(p)) => Entering(p)' = Entering(p)
  <1>1. ASSUME NEW r \in Conn \ {q}
        PROVE  /\ r \in Pending(p, f)' <=> r \in Pending(p, f)
               /\ r \in Entering(p)' <=> r \in Entering(p)
    BY OthersPending
  <1>2. /\ Pending(p, f) \subseteq Conn /\ Pending(p, f)' \subseteq Conn
        /\ Entering(p) \subseteq Conn /\ Entering(p)' \subseteq Conn
    BY DEF Pending, Entering
  <1>3. QED BY <1>1, <1>2

\* The login comes past the look at the block.
LEMMA FailuresEnter ==
    ASSUME TypeInv, TypeInv', FailuresInv, NEW q \in Conn, BlockedUntil(q), ~Goto(q, "denied")
    PROVE  FailuresInv'
  <1>0. Fits(conn[q]) /\ conn[q].pc = "login" BY RestFits DEF BlockedUntil, At
  <1>1. PICK p \in Proxy : p = conn[q].proxy BY <1>0 DEF Fits, Ready
  <1>2. /\ blocked[p] = 0 /\ Goto(q, "credential") /\ UNCHANGED <<failed, blocked, cred>>
        /\ trying' = [trying EXCEPT ![p] = Bigger(@, Cardinality(Trying(p)) + 1)]
    BY <1>1 DEF BlockedUntil, memory, rows
  <1>3. /\ Moves(q) /\ Stays(q) /\ conn'[q].pc = "credential" /\ conn'[q].todo = <<>> /\ conn[q].todo = <<>>
    BY <1>0, <1>2, GotoFits DEF Fits, Ready, Pcs, Busy
  <1>4. ASSUME NEW r, NEW f PROVE Pending(r, f)' = Pending(r, f)
    <2>1. q \notin Pending(r, f)' /\ q \notin Pending(r, f) BY <1>3, PendingAt, RangeEmpty
    <2>2. QED BY <1>3, <2>1, OtherSets
  <1>5. BlocksFit' /\ PendingFit' /\ SuspendsFit' BY <1>2, <1>4, FailuresKept DEF FailuresInv
  <1>6. EffectsFit' BY <1>2, <1>3, EffectsKept DEF FailuresInv
  <1>7. ASSUME NEW r \in Proxy
        PROVE  Failures(r, BlockSpan)' + Cardinality(Entering(r)') + 1 <= BlockAt + trying'[r]
    <2>1. /\ Failures(r, BlockSpan)' = Failures(r, BlockSpan) /\ Failures(r, BlockSpan) \in Nat
          /\ BlockAt \in Nat
      BY <1>2, FailuresOf, AbuseAssumption DEF Failures
    <2>2. trying \in [Proxy -> Nat] BY DEF TypeInv, TypeOK
    <2>3. CASE r # p
      <3>1. q \notin Entering(r) /\ q \notin Entering(r)' BY <1>1, <1>3, <2>3, PendingAt DEF Stays
      <3>2. Entering(r)' = Entering(r) BY <1>3, <3>1, OtherSets
      <3>3. trying'[r] = trying[r] BY <1>2, <2>2, <2>3
      <3>4. QED BY <2>1, <3>2, <3>3 DEF FailuresInv, EnteringFit
    <2>4. CASE r = p
      <3>1. PICK m \in Nat, n \in Nat : m = Cardinality(Entering(p)) /\ n = Cardinality(Pending(p, Block))
        BY SetsFinite
      <3>2. q \notin Entering(p) /\ q \in Entering(p)' BY <1>0, <1>1, <1>3, PendingAt DEF Stays
      <3>3. Entering(p)' = Entering(p) \cup {q} BY <1>3, <3>2, OtherSets
      <3>4. Cardinality(Entering(p)') = m + 1 BY <3>1, <3>2, <3>3, SetsFinite, FS_AddElement
      <3>5. Trying(p) = Entering(p) \cup Pending(p, Block) BY DEF Trying, Entering, Pending, Block
      <3>6. Entering(p) \cap Pending(p, Block) = {}
        <4>1. ASSUME NEW o \in Entering(p), o \in Pending(p, Block) PROVE FALSE
          <5>1. o \in Conn /\ conn[o].pc \in {"credential", "failed"} /\ Block \in Range(conn[o].todo)
            BY <4>1 DEF Entering, Pending
          <5>2. conn[o].todo = <<>> BY <5>1, AtFits DEF Pcs, Busy
          <5>3. QED BY <5>1, <5>2, RangeEmpty
        <4>2. QED BY <4>1
      <3>7. Cardinality(Trying(p)) = m + n
        <4>1. Cardinality(Entering(p) \cup Pending(p, Block))
                = Cardinality(Entering(p)) + Cardinality(Pending(p, Block))
                  - Cardinality(Entering(p) \cap Pending(p, Block))
          BY SetsFinite, FS_Union
        <4>2. Cardinality(Entering(p) \cap Pending(p, Block)) = 0 BY <3>6, FS_EmptySet
        <4>3. QED BY <3>1, <3>5, <4>1, <4>2
      <3>8. trying'[p] >= m + n + 1 /\ trying'[p] \in Nat
        BY <1>2, <2>2, <3>1, <3>7 DEF Bigger
      <3>9. Failures(p, BlockSpan) + 1 <= BlockAt + n BY <1>2, <3>1 DEF FailuresInv, PendingFit
      <3>10. QED BY <2>1, <2>4, <3>1, <3>4, <3>8, <3>9
    <2>5. QED BY <2>3, <2>4
  <1>8. QED BY <1>5, <1>6, <1>7 DEF FailuresInv, EnteringFit

\* The login failed and is counted.
LEMMA FailuresRecord ==
    ASSUME TypeInv, TypeInv', FailuresInv, NEW q \in Conn, RecordFailedAuth(q)
    PROVE  FailuresInv'
  <1>0. Fits(conn[q]) /\ conn[q] \in ConnType /\ conn[q].pc = "failed" /\ conn[q].todo = <<>>
    BY AtFits DEF RecordFailedAuth, At, Pcs, Busy
  <1>1. PICK p \in Proxy : p = conn[q].proxy BY <1>0 DEF Fits, Ready
  <1>2. /\ failed' = [failed EXCEPT ![p] = OneMore(@)] /\ UNCHANGED <<blocked, cred, trying>>
    BY <1>1 DEF RecordFailedAuth, rows, past
  <1>3. Moves(q) /\ Stays(q) /\ conn'[q].pc \in {"enforce", "denied"} /\ conn'[q].todo = Due(p)
    <2>1. CASE Due(p) = <<>> /\ Goto(q, "denied")
      BY <1>0, <2>1, GotoFits DEF Fits, Ready, Pcs, Busy
    <2>2. CASE Due(p) # <<>> /\ Punish(q, conn[q].who, Due(p), "denied")
      <3>1. PICK factors \in Seq(Factors) : factors = Due(p) BY DueFits
      <3>2. conn[q].who \in Customer \cup Proxy \cup {Nobody} BY <1>0 DEF ConnType
      <3>3. QED BY <1>1, <2>2, <3>1, <3>2, PunishFits
    <2>3. QED BY <1>1, <2>1, <2>2 DEF RecordFailedAuth
  <1>4. ASSUME NEW r \in Proxy, NEW s \in 1..SuspendSpan
        PROVE  /\ Failures(r, s)' = IF r = p THEN Failures(p, s) + 1 ELSE Failures(r, s)
               /\ Failures(r, s) \in Nat
    <2>1. s \in 0..SuspendSpan OBVIOUS
    <2>2. QED BY <1>2, <2>1, FailuresAdded, FailuresOf
  <1>5. /\ BlockSpan \in 1..SuspendSpan /\ SuspendSpan \in 1..SuspendSpan /\ 1..BlockSpan \subseteq 1..SuspendSpan
        /\ BlockAt \in Nat /\ SuspendAt \in Nat
    BY AbuseAssumption
  <1>6. \A f : \A r \in Proxy : q \in Pending(r, f)' <=> r = p /\ f \in Range(Due(p))
    BY <1>1, <1>3, PendingAt DEF Stays
  <1>7. \A f : \A r \in Proxy : Pending(r, f) \subseteq Pending(r, f)' /\ q \notin Pending(r, f)
    BY <1>0, <1>3, OtherSets, PendingAt, RangeEmpty
  <1>8. BlocksFit'
    <2> SUFFICES ASSUME NEW r \in Proxy, NEW s \in 1..BlockSpan, Failures(r, s)' >= BlockAt
                 PROVE  Pending(r, Block)' # {} \/ blocked'[r] + s > BlockSpan
      BY DEF BlocksFit
    <2>1. CASE r = p
      <3>1. Failures(p, s) <= Failures(p, BlockSpan) BY <1>5, FailuresOf, AbuseAssumption
      <3>2. Failures(p, BlockSpan) + 1 >= BlockAt BY <1>4, <1>5, <2>1, <3>1
      <3>3. QED BY <1>6, <2>1, <3>2, DueHolds
    <2>2. CASE r # p
      <3>1. Failures(r, s) >= BlockAt BY <1>4, <1>5, <2>2
      <3>2. Pending(r, Block) # {} \/ blocked[r] + s > BlockSpan BY <3>1 DEF FailuresInv, BlocksFit
      <3>3. QED BY <1>2, <1>7, <3>2
    <2>3. QED BY <2>1, <2>2
  <1>9. PendingFit'
    <2> SUFFICES ASSUME NEW r \in Proxy, blocked'[r] = 0
                 PROVE  Failures(r, BlockSpan)' + 1 <= BlockAt + Cardinality(Pending(r, Block)')
      BY DEF PendingFit
    <2>1. PICK m \in Nat, n \in Nat : m = Cardinality(Pending(r, Block)) /\ n = Cardinality(Pending(r, Block)')
      BY SetsFinite
    <2>2. m <= n BY <1>7, <2>1, SetsFinite, FS_Subset
    <2>3. Failures(r, BlockSpan) + 1 <= BlockAt + m BY <1>2, <2>1 DEF FailuresInv, PendingFit
    <2>4. CASE r = p /\ Failures(p, BlockSpan) + 1 >= BlockAt
      <3>1. q \in Pending(p, Block)' BY <1>6, <2>4, DueHolds
      <3>2. Pending(p, Block)' = Pending(p, Block) \cup {q} BY <1>3, <1>7, <3>1, OtherSets
      <3>3. n = m + 1
        <4>1. IsFiniteSet(Pending(p, Block)) BY SetsFinite
        <4>2. q \notin Pending(p, Block) BY <1>7
        <4>3. Cardinality(Pending(p, Block) \cup {q}) = Cardinality(Pending(p, Block)) + 1
          BY <4>1, <4>2, FS_AddElement
        <4>4. QED BY <2>1, <2>4, <3>2, <4>3
      <3>4. QED BY <1>4, <1>5, <2>1, <2>3, <2>4, <3>3
    <2>5. CASE ~(r = p /\ Failures(p, BlockSpan) + 1 >= BlockAt)
      BY <1>4, <1>5, <2>1, <2>2, <2>3, <2>5
    <2>6. QED BY <2>4, <2>5
  <1>10. EnteringFit'
    <2> SUFFICES ASSUME NEW r \in Proxy
                 PROVE  Failures(r, BlockSpan)' + Cardinality(Entering(r)') + 1 <= BlockAt + trying'[r]
      BY DEF EnteringFit
    <2>1. PICK m \in Nat : m = Cardinality(Entering(r)) BY SetsFinite
    <2>2. Failures(r, BlockSpan) + m + 1 <= BlockAt + trying[r] BY <2>1 DEF FailuresInv, EnteringFit
    <2>3. trying[r] \in Nat BY DEF TypeInv, TypeOK
    <2>4. q \notin Entering(r)' BY <1>3, PendingAt
    <2>5. CASE r = p
      <3>1. q \in Entering(p) BY <1>0, <1>1, PendingAt
      <3>2. Entering(p)' = Entering(p) \ {q} BY <1>3, <2>4, <2>5, OtherSets
      <3>3. Cardinality(Entering(p)') = m - 1
        <4>1. IsFiniteSet(Entering(p)) BY SetsFinite
        <4>2. Cardinality(Entering(p) \ {q}) = Cardinality(Entering(p)) - 1
          BY <3>1, <4>1, FS_RemoveElement
        <4>3. QED BY <2>1, <2>5, <3>2, <4>2
      <3>4. QED BY <1>2, <1>4, <1>5, <2>1, <2>2, <2>3, <2>5, <3>3
    <2>6. CASE r # p
      <3>1. q \notin Entering(r) BY <1>1, <2>6, PendingAt
      <3>2. Entering(r)' = Entering(r) BY <1>3, <2>4, <3>1, OtherSets
      <3>3. QED BY <1>2, <1>4, <1>5, <2>1, <2>2, <2>6, <3>2
    <2>7. QED BY <2>5, <2>6
  <1>11. EffectsFit' BY <1>2, <1>3, EffectsKept DEF FailuresInv
  <1>12. SuspendsFit'
    <2> SUFFICES ASSUME NEW r \in Proxy, Failures(r, SuspendSpan)' >= SuspendAt
                 PROVE  cred'[r] = "suspended" \/ Pending(r, Suspend)' # {}
      BY DEF SuspendsFit
    <2>1. CASE r = p BY <1>4, <1>5, <1>6, <2>1, DueHolds
    <2>2. CASE r # p
      <3>1. Failures(r, SuspendSpan) >= SuspendAt BY <1>4, <1>5, <2>2
      <3>2. cred[r] = "suspended" \/ Pending(r, Suspend) # {} BY <3>1 DEF FailuresInv, SuspendsFit
      <3>3. QED BY <1>2, <1>7, <3>2
    <2>3. QED BY <2>1, <2>2
  <1>13. QED BY <1>8, <1>9, <1>10, <1>11, <1>12 DEF FailuresInv

\* A factor takes effect, or its score is added after it did: what is to come
\* is at most one less, and that one has come.
LEMMA FailuresEffect ==
    ASSUME TypeInv, TypeInv', FailuresInv, NEW q \in Conn, Enforce(q) \/ SaveScore(q)
    PROVE  FailuresInv'
  <1>0. Fits(conn[q]) /\ conn[q] \in ConnType /\ conn[q].pc \in {"enforce", "saveScore"}
    BY RestFits DEF Enforce, SaveScore, At
  <1>1. conn[q].todo \in Seq(Factors) /\ conn[q].todo # <<>>
    BY <1>0 DEF Fits, Ready, Busy, ConnType
  <1>2. PICK p \in Proxy : p = conn[q].proxy
    <2>1. conn[q].proxy \in Proxy BY <1>0 DEF Fits, Ready
    <2>2. QED BY <2>1
  <1>3. PICK h : h = Head(conn[q].todo) OBVIOUS
  <1>4. /\ Moves(q) /\ Stays(q)
        /\ \/ conn'[q].pc = "readScore" /\ conn'[q].todo = conn[q].todo
           \/ conn'[q].pc \notin {"readScore", "saveScore"} /\ conn'[q].todo = Tail(conn[q].todo)
        /\ conn'[q].pc \notin {"credential", "failed"}
    <2>1. CASE Popped(q)
      <3>1. conn[q].pc \in Busy /\ conn[q].next \in {"idle", "denied", "closed", "release"}
        BY <1>0 DEF Busy, ConnType
      <3>2. QED BY <2>1, <3>1, PoppedFits
    <2>2. CASE Enforce(q) /\ conn[q].scored # Nobody /\ Goto(q, "readScore")
      <3>1. conn[q].scored \in Customer \cup Proxy /\ conn[q].pc = "enforce"
        BY <1>0, <2>2 DEF ConnType, Enforce, At
      <3>2. QED BY <1>0, <1>1, <2>2, <3>1, GotoFits DEF Fits, Ready, Busy, Pcs
    <2>3. QED BY <2>1, <2>2 DEF Enforce, SaveScore
  <1>5. /\ UNCHANGED <<failed, trying>>
        /\ \A r \in Proxy : /\ blocked'[r] = (IF r = p /\ h = Block THEN BlockSpan + 1 ELSE blocked[r])
                            /\ cred'[r] = (IF r = p /\ h = Suspend THEN "suspended" ELSE cred[r])
    <2>1. blocked \in [Proxy -> 0..BlockSpan + 1] /\ cred \in [Proxy -> {"active", "suspended"}]
      BY DEF TypeInv, TypeOK
    <2>2. CASE Enforce(q)
      BY <1>2, <1>3, <2>1, <2>2 DEF Enforce, BlockFor, Block, Suspend, past
    <2>3. CASE SaveScore(q)
      <3>1. UNCHANGED <<failed, blocked, cred, trying>> BY <2>3 DEF SaveScore, memory
      <3>2. (h = Block => blocked[p] = BlockSpan + 1) /\ (h = Suspend => cred[p] = "suspended")
        BY <1>2, <1>3, <2>3 DEF SaveScore, At, FailuresInv, EffectsFit
      <3>3. QED BY <3>1, <3>2
    <2>4. QED BY <2>2, <2>3
  <1>6. ASSUME NEW r \in Proxy, NEW f \in {Block, Suspend}, ~(r = p /\ h = f)
        PROVE  Pending(r, f) \subseteq Pending(r, f)'
    <2>1. q \in Pending(r, f) => q \in Pending(r, f)'
      <3>1. ASSUME q \in Pending(r, f) PROVE f \in Range(Tail(conn[q].todo))
        BY <1>1, <1>2, <1>3, <1>6, <3>1, PendingAt, RangePop
      <3>2. QED BY <1>4, <3>1, PendingAt DEF Stays
    <2>2. Pending(r, f) \ {q} = Pending(r, f)' \ {q} BY <1>4, OtherSets
    <2>3. QED BY <2>1, <2>2
  <1>7. BlocksFit' /\ PendingFit' /\ SuspendsFit'
    <2>1. ASSUME NEW r \in Proxy
          PROVE  /\ \/ blocked'[r] = BlockSpan + 1
                    \/ blocked'[r] = blocked[r] /\ Pending(r, Block) \subseteq Pending(r, Block)'
                 /\ \/ cred'[r] = "suspended"
                    \/ cred'[r] = cred[r] /\ Pending(r, Suspend) \subseteq Pending(r, Suspend)'
      BY <1>5, <1>6
    <2>2. QED BY <1>5, <2>1, FailuresKept DEF FailuresInv
  <1>8. EnteringFit'
    <2>1. ASSUME NEW r \in Proxy PROVE Entering(r)' \subseteq Entering(r)
      <3>1. q \notin Entering(r)' BY <1>4, PendingAt
      <3>2. QED BY <1>4, <3>1, OtherSets
    <2>2. QED BY <1>5, <2>1, EnteringKept DEF FailuresInv
  <1>9. EffectsFit'
    <2>1. \A r \in Proxy : blocked'[r] \in {blocked[r], BlockSpan + 1} /\ cred'[r] \in {cred[r], "suspended"}
      BY <1>5
    <2>2. conn'[q].pc \in {"readScore", "saveScore"} =>
               /\ Head(conn'[q].todo) = Block => blocked'[conn'[q].proxy] = BlockSpan + 1
               /\ Head(conn'[q].todo) = Suspend => cred'[conn'[q].proxy] = "suspended"
      BY <1>2, <1>3, <1>4, <1>5 DEF Stays
    <2>3. QED BY <1>4, <2>1, <2>2, EffectsKept DEF FailuresInv
  <1>10. QED BY <1>7, <1>8, <1>9 DEF FailuresInv

\* Five minutes pass, while no block is to come.
LEMMA FailuresTick ==
    ASSUME TypeInv, TypeInv', FailuresInv, Tick
    PROVE  FailuresInv'
  <1>1. /\ UNCHANGED <<cred, conn, trying>>
        /\ \A p \in Proxy : blocked'[p] = IF blocked[p] > 0 THEN blocked[p] - 1 ELSE 0
    BY DEF Tick, rows, past
  <1>2. \A p, f : Pending(p, f)' = Pending(p, f) /\ Entering(p)' = Entering(p)
    BY <1>1 DEF Pending, Entering
  <1>3. \A p : Pending(p, Block) = {} BY DEF Tick, Pending, Block
  <1>4. ASSUME NEW p \in Proxy, NEW s \in 1..SuspendSpan
        PROVE  /\ Failures(p, s)' <= Failures(p, s - 1)
               /\ Failures(p, s - 1) <= Failures(p, s)
               /\ Failures(p, s - 1) \in Nat /\ Failures(p, s) \in Nat /\ Failures(p, s)' \in Nat
    <2>1. s \in 0..SuspendSpan /\ s - 1 \in 0..SuspendSpan /\ s - 1 \in 0..s BY AbuseAssumption
    <2>2. Failures(p, s)' <= Failures(p, s - 1) BY FailuresAged
    <2>3. Failures(p, s - 1) <= Failures(p, s) /\ Failures(p, s) \in Nat BY <2>1, FailuresOf
    <2>4. Failures(p, s - 1) \in Nat BY <2>1, FailuresOf
    <2>5. Failures(p, s)' \in Nat BY <2>1, FailuresNextOf
    <2>6. QED BY <2>2, <2>3, <2>4, <2>5
  <1>5. /\ BlockSpan \in 1..SuspendSpan /\ SuspendSpan \in 1..SuspendSpan /\ 1..BlockSpan \subseteq 1..SuspendSpan
        /\ BlockSpan \in 1..BlockSpan /\ BlockAt \in Nat \ {0} /\ SuspendAt \in Nat \ {0}
    BY AbuseAssumption
  <1>6. ASSUME NEW p \in Proxy, NEW s \in 1..BlockSpan, Failures(p, s)' >= BlockAt
        PROVE  blocked'[p] + s > BlockSpan
    <2>1. Failures(p, s - 1) >= BlockAt BY <1>4, <1>5, <1>6
    <2>2. s # 1
      <3>1. SUFFICES ASSUME s = 1 PROVE FALSE OBVIOUS
      <3>2. 0..(s - 1) - 1 = {} BY <3>1
      <3>3. Failures(p, s - 1) = 0 BY <3>2, SumEmpty DEF Failures
      <3>4. QED BY <1>5, <2>1, <3>3
    <2>3. s - 1 \in 1..BlockSpan BY <2>2, AbuseAssumption
    <2>4. blocked[p] + (s - 1) > BlockSpan BY <1>3, <2>1, <2>3 DEF FailuresInv, BlocksFit
    <2>5. blocked[p] \in 0..BlockSpan + 1 /\ s \in 1..BlockSpan /\ BlockSpan \in Nat
      BY AbuseAssumption DEF TypeInv, TypeOK
    <2>6. QED BY <1>1, <2>4, <2>5
  <1>7. BlocksFit' BY <1>6 DEF BlocksFit
  <1>8. PendingFit'
    <2> SUFFICES ASSUME NEW p \in Proxy, blocked'[p] = 0
                 PROVE  Failures(p, BlockSpan)' + 1 <= BlockAt + Cardinality(Pending(p, Block)')
      BY DEF PendingFit
    <2>1. ~(Failures(p, BlockSpan)' >= BlockAt) BY <1>5, <1>6, AbuseAssumption
    <2>2. Cardinality(Pending(p, Block)') = 0 BY <1>2, <1>3, FS_EmptySet
    <2>3. QED BY <1>4, <1>5, <2>1, <2>2
  <1>9. EnteringFit'
    <2> SUFFICES ASSUME NEW p \in Proxy
                 PROVE  Failures(p, BlockSpan)' + Cardinality(Entering(p)') + 1 <= BlockAt + trying'[p]
      BY DEF EnteringFit
    <2>1. PICK m \in Nat : m = Cardinality(Entering(p)) BY SetsFinite
    <2>2. Failures(p, BlockSpan) + m + 1 <= BlockAt + trying[p] BY <2>1 DEF FailuresInv, EnteringFit
    <2>3. trying[p] \in Nat BY DEF TypeInv, TypeOK
    <2>4. Failures(p, BlockSpan)' <= Failures(p, BlockSpan) BY <1>4, <1>5
    <2>5. QED BY <1>1, <1>2, <1>4, <1>5, <2>1, <2>2, <2>3, <2>4
  <1>10. EffectsFit'
    <2> SUFFICES ASSUME NEW q \in Conn, conn[q].pc \in {"readScore", "saveScore"}
                 PROVE  /\ Head(conn[q].todo) # Block
                        /\ Head(conn[q].todo) = Suspend => cred[conn[q].proxy] = "suspended"
      BY <1>1 DEF EffectsFit
    <2>1. conn[q].todo \in Seq(Factors) /\ conn[q].todo # <<>>
      BY RestFits DEF Fits, Ready, Busy, ConnType
    <2>2. Head(conn[q].todo) \in Range(conn[q].todo) BY <2>1, RangePop
    <2>3. QED BY <2>2 DEF Tick, Block, FailuresInv, EffectsFit
  <1>11. SuspendsFit'
    <2> SUFFICES ASSUME NEW p \in Proxy, Failures(p, SuspendSpan)' >= SuspendAt
                 PROVE  cred'[p] = "suspended" \/ Pending(p, Suspend)' # {}
      BY DEF SuspendsFit
    <2>1. Failures(p, SuspendSpan) >= SuspendAt BY <1>4, <1>5
    <2>2. QED BY <1>1, <1>2, <2>1 DEF FailuresInv, SuspendsFit
  <1>12. QED BY <1>7, <1>8, <1>9, <1>10, <1>11 DEF FailuresInv

\* No failures, and no connections.
Fresh == /\ failed = [p \in Proxy |-> [a \in 0..SuspendSpan - 1 |-> 0]]
         /\ conn = [q \in Conn |-> Idle]
         /\ trying \in [Proxy -> Nat]

LEMMA FreshFits == Fresh => FailuresInv
  <1> SUFFICES ASSUME Fresh PROVE FailuresInv
    OBVIOUS
  <1>1. ASSUME NEW p \in Proxy, NEW s \in 1..SuspendSpan PROVE Failures(p, s) = 0
    <2> DEFINE f == failed[p]
    <2>1. IsFiniteSet(0..s - 1)
      <3>1. 0 \in Int /\ s - 1 \in Int BY AbuseAssumption
      <3>2. QED BY <3>1, FS_Interval
    <2>2. \A a \in 0..s - 1 : f[a] \in 0..0 BY AbuseAssumption DEF Fresh
    <2>3. Cardinality(0..s - 1) \in Nat BY <2>1, FS_CardinalityType
    <2> HIDE DEF f
    <2>4. SumFunctionOnSet(f, 0..s - 1) <= 0 * Cardinality(0..s - 1) BY <2>1, <2>2, SumBound
    <2>5. SumFunctionOnSet(f, 0..s - 1) \in Nat BY <2>1, <2>2, SumType
    <2>6. QED BY <2>3, <2>4, <2>5 DEF Failures, f
  <1>2. /\ BlockSpan \in 1..SuspendSpan /\ SuspendSpan \in 1..SuspendSpan /\ 1..BlockSpan \subseteq 1..SuspendSpan
        /\ BlockAt \in Nat \ {0} /\ SuspendAt \in Nat \ {0}
    BY AbuseAssumption
  <1>3. \A q \in Conn : conn[q].pc = "idle" BY IdleFits DEF Fresh
  <1>4. ASSUME NEW p \in Proxy PROVE Cardinality(Entering(p)) = 0
    <2>1. Entering(p) = {} BY <1>3 DEF Entering
    <2>2. QED BY <2>1, FS_EmptySet
  <1>5. BlocksFit BY <1>1, <1>2 DEF BlocksFit
  <1>6. PendingFit
    <2> SUFFICES ASSUME NEW p \in Proxy
                 PROVE  Failures(p, BlockSpan) + 1 <= BlockAt + Cardinality(Pending(p, Block))
      BY DEF PendingFit
    <2>1. PICK n \in Nat : n = Cardinality(Pending(p, Block)) BY SetsFinite
    <2>2. QED BY <1>1, <1>2, <2>1
  <1>7. EnteringFit
    <2>1. \A p \in Proxy : trying[p] \in Nat BY DEF Fresh
    <2>2. QED BY <1>1, <1>2, <1>4, <2>1 DEF EnteringFit
  <1>8. EffectsFit BY <1>3 DEF EffectsFit
  <1>9. SuspendsFit BY <1>1, <1>2 DEF SuspendsFit
  <1>10. QED BY <1>5, <1>6, <1>7, <1>8, <1>9 DEF FailuresInv

LEMMA FreshNext == Fresh' => FailuresInv'
  BY FreshFits, PTL

LEMMA FailuresStep == TypeInv /\ FailuresInv /\ [Next]_vars => FailuresInv'
  <1> SUFFICES ASSUME TypeInv, FailuresInv, [Next]_vars PROVE FailuresInv'
    OBVIOUS
  <1>0. TypeInv' BY TypeStep
  <1>1. ASSUME NEW q \in Conn, Login(q) PROVE FailuresInv'
    <2>1. CASE /\ UNCHANGED <<failed, blocked, cred, trying>>
               /\ \/ \E p \in Proxy : Accept(q, p)
                  \/ BlockedUntil(q) /\ Goto(q, "denied")
                  \/ CheckCredential(q) \/ ClientAllowed(q) \/ ServedForNobody(q) \/ Return(q) \/ ReadScore(q)
      <3>1. Harmless(q) BY <2>1, LoginHarmless
      <3>2. QED BY <1>0, <2>1, <3>1, FailuresHarmless
    <2>2. CASE BlockedUntil(q) /\ ~Goto(q, "denied") BY <1>0, <2>2, FailuresEnter
    <2>3. CASE BlockedUntil(q) /\ Goto(q, "denied")
      <3>1. UNCHANGED trying
        <4>1. conn[q] \in ConnType /\ conn \in [Conn -> ConnType] BY RestFits DEF TypeInv, TypeOK
        <4>2. ~Goto(q, "credential")
          <5>1. SUFFICES ASSUME Goto(q, "credential") PROVE FALSE OBVIOUS
          <5>2. conn'[q] = [conn[q] EXCEPT !.pc = "denied"] BY <2>3, <4>1 DEF Goto
          <5>3. conn'[q] = [conn[q] EXCEPT !.pc = "credential"] BY <4>1, <5>1 DEF Goto
          <5>4. conn'[q].pc = "denied" BY <4>1, <5>2 DEF ConnType
          <5>5. conn'[q].pc = "credential" BY <4>1, <5>3 DEF ConnType
          <5>6. QED BY <5>4, <5>5
        <4>3. QED BY <2>3, <4>2 DEF BlockedUntil
      <3>2. UNCHANGED <<failed, blocked, cred>> BY <2>3 DEF BlockedUntil, memory, rows
      <3>3. QED BY <2>1, <2>3, <3>1, <3>2
    <2>4. CASE (\E p \in Proxy : Accept(q, p)) \/ CheckCredential(q) \/ ClientAllowed(q) \/ ServedForNobody(q)
               \/ Return(q) \/ ReadScore(q)
      <3>1. UNCHANGED <<failed, blocked, cred, trying>>
        BY <2>4 DEF Accept, CheckCredential, ClientAllowed, ServedForNobody, Return, ReadScore, memory, rows, past
      <3>2. QED BY <2>1, <2>4, <3>1
    <2>5. CASE RecordFailedAuth(q) BY <1>0, <2>5, FailuresRecord
    <2>6. CASE Enforce(q) \/ SaveScore(q) BY <1>0, <2>6, FailuresEffect
    <2>7. QED BY <1>1, <2>2, <2>3, <2>4, <2>5, <2>6 DEF Login
  <1>2. ASSUME NEW q \in Conn, Serve(q) PROVE FailuresInv'
    <2>1. UNCHANGED <<failed, blocked, cred, trying>>
      BY <1>2 DEF Serve, GuardTarget, CheckConnectionLimits, GuardConnection, Dial, DialFails, BridgeEnds,
              RecordUsage, Release, memory, rows, past
    <2>2. QED BY <1>0, <1>2, <2>1, ServeHarmless, FailuresHarmless
  <1>3. ASSUME UNCHANGED <<failed, blocked, conn, trying>>,
               \A p \in Proxy : cred'[p] \in {cred[p], "suspended"}
        PROVE  FailuresInv'
    <2>1. \A p, f : Pending(p, f)' = Pending(p, f) /\ Entering(p)' = Entering(p)
      BY <1>3 DEF Pending, Entering
    <2>2. BlocksFit' /\ PendingFit' /\ SuspendsFit'
      BY <1>0, <1>3, <2>1, FailuresKept DEF FailuresInv
    <2>3. EnteringFit' BY <1>3, <2>1, EnteringKept DEF FailuresInv
    <2>4. EffectsFit'
      <3> SUFFICES ASSUME NEW q \in Conn, conn[q].pc \in {"readScore", "saveScore"}
                   PROVE  /\ Head(conn[q].todo) = Block => blocked[conn[q].proxy] = BlockSpan + 1
                          /\ Head(conn[q].todo) = Suspend => cred'[conn[q].proxy] = "suspended"
        BY <1>3 DEF EffectsFit
      <3>1. conn[q].proxy \in Proxy BY RestFits DEF Fits, Ready
      <3>2. QED BY <1>3, <3>1 DEF FailuresInv, EffectsFit
    <2>5. QED BY <2>2, <2>3, <2>4 DEF FailuresInv
  <1>4. ASSUME NEW p \in Proxy, DisableCredential(p) PROVE FailuresInv'
    <2>1. \A r \in Proxy : cred'[r] \in {cred[r], "suspended"}
      BY <1>4 DEF DisableCredential, TypeInv, TypeOK
    <2>2. QED BY <1>3, <1>4, <2>1 DEF DisableCredential, memory, past
  <1>5. ASSUME NEW c \in Customer, ClearRisk(c) \/ SubscriptionEnds(c) \/ SubscriptionStarts(c) PROVE FailuresInv'
    BY <1>3, <1>5 DEF ClearRisk, SubscriptionEnds, SubscriptionStarts, memory, past
  <1>6. CASE Tick BY <1>0, <1>6, FailuresTick
  <1>7. CASE Crash
    <2>1. Fresh' BY <1>7 DEF Crash, Fresh, past, TypeInv, TypeOK
    <2>2. QED BY <2>1, FreshNext
  <1>8. CASE UNCHANGED vars BY <1>3, <1>8 DEF vars, memory, rows, past
  <1>9. QED BY <1>1, <1>2, <1>4, <1>5, <1>6, <1>7, <1>8 DEF Next
-----------------------------------------------------------------------------
LEMMA Invariance == Spec => []IInv
  <1>1. Init => IInv
    <2> SUFFICES ASSUME Init PROVE IInv
      OBVIOUS
    <2>1. LimitsFit BY DEF Init, LimitsFit
    <2>2. ScoresFit BY DEF Init, Idle, At, ScoresFit
    <2>3. RiskAccounted BY DEF Init, RiskAccounted
    <2>4. FailuresInv
      <3>1. Fresh BY DEF Init, Fresh
      <3>2. QED BY <3>1, FreshFits
    <2>5. QED BY <2>1, <2>2, <2>3, <2>4, TypeInit, CountersInit, OvershootInit DEF IInv
  <1>2. IInv /\ [Next]_vars => IInv'
    BY TypeStep, CountersStep, LimitsStep, OvershootStep, ScoresStep, FailuresStep DEF IInv
  <1>3. QED
    BY <1>1, <1>2, PTL DEF Spec

\* The counters of the guard are the connections open, for any number of them
\* and whatever way each of them ends (CountersMatch of AbuseGuard).
THEOREM CountersCorrect == Spec => []CountersMatch
  <1>1. IInv => CountersMatch BY DEF IInv
  <1>2. QED BY <1>1, Invariance, PTL

\* A customer exceeds the limit of connections by no more than the number that
\* were past the check and not yet counted at once (LimitOvershoot of
\* AbuseGuard).
THEOREM LimitCorrect == Spec => []LimitOvershoot
  <1>1. IInv => LimitOvershoot BY DEF IInv
  <1>2. QED BY <1>1, Invariance, PTL

\* A score is what was added to it, unless two changes of it overlapped
\* (RiskAccounted of AbuseGuard).
THEOREM RiskCorrect == Spec => []RiskAccounted
  <1>1. IInv => RiskAccounted BY DEF IInv
  <1>2. QED BY <1>1, Invariance, PTL

\* In no ten minutes do more logins of an address fail at a proxy than the
\* threshold of the block and those that were past the look at the block when
\* it was set, for any thresholds, windows and number of connections
\* (FailuresBounded of AbuseGuard).
THEOREM FailuresCorrect == Spec => []FailuresBounded
  <1>1. IInv => FailuresBounded
    <2> SUFFICES ASSUME IInv, NEW p \in Proxy PROVE Failures(p, BlockSpan) + 1 <= BlockAt + trying[p]
      BY DEF FailuresBounded
    <2>1. PICK m \in Nat : m = Cardinality(Entering(p)) BY SetsFinite
    <2>2. Failures(p, BlockSpan) + m + 1 <= BlockAt + trying[p] BY <2>1 DEF IInv, FailuresInv, EnteringFit
    <2>3. BlockSpan \in 0..SuspendSpan BY AbuseAssumption
    <2>4. Failures(p, BlockSpan) \in Nat BY <2>3, FailuresOf DEF IInv
    <2>5. trying[p] \in Nat /\ BlockAt \in Nat BY AbuseAssumption DEF IInv, TypeInv, TypeOK
    <2>6. QED BY <2>1, <2>2, <2>4, <2>5
  <1>2. QED BY <1>1, Invariance, PTL

\* Failures of an hour that reach the threshold suspend the credential, however
\* logins, blocks and the clock interleave (ThresholdSuspends of AbuseGuard).
THEOREM SuspendCorrect == Spec => []ThresholdSuspends
  <1>1. IInv => ThresholdSuspends
    BY DEF IInv, FailuresInv, SuspendsFit, Pending, Suspend, ThresholdSuspends
  <1>2. QED BY <1>1, Invariance, PTL
=============================================================================
