-------------------------- MODULE VpnManagerProofs --------------------------
(***************************************************************************)
(* Proofs about VpnManager.  What a run of the module shows between calls  *)
(* is kept as an invariant that also says how far the call inside the      *)
(* mutex has come: Calling(n, S) is the call for node n standing in S.     *)
(***************************************************************************)
EXTENDS VpnManager, TLAPS

Dialing    == {"announce", "dial", "failed"}
Up         == {"session", "publish"}
Down       == {"close", "retire"}
Connecting == Dialing \cup Up
Calling(n, S) == lock # Free /\ proc[lock].node = n /\ proc[lock].pc \in S

\* The call inside the mutex is the head of what is left to do.
HeadsFit ==
    \A q \in Req : /\ proc[q].pc = "idle" => proc[q].todo = <<>>
                   /\ proc[q].pc \in Connecting => Head(proc[q].todo) = "connect"
                   /\ proc[q].pc \in Down \cup {"hangup"} => Head(proc[q].todo) = "disconnect"

TypeInv == TypeOK /\ HeadsFit

\* The manager's and the drivers' maps differ by the call under way.
MapsFit ==
    \A n \in Node :
        /\ n \in held <=> (n \in active \/ Calling(n, Up)) /\ ~Calling(n, Down)
        /\ Calling(n, Connecting) => n \notin active
        /\ n \in held => HasDriver(n) /\ (Type(n) = "wireguard" => n \in netns)
        /\ n \in active \/ Calling(n, Pcs) => HasDriver(n)
        /\ n \notin Created => n \notin active /\ n \notin held /\ row[n] = "none"

\* Rows and the copies to be saved over them.
RowsFit ==
    \A n \in Node :
        /\ n \in active => n \notin left /\ row[n] \in {"connected", "none"}
        /\ n \notin left /\ ~Calling(n, Connecting) =>
               row[n] # "connecting" /\ (row[n] = "connected" => n \in active)
        /\ Calling(n, Up) => proc[lock].copy = "connected"
        /\ Calling(n, {"hangup"}) /\ n \notin left =>
               proc[lock].copy # "connecting" /\ (proc[lock].copy = "connected" => n \in active)
        /\ Calling(n, Down) /\ n \notin left => proc[lock].copy \notin {"connected", "connecting"}

\* A removal that has only its delete left.
RemovalsFit ==
    /\ \A n \in active : row[n] = "none" => n \in raced
    /\ \A q \in Req : proc[q].todo = <<"delete">> =>
           \A n \in Node : proc[q].node = n /\ (n \in active \/ Calling(n, Connecting)) => n \in raced

\* The session table, through the check, the driver's work and the insert.
SessionsFit ==
    /\ SessionsAgree
    /\ SessionsPerRun
    /\ \A n \in Node :
        /\ n \notin Created => sessions[n] = 0
        /\ ~Express(n) => sessions[n] = 0
        /\ Calling(n, {"announce", "dial", "session"}) /\ Express(n) =>
               \A m \in Mates(n) \ {n} : sessions[m] = 0
        /\ n \notin active /\ ~Calling(n, {"publish"}) => sessions[n] <= crashes
        /\ Calling(n, {"retire"}) => sessions[n] <= crashes

IInv == TypeInv /\ MapsFit /\ RowsFit /\ RemovalsFit /\ SessionsFit
-----------------------------------------------------------------------------
ProcType == [pc : Pcs, todo : Todos, node : Node \cup {NoNode}, copy : Status]

\* The lists of calls a handler works through.
LEMMA TodoFacts ==
    ASSUME NEW t \in Todos, t # <<>>
    PROVE  /\ Head(t) \in {"connect", "disconnect", "verify", "delete"}
           /\ Tail(t) \in Todos
           /\ Tail(t) = <<"delete">> <=> t = <<"disconnect", "delete">>
           /\ "delete" \in {t[i] : i \in DOMAIN t} <=> t \in {<<"disconnect", "delete">>, <<"delete">>}
           /\ t = <<"delete">> <=> Head(t) = "delete"
  <1>1. CASE t = <<"connect">> BY <1>1 DEF Todos
  <1>2. CASE t = <<"disconnect">> BY <1>2 DEF Todos
  <1>3. CASE t = <<"connect", "verify">> BY <1>3 DEF Todos
  <1>4. CASE t = <<"verify">> BY <1>4 DEF Todos
  <1>5. CASE t = <<"connect", "disconnect">> BY <1>5 DEF Todos
  <1>6. CASE t = <<"disconnect", "delete">> BY <1>6 DEF Todos
  <1>7. CASE t = <<"delete">> BY <1>7 DEF Todos
  <1>8. QED BY <1>1, <1>2, <1>3, <1>4, <1>5, <1>6, <1>7 DEF Todos

\* A step inside the mutex, with the copy changed or not.
LEMMA CopiedFits ==
    ASSUME TypeOK, NEW q \in Req, NEW pc \in Pcs, NEW st \in Status, Copied(q, pc, st)
    PROVE  /\ proc' \in [Req -> ProcType]
           /\ \A r \in Req \ {q} : proc'[r] = proc[r]
           /\ proc'[q].pc = pc /\ proc'[q].copy = st
           /\ proc'[q].todo = proc[q].todo /\ proc'[q].node = proc[q].node
  <1>1. proc[q] \in ProcType BY DEF TypeOK, ProcType
  <1>2. proc'[q] = [proc[q] EXCEPT !.pc = pc, !.copy = st] BY DEF Copied, TypeOK
  <1>3. proc'[q] \in ProcType BY <1>1, <1>2 DEF ProcType
  <1>4. QED BY <1>1, <1>2, <1>3 DEF Copied, TypeOK, ProcType

LEMMA GotoFits ==
    ASSUME TypeOK, NEW q \in Req, NEW pc \in Pcs, Goto(q, pc)
    PROVE  /\ proc' \in [Req -> ProcType]
           /\ \A r \in Req \ {q} : proc'[r] = proc[r]
           /\ proc'[q].pc = pc /\ proc'[q].copy = proc[q].copy
           /\ proc'[q].todo = proc[q].todo /\ proc'[q].node = proc[q].node
  <1>1. proc[q] \in ProcType BY DEF TypeOK, ProcType
  <1>2. proc'[q] = [proc[q] EXCEPT !.pc = pc] BY DEF Goto, TypeOK
  <1>3. proc'[q] \in ProcType BY <1>1, <1>2 DEF ProcType
  <1>4. QED BY <1>1, <1>2, <1>3 DEF Goto, TypeOK, ProcType

\* A call that returns leaves the mutex; only a removal that was past its
\* disconnect has its delete left.
LEMMA ReturnFits ==
    ASSUME TypeOK, NEW q \in Req, proc[q].pc # "idle", Return(q)
    PROVE  /\ proc' \in [Req -> ProcType]
           /\ \A r \in Req \ {q} : proc'[r] = proc[r]
           /\ \/ proc'[q].pc = "idle" /\ proc'[q].todo = <<>>
              \/ /\ proc'[q].pc = "ready" /\ proc'[q].todo = Tail(proc[q].todo)
                 /\ proc'[q].todo # <<>> /\ proc'[q].node = proc[q].node
  <1>1. proc[q] \in ProcType /\ proc[q].todo \in Todos /\ proc[q].todo # <<>>
    BY DEF TypeOK, ProcType
  <1>2. Tail(proc[q].todo) \in Todos BY <1>1, TodoFacts
  <1>3. proc'[q] = Rest(proc[q]) BY DEF Return, TypeOK
  <1>4. Idle \in ProcType BY DEF Idle, ProcType, Pcs, Todos, Status
  <1>5. Rest(proc[q]) \in ProcType
    BY <1>1, <1>2, <1>4 DEF Rest, ProcType, Pcs
  <1>6. proc' \in [Req -> ProcType] /\ \A r \in Req \ {q} : proc'[r] = proc[r]
    BY <1>5 DEF Return, TypeOK, ProcType
  <1>7. CASE Tail(proc[q].todo) = <<>> BY <1>3, <1>6, <1>7 DEF Rest, Idle
  <1>8. CASE Tail(proc[q].todo) # <<>>
    <2>1. proc'[q] = [proc[q] EXCEPT !.pc = "ready", !.todo = Tail(proc[q].todo)]
      BY <1>3, <1>8 DEF Rest
    <2>2. QED BY <1>1, <1>6, <1>8, <2>1 DEF ProcType
  <1>9. QED BY <1>7, <1>8

LEMMA FailFits ==
    ASSUME TypeOK, NEW q \in Req, proc[q].pc # "idle", Fail(q)
    PROVE  /\ proc' \in [Req -> ProcType]
           /\ \A r \in Req \ {q} : proc'[r] = proc[r]
           /\ \/ proc'[q].pc = "idle" /\ proc'[q].todo = <<>>
              \/ /\ proc'[q].pc = "ready" /\ proc'[q].todo = <<"delete">>
                 /\ proc'[q].todo = Tail(proc[q].todo)
                 /\ proc[q].todo = <<"disconnect", "delete">> /\ proc'[q].node = proc[q].node
  <1> DEFINE t == proc[q].todo
  <1>1. t \in Todos /\ t # <<>> BY DEF TypeOK, ProcType
  <1>2. CASE "delete" \in {t[i] : i \in DOMAIN t}
    <2>1. Return(q) BY <1>2 DEF Fail
    <2>2. t \in {<<"disconnect", "delete">>, <<"delete">>} BY <1>1, <1>2, TodoFacts
    <2>3. CASE t = <<"delete">>
      <3>1. Tail(t) = <<>> BY <2>3
      <3>2. QED BY <2>1, <3>1, ReturnFits
    <2>4. CASE t = <<"disconnect", "delete">>
      <3>1. Tail(t) = <<"delete">> BY <2>4
      <3>2. QED BY <2>1, <2>4, <3>1, ReturnFits
    <2>5. QED BY <2>2, <2>3, <2>4
  <1>3. CASE "delete" \notin {t[i] : i \in DOMAIN t}
    <2>1. proc' = [proc EXCEPT ![q] = Idle] BY <1>3 DEF Fail
    <2>2. Idle \in ProcType BY DEF Idle, ProcType, Pcs, Todos, Status
    <2>3. QED BY <2>1, <2>2 DEF Idle, TypeOK, ProcType
  <1>4. QED BY <1>2, <1>3
\* What a step does to the requests: the caller moves on, stays, or leaves.
Others(q) == /\ proc' \in [Req -> ProcType]
             /\ \A r \in Req \ {q} : proc'[r] = proc[r]
Moves(q, pc) == /\ Others(q)
                /\ proc'[q].pc = pc
                /\ proc'[q].todo = proc[q].todo /\ proc'[q].node = proc[q].node
Leaves(q) == /\ Others(q)
             /\ \/ proc'[q].pc = "idle" /\ proc'[q].todo = <<>>
                \/ /\ proc'[q].pc = "ready" /\ proc'[q].todo # <<>>
                   /\ proc'[q].todo = Tail(proc[q].todo)
                   /\ proc'[q].node = proc[q].node

LEMMA LeavesFits ==
    ASSUME TypeOK, NEW q \in Req, proc[q].pc # "idle", Return(q) \/ Fail(q)
    PROVE  Leaves(q)
  <1>1. CASE Return(q) BY <1>1, ReturnFits DEF Leaves, Others
  <1>2. CASE Fail(q)
    <2>1. <<"delete">> # <<>> OBVIOUS
    <2>2. QED BY <1>2, <2>1, FailFits DEF Leaves, Others
  <1>3. QED BY <1>1, <1>2

\* Types and holder of the mutex after each of the four kinds of step.
Typed == /\ row \in [Node -> Status] /\ made \in [Node -> Made \cup {Unmade}]
         /\ sessions \in [Node -> Nat] /\ crashes \in Nat
         /\ active \in SUBSET Node /\ held \in SUBSET Node /\ netns \in SUBSET Node
         /\ cli \in Node \cup {NoNode}
         /\ raced \in SUBSET Node /\ left \in SUBSET Node

Inside == Connecting \cup Down \cup {"hangup"}

LEMMA EnterFits ==
    ASSUME TypeInv, Typed', made' = made, NEW q \in Req, lock = Free, lock' = q, NEW pc \in {"announce", "hangup"},
           proc[q].pc = "ready", Moves(q, pc),
           Head(proc[q].todo) = (IF pc = "announce" THEN "connect" ELSE "disconnect")
    PROVE  TypeInv'
  <1> USE DEF Moves, Leaves, Others, Inside, Connecting, Dialing, Up, Down
  <1>1. proc' \in [Req -> ProcType] /\ \A r \in Req \ {q} : proc'[r] = proc[r] OBVIOUS
  <1>2. Created' = Created BY DEF Created
  <1>3. lock' \in Req \cup {Free} BY DEF TypeInv, TypeOK
  <1>4. \A r \in Req : proc'[r].pc \notin {"idle", "ready"} <=> lock' = r
    BY VpnAssumption DEF TypeInv, TypeOK
  <1>5. \A r \in Req : proc'[r].pc # "idle" => proc'[r].todo # <<>> /\ proc'[r].node \in Created'
    BY <1>2 DEF TypeInv, TypeOK
  <1>6. HeadsFit' BY DEF TypeInv, HeadsFit
  <1>7. QED BY <1>1, <1>3, <1>4, <1>5, <1>6 DEF TypeInv, TypeOK, Typed, ProcType

LEMMA MoveFits ==
    ASSUME TypeInv, Typed', made' = made, NEW q \in Req, lock' = lock, NEW pc \in Inside, Moves(q, pc),
           \/ proc[q].pc \in Connecting /\ pc \in Connecting
           \/ proc[q].pc \in Down \cup {"hangup"} /\ pc \in Down \cup {"hangup"}
    PROVE  TypeInv'
  <1> USE DEF Moves, Leaves, Others, Inside, Connecting, Dialing, Up, Down
  <1>1. proc' \in [Req -> ProcType] /\ \A r \in Req \ {q} : proc'[r] = proc[r] OBVIOUS
  <1>2. Created' = Created BY DEF Created
  <1>3. lock' \in Req \cup {Free} BY DEF TypeInv, TypeOK
  <1>4. \A r \in Req : proc'[r].pc \notin {"idle", "ready"} <=> lock' = r
    BY VpnAssumption DEF TypeInv, TypeOK
  <1>5. \A r \in Req : proc'[r].pc # "idle" => proc'[r].todo # <<>> /\ proc'[r].node \in Created'
    BY <1>2 DEF TypeInv, TypeOK
  <1>6. HeadsFit' BY DEF TypeInv, HeadsFit
  <1>7. QED BY <1>1, <1>3, <1>4, <1>5, <1>6 DEF TypeInv, TypeOK, Typed, ProcType

LEMMA LeaveFits ==
    ASSUME TypeInv, Typed', made' = made, NEW q \in Req, Leaves(q), proc[q].pc # "idle",
           \/ proc[q].pc = "ready" /\ lock' = lock
           \/ proc[q].pc \in Inside /\ lock' = Free
    PROVE  TypeInv'
  <1> USE DEF Moves, Leaves, Others, Inside, Connecting, Dialing, Up, Down
  <1>1. proc' \in [Req -> ProcType] /\ \A r \in Req \ {q} : proc'[r] = proc[r] OBVIOUS
  <1>2. Created' = Created BY DEF Created
  <1>3. lock' \in Req \cup {Free} BY DEF TypeInv, TypeOK
  <1>4. \A r \in Req : proc'[r].pc \notin {"idle", "ready"} <=> lock' = r
    BY VpnAssumption DEF TypeInv, TypeOK
  <1>5. \A r \in Req : proc'[r].pc # "idle" => proc'[r].todo # <<>> /\ proc'[r].node \in Created'
    BY <1>2 DEF TypeInv, TypeOK
  <1>6. HeadsFit' BY DEF TypeInv, HeadsFit
  <1>7. QED BY <1>1, <1>3, <1>4, <1>5, <1>6 DEF TypeInv, TypeOK, Typed, ProcType

\* Every step keeps the types and who is inside the mutex.
LEMMA TypeStep == TypeInv /\ [Next]_vars => TypeInv'
  <1> SUFFICES ASSUME TypeInv, [Next]_vars PROVE TypeInv' OBVIOUS
  <1> USE DEF Inside, Connecting, Dialing, Up, Down
  <1>0. TypeOK /\ Typed BY DEF TypeInv, TypeOK, Typed
  <1>1. ASSUME NEW q \in Req, ConnectReturns(q) PROVE TypeInv'
    <2>1. proc[q].pc = "ready" /\ lock' = lock /\ made' = made /\ (Return(q) \/ Fail(q))
      BY <1>1 DEF ConnectReturns, Turn
    <2>2. proc[q].node \in Node /\ proc[q].copy \in Status
      BY <1>0, <2>1 DEF TypeOK, ProcType, Created
    <2>3. Typed' BY <1>0, <1>1, <2>2 DEF ConnectReturns, Turn, Typed, Status
    <2>4. Leaves(q) BY <1>0, <2>1, LeavesFits
    <2>5. QED BY <2>1, <2>3, <2>4, LeaveFits
  <1>2. ASSUME NEW q \in Req, EnterConnect(q) PROVE TypeInv'
    <2>1. /\ proc[q].pc = "ready" /\ Head(proc[q].todo) = "connect"
          /\ lock = Free /\ lock' = q /\ made' = made /\ Copied(q, "announce", "connecting")
      BY <1>2 DEF EnterConnect, Turn
    <2>2. proc[q].node \in Node BY <1>0, <2>1 DEF TypeOK, Created
    <2>3. Typed' BY <1>0, <1>2, <2>2 DEF EnterConnect, Typed
    <2>4. "connecting" \in Status /\ "announce" \in Pcs BY <2>2, <1>0 DEF Typed, Status, Pcs
    <2>5. Moves(q, "announce") BY <1>0, <2>1, <2>4, CopiedFits DEF Moves, Others
    <2>6. QED BY <2>1, <2>3, <2>5, EnterFits
  <1>3. ASSUME NEW q \in Req, SaveConnecting(q) PROVE TypeInv'
    <2>1. proc[q].pc = "announce" /\ lock' = lock /\ made' = made /\ Goto(q, "dial")
      BY <1>3 DEF SaveConnecting, At
    <2>2. proc[q].node \in Node BY <1>0, <2>1 DEF TypeOK, Created
    <2>3. Typed' BY <1>0, <1>3, <2>2 DEF SaveConnecting, At, SaveAs, Typed, Status
    <2>4. Moves(q, "dial") BY <1>0, <2>1, GotoFits DEF Moves, Others, Pcs
    <2>5. QED BY <2>1, <2>3, <2>4, MoveFits
  <1>4. ASSUME NEW q \in Req, DriverConnect(q) PROVE TypeInv'
    <2>1. /\ proc[q].pc = "dial" /\ lock' = lock /\ made' = made
          /\ Goto(q, "session") \/ Copied(q, "session", "connected") \/ Copied(q, "failed", "failed")
      BY <1>4 DEF DriverConnect, MockConnect, WireGuardConnect, ExpressConnect, At, DriverUp, DriverFails
    <2>2. proc[q].node \in Node BY <1>0, <2>1 DEF TypeOK, Created
    <2>3. Typed' BY <1>0, <1>4, <2>2 DEF DriverConnect, MockConnect, WireGuardConnect, ExpressConnect, DriverUp, DriverFails, Typed
    <2>4. Moves(q, "session") \/ Moves(q, "failed")
      BY <1>0, <2>1, GotoFits, CopiedFits DEF Moves, Others, Pcs, Status
    <2>5. QED BY <2>1, <2>3, <2>4, MoveFits
  <1>5. ASSUME NEW q \in Req, CreateSession(q) PROVE TypeInv'
    <2>1. proc[q].pc = "session" /\ lock' = lock /\ made' = made /\ Goto(q, "publish")
      BY <1>5 DEF CreateSession, At
    <2>2. proc[q].node \in Node BY <1>0, <2>1 DEF TypeOK, Created
    <2>3. Typed' BY <1>0, <1>5, <2>2 DEF CreateSession, At, Typed, Status
    <2>4. Moves(q, "publish") BY <1>0, <2>1, GotoFits DEF Moves, Others, Pcs
    <2>5. QED BY <2>1, <2>3, <2>4, MoveFits
  <1>6. ASSUME NEW q \in Req, SaveConnected(q) PROVE TypeInv'
    <2>1. proc[q].pc = "publish" /\ lock' = Free /\ made' = made /\ (Return(q) \/ Fail(q))
      BY <1>6 DEF SaveConnected, At, SaveAs, Leave
    <2>2. proc[q].node \in Node /\ proc[q].copy \in Status
      BY <1>0, <2>1 DEF TypeOK, ProcType, Created
    <2>3. Typed' BY <1>0, <1>6, <2>2 DEF SaveConnected, At, SaveAs, Leave, Typed, Status
    <2>4. Leaves(q) BY <1>0, <2>1, LeavesFits
    <2>5. QED BY <2>1, <2>3, <2>4, LeaveFits
  <1>7. ASSUME NEW q \in Req, SaveFailed(q) PROVE TypeInv'
    <2>1. proc[q].pc = "failed" /\ lock' = Free /\ made' = made /\ (Return(q) \/ Fail(q))
      BY <1>7 DEF SaveFailed, At, SaveAs, Leave
    <2>2. proc[q].node \in Node /\ proc[q].copy \in Status
      BY <1>0, <2>1 DEF TypeOK, ProcType, Created
    <2>3. Typed' BY <1>0, <1>7, <2>2 DEF SaveFailed, At, SaveAs, Leave, Typed, Status
    <2>4. Leaves(q) BY <1>0, <2>1, LeavesFits
    <2>5. QED BY <2>1, <2>3, <2>4, LeaveFits
  <1>8. ASSUME NEW q \in Req, DisconnectReturns(q) PROVE TypeInv'
    <2>1. proc[q].pc = "ready" /\ lock' = lock /\ made' = made /\ (Return(q) \/ Fail(q))
      BY <1>8 DEF DisconnectReturns, Turn
    <2>2. proc[q].node \in Node /\ proc[q].copy \in Status
      BY <1>0, <2>1 DEF TypeOK, ProcType, Created
    <2>3. Typed' BY <1>0, <1>8, <2>2 DEF DisconnectReturns, Turn, Typed, Status
    <2>4. Leaves(q) BY <1>0, <2>1, LeavesFits
    <2>5. QED BY <2>1, <2>3, <2>4, LeaveFits
  <1>9. ASSUME NEW q \in Req, EnterDisconnect(q) PROVE TypeInv'
    <2>1. /\ proc[q].pc = "ready" /\ Head(proc[q].todo) = "disconnect"
          /\ lock = Free /\ lock' = q /\ made' = made /\ Copied(q, "hangup", row[proc[q].node])
      BY <1>9 DEF EnterDisconnect, Turn
    <2>2. proc[q].node \in Node BY <1>0, <2>1 DEF TypeOK, Created
    <2>3. Typed' BY <1>0, <1>9, <2>2 DEF EnterDisconnect, Typed
    <2>4. row[proc[q].node] \in Status /\ "hangup" \in Pcs BY <2>2, <1>0 DEF Typed, Status, Pcs
    <2>5. Moves(q, "hangup") BY <1>0, <2>1, <2>4, CopiedFits DEF Moves, Others
    <2>6. QED BY <2>1, <2>3, <2>5, EnterFits
  <1>10. ASSUME NEW q \in Req, DriverDisconnect(q) PROVE TypeInv'
    <2>1. /\ proc[q].pc = "hangup" /\ lock' = lock /\ made' = made
          /\ Goto(q, "close") \/ Copied(q, "close", "disconnected")
      BY <1>10 DEF DriverDisconnect, MockDisconnect, WireGuardDisconnect, ExpressDisconnect, At, DriverDown
    <2>2. proc[q].node \in Node BY <1>0, <2>1 DEF TypeOK, Created
    <2>3. Typed' BY <1>0, <1>10, <2>2 DEF DriverDisconnect, MockDisconnect, WireGuardDisconnect, ExpressDisconnect, DriverDown, Typed
    <2>4. Moves(q, "close")
      BY <1>0, <2>1, GotoFits, CopiedFits DEF Moves, Others, Pcs, Status
    <2>5. QED BY <2>1, <2>3, <2>4, MoveFits
  <1>11. ASSUME NEW q \in Req, DisconnectFails(q) PROVE TypeInv'
    <2>1. proc[q].pc = "hangup" /\ lock' = Free /\ made' = made /\ (Return(q) \/ Fail(q))
      BY <1>11 DEF DisconnectFails, At, Leave
    <2>2. proc[q].node \in Node /\ proc[q].copy \in Status
      BY <1>0, <2>1 DEF TypeOK, ProcType, Created
    <2>3. Typed' BY <1>0, <1>11, <2>2 DEF DisconnectFails, At, Leave, Typed, Status
    <2>4. Leaves(q) BY <1>0, <2>1, LeavesFits
    <2>5. QED BY <2>1, <2>3, <2>4, LeaveFits
  <1>12. ASSUME NEW q \in Req, CloseSession(q) PROVE TypeInv'
    <2>1. proc[q].pc = "close" /\ lock' = lock /\ made' = made /\ Goto(q, "retire")
      BY <1>12 DEF CloseSession, At
    <2>2. proc[q].node \in Node BY <1>0, <2>1 DEF TypeOK, Created
    <2>3. Typed' BY <1>0, <1>12, <2>2 DEF CloseSession, At, Mates, Typed, Status
    <2>4. Moves(q, "retire") BY <1>0, <2>1, GotoFits DEF Moves, Others, Pcs
    <2>5. QED BY <2>1, <2>3, <2>4, MoveFits
  <1>13. ASSUME NEW q \in Req, SaveDisconnected(q) PROVE TypeInv'
    <2>1. proc[q].pc = "retire" /\ lock' = Free /\ made' = made /\ (Return(q) \/ Fail(q))
      BY <1>13 DEF SaveDisconnected, At, SaveAs, Leave
    <2>2. proc[q].node \in Node /\ proc[q].copy \in Status
      BY <1>0, <2>1 DEF TypeOK, ProcType, Created
    <2>3. Typed' BY <1>0, <1>13, <2>2 DEF SaveDisconnected, At, SaveAs, Leave, Typed, Status
    <2>4. Leaves(q) BY <1>0, <2>1, LeavesFits
    <2>5. QED BY <2>1, <2>3, <2>4, LeaveFits
  <1>14. ASSUME NEW q \in Req, VerifyConnected(q) PROVE TypeInv'
    <2>1. proc[q].pc = "ready" /\ lock' = lock /\ made' = made /\ (Return(q) \/ Fail(q))
      BY <1>14 DEF VerifyConnected, Turn
    <2>2. proc[q].node \in Node /\ proc[q].copy \in Status
      BY <1>0, <2>1 DEF TypeOK, ProcType, Created
    <2>3. Typed' BY <1>0, <1>14, <2>2 DEF VerifyConnected, Turn, Typed, Status
    <2>4. Leaves(q) BY <1>0, <2>1, LeavesFits
    <2>5. QED BY <2>1, <2>3, <2>4, LeaveFits
  <1>15. ASSUME NEW q \in Req, DeleteRow(q) PROVE TypeInv'
    <2>1. proc[q].pc = "ready" /\ lock' = lock /\ made' = made /\ (Return(q) \/ Fail(q))
      BY <1>15 DEF DeleteRow, Turn, SaveAs
    <2>2. proc[q].node \in Node /\ proc[q].copy \in Status
      BY <1>0, <2>1 DEF TypeOK, ProcType, Created
    <2>3. Typed' BY <1>0, <1>15, <2>2 DEF DeleteRow, Turn, SaveAs, Typed, Status
    <2>4. Leaves(q) BY <1>0, <2>1, LeavesFits
    <2>5. QED BY <2>1, <2>3, <2>4, LeaveFits
  <1>16. ASSUME NEW q \in Req, NEW n \in Node, Request(q, n) PROVE TypeInv'
    <2>1. PICK todo \in Todos \ {<<>>} : n \in Created /\ Begin(q, n, todo)
      BY <1>16 DEF Request, ConnectVPN, DisconnectVPN, ConnectAndCreateProxy, ValidateNode, DeleteVPN, Todos
    <2>2. proc' = [proc EXCEPT ![q] = [pc |-> "ready", todo |-> todo, node |-> n, copy |-> "none"]]
      BY <2>1 DEF Begin
    <2>3. /\ proc' \in [Req -> ProcType]
          /\ \A r \in Req \ {q} : proc'[r] = proc[r]
          /\ proc'[q].pc = "ready" /\ proc'[q].todo = todo /\ proc'[q].node = n
      BY <1>0, <2>2 DEF TypeOK, ProcType, Pcs, Status
    <2>4. proc[q].pc = "idle" BY <2>1 DEF Begin
    <2>5. QED BY <2>1, <2>3, <2>4 DEF Begin, TypeInv, TypeOK, HeadsFit, ProcType, Created
  <1>17. ASSUME NEW n \in Node, CreateVPN(n) \/ CreateExpressVPNNode(n) PROVE TypeInv'
    <2>1. PICK type \in Types, agent \in Agent : CreateNode(n, type, agent)
      BY <1>17, VpnAssumption DEF CreateVPN, CreateExpressVPNNode
    <2>2. made' \in [Node -> Made \cup {Unmade}] /\ row' \in [Node -> Status]
      BY <1>0, <2>1 DEF CreateNode, Typed, Made, Status
    <2>3. \A m \in Created : m \in Created'
      <3>1. SUFFICES ASSUME NEW m \in Node, made[m] # Unmade PROVE made'[m] # Unmade BY DEF Created
      <3>2. [type |-> type, agent |-> agent] # Unmade BY VpnAssumption DEF Unmade
      <3>3. QED BY <1>0, <2>1, <3>1, <3>2 DEF CreateNode, Typed
    <2>4. QED BY <2>1, <2>2, <2>3 DEF CreateNode, TypeInv, TypeOK, HeadsFit
  <1>18. CASE ProcessEnds
    <2>1. Idle \in ProcType BY DEF Idle, ProcType, Pcs, Todos, Status
    <2>2. QED BY <1>18, <2>1, VpnAssumption DEF ProcessEnds, TypeInv, TypeOK, HeadsFit, ProcType, Idle
  <1>19. CASE UNCHANGED vars
    BY <1>19 DEF vars, TypeInv, TypeOK, HeadsFit, Created, Made, Unmade, Status, Pcs, Todos
  <1>20. QED BY <1>1, <1>2, <1>3, <1>4, <1>5, <1>6, <1>7, <1>8, <1>9, <1>10, <1>11, <1>12, <1>13, <1>14, <1>15, <1>16, <1>17, <1>18, <1>19 DEF Next, Step

\* Every step keeps what the maps, rows, removals and sessions are to each other.
LEMMA InvStep == IInv /\ [Next]_vars => IInv'
  <1> SUFFICES ASSUME IInv, [Next]_vars PROVE IInv' OBVIOUS
  <1> USE DEF Connecting, Dialing, Up, Down
  <1>a. TypeInv /\ TypeOK /\ TypeInv' /\ TypeOK' BY TypeStep DEF IInv, TypeInv
  <1>b. MapsFit /\ RowsFit /\ RemovalsFit /\ SessionsFit BY DEF IInv
  <1>c. ASSUME MapsFit', RowsFit', RemovalsFit', SessionsFit' PROVE IInv' BY <1>a, <1>c DEF IInv
  <1>d. ASSUME NEW q \in Req, proc[q].pc # "idle"
        PROVE  /\ proc[q].node \in Node /\ proc[q].node \in Created
               /\ proc[q].todo \in Todos /\ proc[q].todo # <<>> /\ proc[q].copy \in Status
               /\ proc[q].pc \in Connecting \cup Down \cup {"hangup"} <=> lock = q
               /\ proc[q].pc \in Connecting => proc[q].todo # <<"delete">> /\ Tail(proc[q].todo) # <<"delete">>
               /\ proc[q].pc \in Down \cup {"hangup"} => proc[q].todo # <<"delete">>
               /\ Tail(proc[q].todo) = <<"delete">> <=> proc[q].todo = <<"disconnect", "delete">>
    <2>1. proc[q].todo \in Todos /\ proc[q].todo # <<>> /\ proc[q].node \in Node /\ proc[q].node \in Created
          /\ proc[q].copy \in Status
      BY <1>a, <1>d DEF TypeOK, Created
    <2>2. proc[q].pc \in Connecting \cup Down \cup {"hangup"} <=> lock = q
      BY <1>a, <1>d DEF TypeOK, Pcs
    <2>3. /\ proc[q].pc \in Connecting => Head(proc[q].todo) = "connect"
          /\ proc[q].pc \in Down \cup {"hangup"} => Head(proc[q].todo) = "disconnect"
      BY <1>a DEF TypeInv, HeadsFit
    <2>4. /\ Tail(proc[q].todo) = <<"delete">> <=> proc[q].todo = <<"disconnect", "delete">>
          /\ proc[q].todo = <<"delete">> <=> Head(proc[q].todo) = "delete"
      BY <2>1, TodoFacts
    <2>5. Head(<<"disconnect", "delete">>) = "disconnect" OBVIOUS
    <2>6. QED BY <2>1, <2>2, <2>3, <2>4, <2>5
  <1>e. <<>> # <<"delete">> OBVIOUS
  <1>1. ASSUME NEW q \in Req, ConnectReturns(q) PROVE IInv'
    <2>1. proc[q].pc = "ready" /\ lock' = lock /\ (Return(q) \/ Fail(q)) BY <1>1 DEF ConnectReturns, Turn
    <2>2. Leaves(q) BY <1>a, <2>1, LeavesFits
    <2>3. lock # q BY <1>d, <2>1
    <2> DEFINE p == proc[q]
    <2>4. /\ p.node \in Node /\ lock' = lock
          /\ \A r \in Req \ {q} : proc'[r] = proc[r]
          /\ lock # Free => lock \in Req /\ proc'[lock] = proc[lock]
          /\ proc'[q].todo = <<"delete">> => p.todo = <<"disconnect", "delete">> /\ proc'[q].node = p.node
      BY <1>a, <1>d, <1>e, <2>1, <2>2, <2>3 DEF Leaves, Others, TypeOK
    <2>6. MapsFit' BY <1>a, <1>b, <1>d, <2>1, <2>3, <2>4, <1>1 DEF ConnectReturns, Turn, MapsFit, Calling, HasDriver, Type, Created, Pcs
    <2>7. RowsFit' BY <1>a, <1>b, <1>d, <2>1, <2>3, <2>4, <1>1 DEF ConnectReturns, Turn, RowsFit, MapsFit, Calling, Type, Created, Pcs
    <2>8. RemovalsFit' BY <1>a, <1>b, <1>d, <2>1, <2>3, <2>4, <1>1 DEF ConnectReturns, Turn, RemovalsFit, MapsFit, RowsFit, Calling, HasDriver, Type, Pcs
    <2>9. SessionsFit' BY <1>a, <1>b, <1>d, <2>1, <2>3, <2>4, <1>1 DEF ConnectReturns, Turn, SessionsFit, MapsFit, Calling, Express, Type, Mates, Created, Pcs, SessionsAgree, SessionsPerRun, TypeOK
    <2>10. QED BY <1>c, <2>6, <2>7, <2>8, <2>9
  <1>2. ASSUME NEW q \in Req, EnterConnect(q) PROVE IInv'
    <2>1. proc[q].pc = "ready" /\ lock = Free /\ lock' = q /\ Copied(q, "announce", "connecting") BY <1>2 DEF EnterConnect, Turn
    <2>2. "connecting" \in Status /\ "announce" \in Pcs BY <1>a, <1>d, <2>1 DEF TypeOK, Status, Pcs
    <2> DEFINE p == proc[q]
    <2>3. lock = Free /\ lock' = q /\ q # Free BY <2>1, VpnAssumption
    <2>4. /\ p.node \in Node /\ p.node \in Created
          /\ \A r \in Req \ {q} : proc'[r] = proc[r]
          /\ proc'[q].pc = "announce" /\ proc'[q].node = p.node /\ proc'[q].todo = p.todo
          /\ proc'[q].copy = "connecting"
      BY <1>a, <1>d, <2>1, <2>2, CopiedFits
    <2>5. p.todo # <<"delete">>
      BY <1>a, <1>d, <1>2, <2>1, TodoFacts DEF EnterConnect, Turn
    <2>a. p.node \notin active BY <1>b, <1>2, <2>4 DEF EnterConnect, AlreadyUp, RowsFit
    <2>6. MapsFit' BY <1>a, <1>b, <2>1, <2>3, <2>4, <2>5, <2>a, <1>2 DEF EnterConnect, Turn, RemovalPassed, AlreadyUp, AgentBusy, MapsFit, Calling, HasDriver, Type, Created, Pcs
    <2>7. RowsFit' BY <1>a, <1>b, <2>1, <2>3, <2>4, <2>5, <2>a, <1>2 DEF EnterConnect, Turn, RemovalPassed, AlreadyUp, AgentBusy, HasDriver, RowsFit, MapsFit, Calling, Type, Created, Pcs
    <2>8. RemovalsFit' BY <1>a, <1>b, <2>1, <2>3, <2>4, <2>5, <2>a, <1>2 DEF EnterConnect, Turn, RemovalPassed, AlreadyUp, AgentBusy, RemovalsFit, MapsFit, RowsFit, Calling, HasDriver, Type, Pcs
    <2>9. SessionsFit' BY <1>a, <1>b, <2>1, <2>3, <2>4, <2>5, <2>a, <1>2 DEF EnterConnect, Turn, RemovalPassed, AlreadyUp, AgentBusy, HasDriver, SessionsFit, MapsFit, Calling, Express, Type, Mates, Created, Pcs, SessionsAgree, SessionsPerRun, TypeOK
    <2>10. QED BY <1>c, <2>6, <2>7, <2>8, <2>9
  <1>3. ASSUME NEW q \in Req, SaveConnecting(q) PROVE IInv'
    <2>1. proc[q].pc = "announce" /\ lock' = lock /\ Goto(q, "dial") BY <1>3 DEF SaveConnecting, At
    <2> DEFINE p == proc[q]
    <2>3. lock = q /\ lock # Free /\ lock' = q BY <1>d, <2>1, VpnAssumption
    <2>4. /\ p.node \in Node /\ p.node \in Created /\ p.copy \in Status /\ p.pc = "announce" /\ p.todo # <<"delete">>
          /\ \A r \in Req \ {q} : proc'[r] = proc[r]
          /\ proc'[q].pc = "dial" /\ proc'[q].node = p.node /\ proc'[q].todo = p.todo /\ proc'[q].copy = p.copy
      BY <1>a, <1>d, <2>1, GotoFits DEF Pcs
    <2>5. row'[p.node] = "connecting" /\ \A m \in Node \ {p.node} : row'[m] = row[m]
      BY <1>a, <1>3, <2>4 DEF SaveConnecting, SaveAs, TypeOK
    <2>6. MapsFit' BY <1>a, <1>b, <2>1, <2>3, <2>4, <2>5, <1>3 DEF SaveConnecting, At, SaveAs, MapsFit, Calling, HasDriver, Type, Created, Pcs
    <2>7. RowsFit' BY <1>a, <1>b, <2>1, <2>3, <2>4, <2>5, <1>3 DEF SaveConnecting, At, SaveAs, RowsFit, MapsFit, Calling, Type, Created, Pcs
    <2>8. RemovalsFit' BY <1>a, <1>b, <2>1, <2>3, <2>4, <2>5, <1>3 DEF SaveConnecting, At, SaveAs, RemovalsFit, MapsFit, RowsFit, Calling, HasDriver, Type, Pcs
    <2>9. SessionsFit' BY <1>a, <1>b, <2>1, <2>3, <2>4, <2>5, <1>3 DEF SaveConnecting, At, SaveAs, SessionsFit, MapsFit, Calling, Express, Type, Mates, Created, Pcs, SessionsAgree, SessionsPerRun, TypeOK
    <2>10. QED BY <1>c, <2>6, <2>7, <2>8, <2>9
  <1>4. ASSUME NEW q \in Req, DriverConnect(q) PROVE IInv'
    <2>1. proc[q].pc = "dial" /\ lock' = lock BY <1>4 DEF DriverConnect, At
    <2> DEFINE p == proc[q]
    <2>2. \/ Goto(q, "session") /\ p.node \in held /\ held' = held /\ netns' = netns
          \/ /\ Copied(q, "session", "connected") /\ held' = held \cup {p.node}
             /\ Type(p.node) = "wireguard" => netns' = netns \cup {p.node}
             /\ Type(p.node) # "wireguard" => netns' = netns
          \/ /\ Copied(q, "failed", "failed") /\ held' = held
             /\ Type(p.node) = "wireguard" => p.node \notin held /\ netns' \in {netns, netns \ {p.node}}
             /\ Type(p.node) # "wireguard" => netns' = netns
      BY <1>4 DEF DriverConnect, MockConnect, WireGuardConnect, ExpressConnect, DriverUp, DriverFails, DriverHasIt
    <2>3. lock = q /\ lock # Free /\ lock' = q BY <1>d, <2>1, VpnAssumption
    <2>4. /\ p.node \in Node /\ p.copy \in Status /\ p.pc = "dial" /\ p.todo # <<"delete">>
          /\ \A r \in Req \ {q} : proc'[r] = proc[r]
          /\ proc'[q].node = p.node /\ proc'[q].todo = p.todo
          /\ p.node \notin active /\ p.node \notin held
      BY <1>a, <1>b, <1>d, <2>1, <2>2, <2>3, GotoFits, CopiedFits DEF Pcs, Status, MapsFit, Calling
    <2>5. \/ /\ proc'[q].pc = "session" /\ proc'[q].copy = "connected" /\ held' = held \cup {p.node}
             /\ Type(p.node) = "wireguard" => netns' = netns \cup {p.node}
             /\ Type(p.node) # "wireguard" => netns' = netns
          \/ /\ proc'[q].pc = "failed" /\ held' = held
             /\ Type(p.node) = "wireguard" => netns' \in {netns, netns \ {p.node}}
             /\ Type(p.node) # "wireguard" => netns' = netns
      BY <1>a, <2>2, <2>4, CopiedFits DEF Pcs, Status
    <2>a. UNCHANGED <<row, made, sessions, active, raced, left, crashes>> BY <1>4 DEF DriverConnect
    <2>b. /\ proc'[q].pc \in {"session", "failed"}
          /\ \A m \in Node :
                /\ m \in held' <=> (m \in held \/ (m = p.node /\ proc'[q].pc = "session"))
                /\ m # p.node => (m \in netns' <=> m \in netns)
          /\ Type(p.node) = "wireguard" /\ proc'[q].pc = "session" => p.node \in netns'
      BY <2>4, <2>5
    <2>6. MapsFit'
      <3> SUFFICES ASSUME NEW m \in Node
                   PROVE  /\ m \in held' <=> (m \in active' \/ Calling(m, Up)') /\ ~Calling(m, Down)'
                          /\ Calling(m, Connecting)' => m \notin active'
                          /\ m \in held' => HasDriver(m)' /\ (Type(m)' = "wireguard" => m \in netns')
                          /\ m \in active' \/ Calling(m, Pcs)' => HasDriver(m)'
                          /\ m \notin Created' => m \notin active' /\ m \notin held' /\ row'[m] = "none"
        BY DEF MapsFit
      <3> USE <1>b, <2>1, <2>3, <2>4, <2>a, <2>b DEF MapsFit, Calling
      <3>0. m \in held <=> m \in active OBVIOUS
      <3>1. m \in held' <=> (m \in active' \/ Calling(m, Up)') /\ ~Calling(m, Down)'
        <4>1. Calling(m, Up)' <=> (m = p.node /\ proc'[q].pc = "session") OBVIOUS
        <4>2. ~Calling(m, Down)' OBVIOUS
        <4>3. m \in held' <=> (m \in held \/ (m = p.node /\ proc'[q].pc = "session")) OBVIOUS
        <4>4. active' = active OBVIOUS
        <4> HIDE DEF MapsFit, Calling
        <4>5. QED BY ONLY <3>0, <4>1, <4>2, <4>3, <4>4
      <3>2. Calling(m, Connecting)' => m \notin active' OBVIOUS
      <3>3. HasDriver(m)' = HasDriver(m) /\ Type(m)' = Type(m) /\ Created' = Created
        BY DEF HasDriver, Type, Created
      <3>4. m \in held' => HasDriver(m)' /\ (Type(m)' = "wireguard" => m \in netns')
        <4>1. CASE m = p.node BY <3>3, <4>1 DEF Pcs
        <4>2. CASE m # p.node BY <3>3, <4>2
        <4>3. QED BY <4>1, <4>2
      <3>5. m \in active' \/ Calling(m, Pcs)' => HasDriver(m)' BY <3>3 DEF Pcs
      <3>6. m \notin Created' => m \notin active' /\ m \notin held' /\ row'[m] = "none"
        <4>1. p.node \in Created BY <1>d
        <4>2. QED BY <3>0, <3>3, <4>1
      <3>7. QED BY <3>1, <3>2, <3>4, <3>5, <3>6
    <2>7. RowsFit' BY <1>a, <1>b, <2>1, <2>3, <2>4, <2>5, <2>a DEF RowsFit, MapsFit, Calling, Type, Created, Pcs
    <2>8. RemovalsFit' BY <1>a, <1>b, <2>1, <2>3, <2>4, <2>5, <2>a DEF RemovalsFit, MapsFit, RowsFit, Calling, HasDriver, Type, Pcs
    <2>9. SessionsFit' BY <1>a, <1>b, <2>1, <2>3, <2>4, <2>5, <2>a DEF SessionsFit, MapsFit, Calling, Express, Type, Mates, Created, Pcs, SessionsAgree, SessionsPerRun, TypeOK
    <2>10. QED BY <1>c, <2>6, <2>7, <2>8, <2>9
  <1>5. ASSUME NEW q \in Req, CreateSession(q) PROVE IInv'
    <2>1. proc[q].pc = "session" /\ lock' = lock /\ Goto(q, "publish") BY <1>5 DEF CreateSession, At
    <2> DEFINE p == proc[q]
    <2>3. lock = q /\ lock # Free /\ lock' = q BY <1>d, <2>1, VpnAssumption
    <2>4. /\ p.node \in Node /\ p.node \in Created /\ p.copy \in Status /\ p.pc = "session" /\ p.todo # <<"delete">>
          /\ \A r \in Req \ {q} : proc'[r] = proc[r]
          /\ proc'[q].pc = "publish" /\ proc'[q].node = p.node /\ proc'[q].todo = p.todo /\ proc'[q].copy = p.copy
      BY <1>a, <1>d, <2>1, GotoFits DEF Pcs
    <2>6. MapsFit' BY <1>a, <1>b, <2>1, <2>3, <2>4, <1>5 DEF CreateSession, At, MapsFit, Calling, HasDriver, Type, Created, Pcs
    <2>7. RowsFit' BY <1>a, <1>b, <2>1, <2>3, <2>4, <1>5 DEF CreateSession, At, RowsFit, MapsFit, Calling, Type, Created, Pcs
    <2>8. RemovalsFit' BY <1>a, <1>b, <2>1, <2>3, <2>4, <1>5 DEF CreateSession, At, RemovalsFit, MapsFit, RowsFit, Calling, HasDriver, Type, Pcs
    <2>9. SessionsFit' BY <1>a, <1>b, <2>1, <2>3, <2>4, <1>5 DEF CreateSession, At, SessionsFit, MapsFit, Calling, Express, Type, Mates, Created, Pcs, SessionsAgree, SessionsPerRun, TypeOK
    <2>10. QED BY <1>c, <2>6, <2>7, <2>8, <2>9
  <1>6. ASSUME NEW q \in Req, SaveConnected(q) PROVE IInv'
    <2>1. proc[q].pc = "publish" /\ lock' = Free /\ (Return(q) \/ Fail(q)) BY <1>6 DEF SaveConnected, At, Leave
    <2>2. Leaves(q) BY <1>a, <2>1, LeavesFits
    <2>3. lock = q /\ lock # Free /\ lock' = Free BY <1>d, <2>1, VpnAssumption
    <2> DEFINE p == proc[q]
    <2>4. /\ p.node \in Node /\ p.copy \in Status /\ p.pc = "publish" /\ p.todo # <<"delete">>
          /\ \A r \in Req \ {q} : proc'[r] = proc[r]
          /\ proc'[q].todo = <<"delete">> => p.todo = <<"disconnect", "delete">> /\ proc'[q].node = p.node
      BY <1>d, <1>e, <2>1, <2>2 DEF Leaves, Others
    <2>5. row'[p.node] = p.copy /\ \A m \in Node \ {p.node} : row'[m] = row[m]
      BY <1>a, <1>6, <2>4 DEF SaveConnected, SaveAs, TypeOK
    <2>6. MapsFit' BY <1>a, <1>b, <1>d, <2>1, <2>3, <2>4, <2>5, <1>6 DEF SaveConnected, At, SaveAs, Leave, MapsFit, Calling, HasDriver, Type, Created, Pcs
    <2>7. RowsFit' BY <1>a, <1>b, <1>d, <2>1, <2>3, <2>4, <2>5, <1>6 DEF SaveConnected, At, SaveAs, Leave, RowsFit, MapsFit, Calling, Type, Created, Pcs
    <2>8. RemovalsFit' BY <1>a, <1>b, <1>d, <2>1, <2>3, <2>4, <2>5, <1>6 DEF SaveConnected, At, SaveAs, Leave, RemovalsFit, MapsFit, RowsFit, Calling, HasDriver, Type, Pcs
    <2>9. SessionsFit' BY <1>a, <1>b, <1>d, <2>1, <2>3, <2>4, <2>5, <1>6 DEF SaveConnected, At, SaveAs, Leave, SessionsFit, MapsFit, Calling, Express, Type, Mates, Created, Pcs, SessionsAgree, SessionsPerRun, TypeOK
    <2>10. QED BY <1>c, <2>6, <2>7, <2>8, <2>9
  <1>7. ASSUME NEW q \in Req, SaveFailed(q) PROVE IInv'
    <2>1. proc[q].pc = "failed" /\ lock' = Free /\ (Return(q) \/ Fail(q)) BY <1>7 DEF SaveFailed, At, Leave
    <2>2. Leaves(q) BY <1>a, <2>1, LeavesFits
    <2>3. lock = q /\ lock # Free /\ lock' = Free BY <1>d, <2>1, VpnAssumption
    <2> DEFINE p == proc[q]
    <2>4. /\ p.node \in Node /\ p.copy \in Status /\ p.pc = "failed" /\ p.todo # <<"delete">>
          /\ \A r \in Req \ {q} : proc'[r] = proc[r]
          /\ proc'[q].todo = <<"delete">> => p.todo = <<"disconnect", "delete">> /\ proc'[q].node = p.node
      BY <1>d, <1>e, <2>1, <2>2 DEF Leaves, Others
    <2>5. row'[p.node] = "failed" /\ \A m \in Node \ {p.node} : row'[m] = row[m]
      BY <1>a, <1>7, <2>4 DEF SaveFailed, SaveAs, TypeOK
    <2>6. MapsFit' BY <1>a, <1>b, <1>d, <2>1, <2>3, <2>4, <2>5, <1>7 DEF SaveFailed, At, SaveAs, Leave, MapsFit, Calling, HasDriver, Type, Created, Pcs
    <2>7. RowsFit' BY <1>a, <1>b, <1>d, <2>1, <2>3, <2>4, <2>5, <1>7 DEF SaveFailed, At, SaveAs, Leave, RowsFit, MapsFit, Calling, Type, Created, Pcs
    <2>8. RemovalsFit' BY <1>a, <1>b, <1>d, <2>1, <2>3, <2>4, <2>5, <1>7 DEF SaveFailed, At, SaveAs, Leave, RemovalsFit, MapsFit, RowsFit, Calling, HasDriver, Type, Pcs
    <2>9. SessionsFit' BY <1>a, <1>b, <1>d, <2>1, <2>3, <2>4, <2>5, <1>7 DEF SaveFailed, At, SaveAs, Leave, SessionsFit, MapsFit, Calling, Express, Type, Mates, Created, Pcs, SessionsAgree, SessionsPerRun, TypeOK
    <2>10. QED BY <1>c, <2>6, <2>7, <2>8, <2>9
  <1>8. ASSUME NEW q \in Req, DisconnectReturns(q) PROVE IInv'
    <2>1. proc[q].pc = "ready" /\ lock' = lock /\ (Return(q) \/ Fail(q)) BY <1>8 DEF DisconnectReturns, Turn
    <2>2. Leaves(q) BY <1>a, <2>1, LeavesFits
    <2>3. lock # q BY <1>d, <2>1
    <2> DEFINE p == proc[q]
    <2>4. /\ p.node \in Node /\ lock' = lock
          /\ \A r \in Req \ {q} : proc'[r] = proc[r]
          /\ lock # Free => lock \in Req /\ proc'[lock] = proc[lock]
          /\ proc'[q].todo = <<"delete">> => p.todo = <<"disconnect", "delete">> /\ proc'[q].node = p.node
      BY <1>a, <1>d, <1>e, <2>1, <2>2, <2>3 DEF Leaves, Others, TypeOK
    <2>6. MapsFit' BY <1>a, <1>b, <1>d, <2>1, <2>3, <2>4, <1>8 DEF DisconnectReturns, Turn, MapsFit, Calling, HasDriver, Type, Created, Pcs
    <2>7. RowsFit' BY <1>a, <1>b, <1>d, <2>1, <2>3, <2>4, <1>8 DEF DisconnectReturns, Turn, HasDriver, RowsFit, MapsFit, Calling, Type, Created, Pcs
    <2>8. RemovalsFit' BY <1>a, <1>b, <1>d, <2>1, <2>3, <2>4, <1>8 DEF DisconnectReturns, Turn, RemovalsFit, MapsFit, RowsFit, Calling, HasDriver, Type, Pcs
    <2>9. SessionsFit' BY <1>a, <1>b, <1>d, <2>1, <2>3, <2>4, <1>8 DEF DisconnectReturns, Turn, HasDriver, SessionsFit, MapsFit, Calling, Express, Type, Mates, Created, Pcs, SessionsAgree, SessionsPerRun, TypeOK
    <2>10. QED BY <1>c, <2>6, <2>7, <2>8, <2>9
  <1>9. ASSUME NEW q \in Req, EnterDisconnect(q) PROVE IInv'
    <2>1. proc[q].pc = "ready" /\ lock = Free /\ lock' = q /\ Copied(q, "hangup", row[proc[q].node]) BY <1>9 DEF EnterDisconnect, Turn
    <2>2. row[proc[q].node] \in Status /\ "hangup" \in Pcs BY <1>a, <1>d, <2>1 DEF TypeOK, Status, Pcs
    <2> DEFINE p == proc[q]
    <2>3. lock = Free /\ lock' = q /\ q # Free BY <2>1, VpnAssumption
    <2>4. /\ p.node \in Node /\ p.node \in Created
          /\ \A r \in Req \ {q} : proc'[r] = proc[r]
          /\ proc'[q].pc = "hangup" /\ proc'[q].node = p.node /\ proc'[q].todo = p.todo
          /\ proc'[q].copy = row[proc[q].node]
      BY <1>a, <1>d, <2>1, <2>2, CopiedFits
    <2>5. p.todo # <<"delete">>
      BY <1>a, <1>d, <1>9, <2>1, TodoFacts DEF EnterDisconnect, Turn
    <2>6. MapsFit' BY <1>a, <1>b, <2>1, <2>3, <2>4, <2>5, <1>9 DEF EnterDisconnect, Turn, MapsFit, Calling, HasDriver, Type, Created, Pcs
    <2>7. RowsFit' BY <1>a, <1>b, <2>1, <2>3, <2>4, <2>5, <1>9 DEF EnterDisconnect, Turn, HasDriver, RowsFit, MapsFit, Calling, Type, Created, Pcs
    <2>8. RemovalsFit' BY <1>a, <1>b, <2>1, <2>3, <2>4, <2>5, <1>9 DEF EnterDisconnect, Turn, RemovalsFit, MapsFit, RowsFit, Calling, HasDriver, Type, Pcs
    <2>9. SessionsFit' BY <1>a, <1>b, <2>1, <2>3, <2>4, <2>5, <1>9 DEF EnterDisconnect, Turn, HasDriver, SessionsFit, MapsFit, Calling, Express, Type, Mates, Created, Pcs, SessionsAgree, SessionsPerRun, TypeOK
    <2>10. QED BY <1>c, <2>6, <2>7, <2>8, <2>9
  <1>10. ASSUME NEW q \in Req, DriverDisconnect(q) PROVE IInv'
    <2>1. proc[q].pc = "hangup" /\ lock' = lock BY <1>10 DEF DriverDisconnect, At
    <2> DEFINE p == proc[q]
    <2>2. \/ Goto(q, "close") /\ p.node \notin held /\ held' = held /\ netns' = netns
          \/ /\ Copied(q, "close", "disconnected") /\ held' = held \ {p.node}
             /\ netns' \in {netns, netns \ {p.node}}
      BY <1>10 DEF DriverDisconnect, MockDisconnect, WireGuardDisconnect, ExpressDisconnect, DriverDown
    <2>3. lock = q /\ lock # Free /\ lock' = q BY <1>d, <2>1, VpnAssumption
    <2>4. /\ p.node \in Node /\ p.copy \in Status /\ p.pc = "hangup" /\ p.todo # <<"delete">>
          /\ \A r \in Req \ {q} : proc'[r] = proc[r]
          /\ proc'[q].pc = "close" /\ proc'[q].node = p.node /\ proc'[q].todo = p.todo
      BY <1>a, <1>b, <1>d, <2>1, <2>2, <2>3, GotoFits, CopiedFits DEF Pcs, Status
    <2>5. /\ p.node \notin held' /\ held' = held \ {p.node} /\ netns' \in {netns, netns \ {p.node}}
          /\ proc'[q].copy = "disconnected" \/ (proc'[q].copy = p.copy /\ p.node \notin active)
      BY <1>a, <1>b, <2>2, <2>3, <2>4, GotoFits, CopiedFits DEF Pcs, Status, MapsFit, Calling
    <2>6. MapsFit' BY <1>a, <1>b, <2>1, <2>3, <2>4, <2>5, <1>10 DEF DriverDisconnect, MockDisconnect, WireGuardDisconnect, ExpressDisconnect, At, DriverDown, MapsFit, Calling, HasDriver, Type, Created, Pcs
    <2>7. RowsFit' BY <1>a, <1>b, <2>1, <2>3, <2>4, <2>5, <1>10 DEF DriverDisconnect, MockDisconnect, WireGuardDisconnect, ExpressDisconnect, At, DriverDown, RowsFit, MapsFit, Calling, Type, Created, Pcs
    <2>8. RemovalsFit' BY <1>a, <1>b, <2>1, <2>3, <2>4, <2>5, <1>10 DEF DriverDisconnect, MockDisconnect, WireGuardDisconnect, ExpressDisconnect, At, DriverDown, RemovalsFit, MapsFit, RowsFit, Calling, HasDriver, Type, Pcs
    <2>9. SessionsFit' BY <1>a, <1>b, <2>1, <2>3, <2>4, <2>5, <1>10 DEF DriverDisconnect, MockDisconnect, WireGuardDisconnect, ExpressDisconnect, At, DriverDown, SessionsFit, MapsFit, Calling, Express, Type, Mates, Created, Pcs, SessionsAgree, SessionsPerRun, TypeOK
    <2>10. QED BY <1>c, <2>6, <2>7, <2>8, <2>9
  <1>11. ASSUME NEW q \in Req, DisconnectFails(q) PROVE IInv'
    <2>1. proc[q].pc = "hangup" /\ lock' = Free /\ (Return(q) \/ Fail(q)) BY <1>11 DEF DisconnectFails, At, Leave
    <2>2. Leaves(q) BY <1>a, <2>1, LeavesFits
    <2>3. lock = q /\ lock # Free /\ lock' = Free BY <1>d, <2>1, VpnAssumption
    <2> DEFINE p == proc[q]
    <2>4. /\ p.node \in Node /\ p.copy \in Status /\ p.pc = "hangup" /\ p.todo # <<"delete">>
          /\ \A r \in Req \ {q} : proc'[r] = proc[r]
          /\ proc'[q].todo = <<"delete">> => p.todo = <<"disconnect", "delete">> /\ proc'[q].node = p.node
      BY <1>d, <1>e, <2>1, <2>2 DEF Leaves, Others
    <2>6. MapsFit' BY <1>a, <1>b, <1>d, <2>1, <2>3, <2>4, <1>11 DEF DisconnectFails, At, Leave, MapsFit, Calling, HasDriver, Type, Created, Pcs
    <2>7. RowsFit' BY <1>a, <1>b, <1>d, <2>1, <2>3, <2>4, <1>11 DEF DisconnectFails, At, Leave, RowsFit, MapsFit, Calling, Type, Created, Pcs
    <2>8. RemovalsFit' BY <1>a, <1>b, <1>d, <2>1, <2>3, <2>4, <1>11 DEF DisconnectFails, At, Leave, RemovalsFit, MapsFit, RowsFit, Calling, HasDriver, Type, Pcs
    <2>9. SessionsFit' BY <1>a, <1>b, <1>d, <2>1, <2>3, <2>4, <1>11 DEF DisconnectFails, At, Leave, SessionsFit, MapsFit, Calling, Express, Type, Mates, Created, Pcs, SessionsAgree, SessionsPerRun, TypeOK
    <2>10. QED BY <1>c, <2>6, <2>7, <2>8, <2>9
  <1>12. ASSUME NEW q \in Req, CloseSession(q) PROVE IInv'
    <2>1. proc[q].pc = "close" /\ lock' = lock /\ Goto(q, "retire") BY <1>12 DEF CloseSession, At
    <2> DEFINE p == proc[q]
    <2>3. lock = q /\ lock # Free /\ lock' = q BY <1>d, <2>1, VpnAssumption
    <2>4. /\ p.node \in Node /\ p.node \in Created /\ p.copy \in Status /\ p.pc = "close" /\ p.todo # <<"delete">>
          /\ \A r \in Req \ {q} : proc'[r] = proc[r]
          /\ proc'[q].pc = "retire" /\ proc'[q].node = p.node /\ proc'[q].todo = p.todo /\ proc'[q].copy = p.copy
      BY <1>a, <1>d, <2>1, GotoFits DEF Pcs
    <2>a. /\ \A m \in Node : sessions'[m] \in Nat /\ sessions'[m] <= sessions[m]
          /\ Express(p.node) /\ sessions[p.node] > 0 => sessions'[p.node] = sessions[p.node] - 1
      <3>1. CASE UNCHANGED sessions /\ (~Express(p.node) \/ sessions[p.node] = 0)
        BY <1>a, <2>4, <3>1 DEF TypeOK
      <3>2. CASE \E m \in Mates(p.node) : sessions[m] > 0 /\ sessions' = [sessions EXCEPT ![m] = @ - 1]
        <4>1. PICK m \in Mates(p.node) : sessions[m] > 0 /\ sessions' = [sessions EXCEPT ![m] = @ - 1]
          BY <3>2
        <4>2. sessions[p.node] > 0 => m = p.node
          BY <1>b, <2>4, <4>1 DEF Mates, SessionsFit, SessionsAgree
        <4>3. QED BY <1>a, <2>4, <4>1, <4>2 DEF TypeOK, Mates
      <3>3. QED BY <1>12, <1>a, <2>4, <3>1, <3>2 DEF CloseSession, Mates, TypeOK
    <2>b. \A m \in Node : sessions[m] \in Nat BY <1>a DEF TypeOK
    <2>6. MapsFit' BY <1>a, <1>b, <2>1, <2>3, <2>4, <2>a, <1>12 DEF CloseSession, At, Mates, MapsFit, Calling, HasDriver, Type, Created, Pcs
    <2>7. RowsFit' BY <1>a, <1>b, <2>1, <2>3, <2>4, <2>a, <1>12 DEF CloseSession, At, Mates, RowsFit, MapsFit, Calling, Type, Created, Pcs
    <2>8. RemovalsFit' BY <1>a, <1>b, <2>1, <2>3, <2>4, <2>a, <1>12 DEF CloseSession, At, Mates, RemovalsFit, MapsFit, RowsFit, Calling, HasDriver, Type, Pcs
    <2>9. SessionsFit'
      <3>1. made' = made /\ active' = active /\ crashes' = crashes BY <1>12 DEF CloseSession
      <3>2. SessionsAgree' BY <1>b, <2>a, <2>b, <3>1 DEF SessionsFit, SessionsAgree
      <3>3. SessionsPerRun' BY <1>a, <1>b, <2>a, <2>b, <3>1 DEF SessionsFit, SessionsPerRun, TypeOK
      <3>5. sessions'[p.node] <= crashes'
        BY <1>a, <1>b, <2>4, <2>a, <2>b, <3>1 DEF SessionsFit, SessionsPerRun, TypeOK
      <3>6. \A m \in Node :
               /\ ~Calling(m, {"announce", "dial", "session"})'
               /\ Calling(m, {"retire"})' => m = p.node
        BY <2>3, <2>4 DEF Calling
      <3> SUFFICES ASSUME NEW m \in Node
                   PROVE  /\ m \notin Created' => sessions'[m] = 0
                          /\ ~Express(m)' => sessions'[m] = 0
                          /\ Calling(m, {"announce", "dial", "session"})' /\ Express(m)' =>
                                 \A k \in (Mates(m) \ {m})' : sessions'[k] = 0
                          /\ m \notin active' /\ ~Calling(m, {"publish"})' => sessions'[m] <= crashes'
                          /\ Calling(m, {"retire"})' => sessions'[m] <= crashes'
        BY <3>2, <3>3 DEF SessionsFit
      <3>7. /\ m \notin Created' => sessions'[m] = 0
            /\ ~Express(m)' => sessions'[m] = 0
            /\ m \notin active' => sessions'[m] <= crashes'
        BY <1>a, <1>b, <2>1, <2>3, <2>4, <2>a, <2>b, <3>1
        DEF SessionsFit, Created, Express, Type, Calling, TypeOK
      <3>8. QED BY <3>5, <3>6, <3>7
    <2>10. QED BY <1>c, <2>6, <2>7, <2>8, <2>9
  <1>13. ASSUME NEW q \in Req, SaveDisconnected(q) PROVE IInv'
    <2>1. proc[q].pc = "retire" /\ lock' = Free /\ (Return(q) \/ Fail(q)) BY <1>13 DEF SaveDisconnected, At, Leave
    <2>2. Leaves(q) BY <1>a, <2>1, LeavesFits
    <2>3. lock = q /\ lock # Free /\ lock' = Free BY <1>d, <2>1, VpnAssumption
    <2> DEFINE p == proc[q]
    <2>4. /\ p.node \in Node /\ p.copy \in Status /\ p.pc = "retire" /\ p.todo # <<"delete">>
          /\ \A r \in Req \ {q} : proc'[r] = proc[r]
          /\ proc'[q].todo = <<"delete">> => p.todo = <<"disconnect", "delete">> /\ proc'[q].node = p.node
      BY <1>d, <1>e, <2>1, <2>2 DEF Leaves, Others
    <2>5. row'[p.node] = p.copy /\ \A m \in Node \ {p.node} : row'[m] = row[m]
      BY <1>a, <1>13, <2>4 DEF SaveDisconnected, SaveAs, TypeOK
    <2>6. MapsFit' BY <1>a, <1>b, <1>d, <2>1, <2>3, <2>4, <2>5, <1>13 DEF SaveDisconnected, At, SaveAs, Leave, MapsFit, Calling, HasDriver, Type, Created, Pcs
    <2>7. RowsFit' BY <1>a, <1>b, <1>d, <2>1, <2>3, <2>4, <2>5, <1>13 DEF SaveDisconnected, At, SaveAs, Leave, RowsFit, MapsFit, Calling, Type, Created, Pcs
    <2>8. RemovalsFit' BY <1>a, <1>b, <1>d, <2>1, <2>3, <2>4, <2>5, <1>13 DEF SaveDisconnected, At, SaveAs, Leave, RemovalsFit, MapsFit, RowsFit, Calling, HasDriver, Type, Pcs
    <2>9. SessionsFit' BY <1>a, <1>b, <1>d, <2>1, <2>3, <2>4, <2>5, <1>13 DEF SaveDisconnected, At, SaveAs, Leave, SessionsFit, MapsFit, Calling, Express, Type, Mates, Created, Pcs, SessionsAgree, SessionsPerRun, TypeOK
    <2>10. QED BY <1>c, <2>6, <2>7, <2>8, <2>9
  <1>14. ASSUME NEW q \in Req, VerifyConnected(q) PROVE IInv'
    <2>1. proc[q].pc = "ready" /\ lock' = lock /\ (Return(q) \/ Fail(q)) BY <1>14 DEF VerifyConnected, Turn
    <2>2. Leaves(q) BY <1>a, <2>1, LeavesFits
    <2>3. lock # q BY <1>d, <2>1
    <2> DEFINE p == proc[q]
    <2>4. /\ p.node \in Node /\ lock' = lock
          /\ \A r \in Req \ {q} : proc'[r] = proc[r]
          /\ lock # Free => lock \in Req /\ proc'[lock] = proc[lock]
          /\ proc'[q].todo = <<"delete">> => p.todo = <<"disconnect", "delete">> /\ proc'[q].node = p.node
      BY <1>a, <1>d, <1>e, <2>1, <2>2, <2>3 DEF Leaves, Others, TypeOK
    <2>6. MapsFit' BY <1>a, <1>b, <1>d, <2>1, <2>3, <2>4, <1>14 DEF VerifyConnected, Turn, MapsFit, Calling, HasDriver, Type, Created, Pcs
    <2>7. RowsFit' BY <1>a, <1>b, <1>d, <2>1, <2>3, <2>4, <1>14 DEF VerifyConnected, Turn, RowsFit, MapsFit, Calling, Type, Created, Pcs
    <2>8. RemovalsFit' BY <1>a, <1>b, <1>d, <2>1, <2>3, <2>4, <1>14 DEF VerifyConnected, Turn, RemovalsFit, MapsFit, RowsFit, Calling, HasDriver, Type, Pcs
    <2>9. SessionsFit' BY <1>a, <1>b, <1>d, <2>1, <2>3, <2>4, <1>14 DEF VerifyConnected, Turn, SessionsFit, MapsFit, Calling, Express, Type, Mates, Created, Pcs, SessionsAgree, SessionsPerRun, TypeOK
    <2>10. QED BY <1>c, <2>6, <2>7, <2>8, <2>9
  <1>15. ASSUME NEW q \in Req, DeleteRow(q) PROVE IInv'
    <2>1. proc[q].pc = "ready" /\ lock' = lock /\ (Return(q) \/ Fail(q)) BY <1>15 DEF DeleteRow, Turn
    <2>2. Leaves(q) BY <1>a, <2>1, LeavesFits
    <2>3. lock # q BY <1>d, <2>1
    <2> DEFINE p == proc[q]
    <2>4. /\ p.node \in Node /\ lock' = lock
          /\ \A r \in Req \ {q} : proc'[r] = proc[r]
          /\ lock # Free => lock \in Req /\ proc'[lock] = proc[lock]
          /\ proc'[q].todo = <<"delete">> => p.todo = <<"disconnect", "delete">> /\ proc'[q].node = p.node
      BY <1>a, <1>d, <1>e, <2>1, <2>2, <2>3 DEF Leaves, Others, TypeOK
    <2>5. row'[p.node] = "none" /\ \A m \in Node \ {p.node} : row'[m] = row[m]
      BY <1>a, <1>15, <2>4 DEF DeleteRow, SaveAs, TypeOK
    <2>a. p.todo = <<"delete">> BY <1>d, <1>15, <2>1, TodoFacts DEF DeleteRow, Turn
    <2>6. MapsFit' BY <1>a, <1>b, <1>d, <2>1, <2>3, <2>4, <2>5, <2>a, <1>15 DEF DeleteRow, Turn, SaveAs, MapsFit, Calling, HasDriver, Type, Created, Pcs
    <2>7. RowsFit' BY <1>a, <1>b, <1>d, <2>1, <2>3, <2>4, <2>5, <2>a, <1>15 DEF DeleteRow, Turn, SaveAs, RowsFit, MapsFit, Calling, Type, Created, Pcs
    <2>8. RemovalsFit' BY <1>a, <1>b, <1>d, <2>1, <2>3, <2>4, <2>5, <2>a, <1>15 DEF DeleteRow, Turn, SaveAs, RemovalsFit, MapsFit, RowsFit, Calling, HasDriver, Type, Pcs
    <2>9. SessionsFit' BY <1>a, <1>b, <1>d, <2>1, <2>3, <2>4, <2>5, <2>a, <1>15 DEF DeleteRow, Turn, SaveAs, SessionsFit, MapsFit, Calling, Express, Type, Mates, Created, Pcs, SessionsAgree, SessionsPerRun, TypeOK
    <2>10. QED BY <1>c, <2>6, <2>7, <2>8, <2>9
  <1>16. ASSUME NEW q \in Req, NEW n \in Node, Request(q, n) PROVE IInv'
    <2>1. PICK todo \in Todos \ {<<>>, <<"delete">>} : Begin(q, n, todo)
      <3>1. \A t \in {<<"connect">>, <<"disconnect">>, <<"connect", "verify">>, <<"connect", "disconnect">>,
                       <<"disconnect", "delete">>} : t \in Todos \ {<<>>, <<"delete">>}
        BY DEF Todos
      <3>2. QED BY <1>16, <3>1
            DEF Request, ConnectVPN, DisconnectVPN, ConnectAndCreateProxy, ValidateNode, DeleteVPN
    <2>2. /\ proc[q].pc = "idle" /\ lock' = lock
          /\ \A r \in Req \ {q} : proc'[r] = proc[r]
          /\ proc'[q].todo # <<"delete">>
      BY <1>a, <2>1 DEF Begin, TypeOK
    <2>3. lock # q /\ (lock # Free => lock \in Req /\ proc'[lock] = proc[lock])
      BY <1>a, <2>2 DEF TypeOK
    <2>6. MapsFit' BY <1>b, <2>1, <2>2, <2>3 DEF Begin, MapsFit, Calling, HasDriver, Type, Created
    <2>7. RowsFit' BY <1>b, <2>1, <2>2, <2>3 DEF Begin, RowsFit, Calling
    <2>8. RemovalsFit' BY <1>b, <2>1, <2>2, <2>3 DEF Begin, RemovalsFit, Calling
    <2>9. SessionsFit' BY <1>b, <2>1, <2>2, <2>3 DEF Begin, SessionsFit, Calling, Express, Type, Mates, Created,
                                                      SessionsAgree, SessionsPerRun
    <2>10. QED BY <1>c, <2>6, <2>7, <2>8, <2>9
  <1>17. ASSUME NEW n \in Node, CreateVPN(n) \/ CreateExpressVPNNode(n) PROVE IInv'
    <2>1. PICK type \in Types, agent \in Agent : CreateNode(n, type, agent)
      BY <1>17, VpnAssumption DEF CreateVPN, CreateExpressVPNNode
    <2>2. [type |-> type, agent |-> agent] # Unmade BY VpnAssumption DEF Unmade
    <2>3. n \notin Created /\ n \in Created' /\ \A m \in Node \ {n} : made'[m] = made[m] /\ row'[m] = row[m]
      BY <1>a, <2>1, <2>2 DEF CreateNode, TypeOK, Created
    <2>4. row'[n] = "disconnected" /\ \A m \in Node \ {n} : m \in Created' <=> m \in Created
      BY <1>a, <2>1, <2>3 DEF CreateNode, TypeOK, Created
    <2>5. n \notin active /\ n \notin held /\ sessions[n] = 0 /\ (lock # Free => proc[lock].node # n)
      <3>1. n \notin active /\ n \notin held /\ sessions[n] = 0
        BY <1>b, <2>3 DEF MapsFit, SessionsFit
      <3>2. ASSUME lock # Free PROVE proc[lock].node # n
        BY <1>a, <2>3, <3>2 DEF TypeOK
      <3>3. QED BY <3>1, <3>2
    <2>6. MapsFit' BY <1>b, <2>1, <2>3, <2>4, <2>5 DEF CreateNode, MapsFit, Calling, HasDriver, Type
    <2>7. RowsFit' BY <1>b, <2>1, <2>3, <2>4, <2>5 DEF CreateNode, RowsFit, Calling
    <2>8. RemovalsFit' BY <1>b, <2>1, <2>3, <2>4, <2>5 DEF CreateNode, RemovalsFit, Calling
    <2>9. SessionsFit' BY <1>a, <1>b, <2>1, <2>3, <2>4, <2>5
      DEF CreateNode, SessionsFit, Calling, Express, Type, Mates, SessionsAgree, SessionsPerRun, TypeOK
    <2>10. QED BY <1>c, <2>6, <2>7, <2>8, <2>9
  <1>18. CASE ProcessEnds
    <2>1. lock' = Free /\ active' = {} /\ held' = {} /\ \A r \in Req : proc'[r].todo = <<>>
      BY <1>18 DEF ProcessEnds, Idle
    <2>2. <<>> # <<"delete">> OBVIOUS
    <2>6. MapsFit' BY <1>a, <1>b, <1>18, <2>1 DEF ProcessEnds, MapsFit, Calling, HasDriver, Type, Created
    <2>7. RowsFit' BY <1>a, <1>18, <2>1 DEF ProcessEnds, RowsFit, Calling, TypeOK, Status
    <2>8. RemovalsFit' BY <2>1, <2>2 DEF RemovalsFit
    <2>9. SessionsFit' BY <1>a, <1>b, <1>18, <2>1
      DEF ProcessEnds, SessionsFit, Calling, Express, Type, Mates, Created, SessionsAgree, SessionsPerRun, TypeOK
    <2>10. QED BY <1>c, <2>6, <2>7, <2>8, <2>9
  <1>19. CASE UNCHANGED vars
    BY <1>a, <1>b, <1>c, <1>19 DEF vars, MapsFit, RowsFit, RemovalsFit, SessionsFit, Calling, HasDriver, Express, Type, Mates, Created, SessionsAgree, SessionsPerRun, TypeOK
  <1>20. QED BY <1>1, <1>2, <1>3, <1>4, <1>5, <1>6, <1>7, <1>8, <1>9, <1>10, <1>11, <1>12, <1>13, <1>14, <1>15, <1>16, <1>17, <1>18, <1>19 DEF Next, Step

LEMMA InvInit == Init => IInv
  <1> SUFFICES ASSUME Init PROVE IInv OBVIOUS
  <1> USE VpnAssumption DEF Init, Idle, Connecting, Dialing, Up, Down
  <1>1. TypeInv BY DEF TypeInv, TypeOK, HeadsFit, Status, Pcs, Todos, Made
  <1>2. MapsFit BY DEF MapsFit, Calling, Created, Pcs
  <1>3. RowsFit BY DEF RowsFit, Calling
  <1>4. <<>> # <<"delete">> OBVIOUS
  <1>5. RemovalsFit BY <1>4 DEF RemovalsFit
  <1>6. SessionsFit BY DEF SessionsFit, SessionsAgree, SessionsPerRun, Calling
  <1>7. QED BY <1>1, <1>2, <1>3, <1>5, <1>6 DEF IInv

LEMMA InvCorrect == Spec => []IInv
  <1>1. QED BY InvInit, InvStep, PTL DEF Spec

\* With the mutex free nobody is calling.
LEMMA InvGives ==
    IInv => /\ TypeOK /\ SessionsAgree /\ SessionsPerRun /\ ActiveIsDriven
            /\ RowsMatchInterfaces /\ TunnelsExist /\ OrphansWereRaced
  <1> SUFFICES ASSUME IInv PROVE /\ TypeOK /\ SessionsAgree /\ SessionsPerRun /\ ActiveIsDriven
                                 /\ RowsMatchInterfaces /\ TunnelsExist /\ OrphansWereRaced
    OBVIOUS
  <1>1. TypeOK BY DEF IInv, TypeInv
  <1>2. SessionsAgree /\ SessionsPerRun BY DEF IInv, SessionsFit
  <1>3. ActiveIsDriven
    <2>1. lock = Free => \A n \in Node : n \in held <=> n \in active BY DEF IInv, MapsFit, Calling
    <2>2. QED BY <1>1, <2>1 DEF ActiveIsDriven, TypeOK
  <1>4. RowsMatchInterfaces BY DEF IInv, RowsFit, Calling, RowsMatchInterfaces
  <1>5. TunnelsExist BY <1>1 DEF IInv, MapsFit, TunnelsExist, TypeOK
  <1>6. OrphansWereRaced BY DEF IInv, RemovalsFit, OrphansWereRaced
  <1>7. QED BY <1>1, <1>2, <1>3, <1>4, <1>5, <1>6

\* The type invariant: the call inside the mutex is the only one past ready.
THEOREM TypeCorrect == Spec => []TypeOK
  <1>1. QED BY InvCorrect, InvGives, PTL

\* The connected sessions of an agent are all of one node, though Disconnect
\* closes whichever is listed first.
THEOREM SessionsAgreeCorrect == Spec => []SessionsAgree
  <1>1. QED BY InvCorrect, InvGives, PTL

\* A node gains at most one connected session in each run of the process.
THEOREM SessionsPerRunCorrect == Spec => []SessionsPerRun
  <1>1. QED BY InvCorrect, InvGives, PTL

\* Between calls the manager's map and the drivers' maps are equal.
THEOREM ActiveIsDrivenCorrect == Spec => []ActiveIsDriven
  <1>1. QED BY InvCorrect, InvGives, PTL

\* Between calls a row says connected exactly when its interface is up, except
\* one that an earlier process left behind.
THEOREM RowsMatchCorrect == Spec => []RowsMatchInterfaces
  <1>1. QED BY InvCorrect, InvGives, PTL

\* No clean-up deletes the namespace of a live WireGuard interface.
THEOREM TunnelsExistCorrect == Spec => []TunnelsExist
  <1>1. QED BY InvCorrect, InvGives, PTL

\* An interface loses its row only through a removal that failed to disconnect
\* it or that another Connect overtook.
THEOREM OrphansCorrect == Spec => []OrphansWereRaced
  <1>1. QED BY InvCorrect, InvGives, PTL
=============================================================================
