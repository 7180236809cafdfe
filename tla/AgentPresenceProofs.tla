------------------------- MODULE AgentPresenceProofs -------------------------
(* Theorems about AgentPresence, for every value of its constants.         *)
EXTENDS AgentPresence, TLAPS

LEMMA RowTypes ==
    /\ NoRow \in Row /\ Online \in Row
    /\ \A copy \in Row : Offline(copy) \in Row /\ Aged(copy) \in Row
    /\ NoCred \in Cred /\ Blank \in Handler
    /\ \A pc \in ProcPc, a \in Agent \cup {NoAgent} :
          [Blank EXCEPT !.pc = pc, !.agent = a] \in Handler
BY DEF NoRow, Online, Row, Offline, Aged, NoCred, Cred, Blank, Handler, ProcPc

HandlersOK ==
    /\ proc \in [Proc -> Handler]
    /\ \A p \in Proc : proc[p].pc \notin {"idle", "closed"} => proc[p].agent \in Agent

\* What one step of a handler does to the handlers.
Moves(p, a, pc) ==
    /\ proc'[p].pc = pc /\ proc'[p].agent = a
    /\ \A r \in Proc \ {p} : proc'[r] = proc[r]

LEMMA BeginFacts ==
    ASSUME HandlersOK, NEW p \in Proc, NEW a \in Agent \cup {NoAgent}, NEW pc \in ProcPc,
           Begin(p, a, pc), pc \notin {"idle", "closed"} => a \in Agent
    PROVE  HandlersOK' /\ Moves(p, a, pc)
<1> DEFINE h == [Blank EXCEPT !.pc = pc, !.agent = a]
<1>1. h \in Handler /\ h.pc = pc /\ h.agent = a
  BY RowTypes DEF Blank
<1>2. proc' = [proc EXCEPT ![p] = h]
  BY DEF Begin
<1>3. QED
  BY <1>1, <1>2 DEF HandlersOK, Moves

LEMMA GotoFacts ==
    ASSUME HandlersOK, NEW p \in Proc, NEW pc \in ProcPc, Goto(p, pc),
           proc[p].pc \notin {"idle", "closed"}
    PROVE  /\ HandlersOK'
           /\ Moves(p, IF pc \in {"idle", "closed"} THEN NoAgent ELSE proc[p].agent, pc)
<1>1. proc[p].agent \in Agent
  BY DEF HandlersOK
<1>2. CASE pc \in {"idle", "closed"}
  BY <1>2, BeginFacts DEF Goto
<1>3. CASE pc \notin {"idle", "closed"}
  BY <1>1, <1>3, BeginFacts DEF Goto
<1>4. QED
  BY <1>2, <1>3

LEMMA ReadFacts ==
    ASSUME TypeOK, NEW p \in Proc, NEW found \in ProcPc \ {"idle", "closed"}, NEW missing \in ProcPc,
           Read(p, found, missing), proc[p].pc \notin {"idle", "closed"}
    PROVE  /\ TypeOK'
           /\ \/ Moves(p, proc[p].agent, found)
              \/ Moves(p, IF missing \in {"idle", "closed"} THEN NoAgent ELSE proc[p].agent, missing)
<1>1. HandlersOK /\ proc[p].agent \in Agent /\ row[proc[p].agent] \in Row
  BY DEF TypeOK, HandlersOK
<1>2. CASE Goto(p, missing)
  BY <1>1, <1>2, GotoFacts DEF Read, TypeOK, HandlersOK
<1>3. CASE proc' = [proc EXCEPT ![p] = [@ EXCEPT !.pc = found, !.copy = row[proc[p].agent]]]
  <2> DEFINE h == [proc[p] EXCEPT !.pc = found, !.copy = row[proc[p].agent]]
  <2>1. h \in Handler /\ h.pc = found /\ h.agent = proc[p].agent
    BY <1>1 DEF HandlersOK, Handler
  <2>2. proc' = [proc EXCEPT ![p] = h]
    BY <1>3
  <2>3. HandlersOK' /\ Moves(p, proc[p].agent, found)
    BY <1>1, <2>1, <2>2 DEF HandlersOK, Moves
  <2>4. QED
    BY <2>3 DEF Read, TypeOK, HandlersOK
<1>4. QED
  BY <1>2, <1>3 DEF Read

LEMMA SaveFacts ==
    ASSUME TypeOK, NEW p \in Proc, NEW new \in Row, NEW pc \in ProcPc, Save(p, new, pc),
           proc[p].pc \notin {"idle", "closed"}
    PROVE  /\ TypeOK'
           /\ Moves(p, IF pc \in {"idle", "closed"} THEN NoAgent ELSE proc[p].agent, pc)
<1>1. HandlersOK
  BY DEF TypeOK, HandlersOK
<1>2. /\ HandlersOK'
      /\ Moves(p, IF pc \in {"idle", "closed"} THEN NoAgent ELSE proc[p].agent, pc)
  BY <1>1, GotoFacts DEF Save
<1>3. QED
  BY <1>2 DEF Save, TypeOK, HandlersOK
-----------------------------------------------------------------------------
(* Every action keeps the types, and the handlers of the connections.      *)

\* A step that leaves the registry and every connection handler that serves
\* an agent alone.
Aside == /\ UNCHANGED registry
         /\ \A k \in Conn : proc[k].pc \in Serving =>
               proc'[k].pc \in Serving /\ proc'[k].agent = proc[k].agent

LEMMA AsideStep == TypeOK /\ RegistryIsOwn /\ Aside => RegistryIsOwn'
BY DEF TypeOK, RegistryIsOwn, Aside

LEMMA TypeInit == Init => TypeOK /\ RegistryIsOwn
<1> SUFFICES ASSUME Init
             PROVE  TypeOK /\ RegistryIsOwn
  OBVIOUS
<1>1. proc \in [Proc -> Handler] /\ \A p \in Proc : proc[p].pc = "idle"
  BY RowTypes DEF Init, Blank
<1>2. row \in [Agent -> Row] /\ cred \in [Agent -> Cred]
  BY RowTypes DEF Init
<1>3. registry \in [Agent -> Conn \cup {NoConn}] /\ \A a \in Agent : registry[a] = NoConn
  BY DEF Init
<1>4. QED
  BY <1>1, <1>2, <1>3 DEF Init, TypeOK, RegistryIsOwn

LEMMA Step == TypeOK /\ RegistryIsOwn /\ [Next]_vars => TypeOK' /\ RegistryIsOwn'
<1> SUFFICES ASSUME TypeOK, RegistryIsOwn, [Next]_vars
             PROVE  TypeOK' /\ RegistryIsOwn'
  OBVIOUS
<1> DEFINE Inv == TypeOK /\ RegistryIsOwn
<1>1. /\ HandlersOK /\ \A k \in Conn : k \in Proc /\ k \notin Req
      /\ \A q \in Req : q \in Proc /\ q \notin Conn
  BY PresenceAssumption DEF TypeOK, HandlersOK, Proc
\* A request handler serves no connection.
<1>2. ASSUME NEW q \in Req, NEW a, NEW pc, Moves(q, a, pc), UNCHANGED registry
      PROVE  Aside
  BY <1>1, <1>2 DEF Moves, Aside
<1>3. ASSUME NEW k \in Conn, NEW t \in Token, Handshake(k, t)
      PROVE  Inv'
  <2>1. PICK a \in Agent : Begin(k, a, "register")
    BY <1>3 DEF Handshake
  <2>2. HandlersOK' /\ Moves(k, a, "register")
    BY <1>1, <2>1, BeginFacts DEF ProcPc
  <2>3. TypeOK'
    BY <1>3, <2>2 DEF Handshake, TypeOK, HandlersOK
  <2>4. Aside
    BY <1>1, <1>3, <2>2 DEF Handshake, Moves, Aside, Serving
  <2>5. QED
    BY <2>3, <2>4, AsideStep
<1>4. ASSUME NEW k \in Conn, Register(k)
      PROVE  Inv'
  <2>1. HandlersOK' /\ Moves(k, proc[k].agent, "online") /\ proc[k].agent \in Agent
    BY <1>1, <1>4, GotoFacts DEF Register, HandlersOK, ProcPc
  <2>2. TypeOK'
    BY <1>4, <2>1 DEF Register, TypeOK, HandlersOK
  <2>3. /\ registry' = [registry EXCEPT ![proc[k].agent] = k] /\ proc[k].pc = "register"
        /\ \A a \in Agent : registry[a] # k
    BY <1>4, PresenceAssumption DEF Register, RegistryIsOwn, Serving, TypeOK
  <2>4. RegistryIsOwn'
    BY <1>1, <2>1, <2>3 DEF RegistryIsOwn, Moves, Serving, TypeOK
  <2>5. QED
    BY <2>2, <2>4
<1>5. ASSUME NEW k \in Conn, ReadOnline(k)
      PROVE  Inv'
  <2>1. TypeOK' /\ (Moves(k, proc[k].agent, "saveOnline") \/ Moves(k, proc[k].agent, "serve"))
    BY <1>1, <1>5, ReadFacts DEF ReadOnline, ProcPc
  <2>2. Aside
    BY <1>1, <1>5, <2>1 DEF ReadOnline, Read, Moves, Aside, Serving
  <2>3. QED
    BY <2>1, <2>2, AsideStep
<1>6. ASSUME NEW k \in Conn, SaveOnline(k)
      PROVE  Inv'
  <2>1. TypeOK' /\ Moves(k, proc[k].agent, "serve")
    BY <1>1, <1>6, SaveFacts, RowTypes DEF SaveOnline, ProcPc
  <2>2. Aside
    BY <1>1, <1>6, <2>1 DEF SaveOnline, Save, Moves, Aside, Serving
  <2>3. QED
    BY <2>1, <2>2, AsideStep
<1>7. ASSUME NEW k \in Conn, Unregister(k)
      PROVE  Inv'
  <2>1. HandlersOK' /\ Moves(k, proc[k].agent, "leave") /\ proc[k].agent \in Agent
    BY <1>1, <1>7, GotoFacts DEF Unregister, HandlersOK, ProcPc
  <2>2. TypeOK'
    BY <1>7, <2>1 DEF Unregister, TypeOK, HandlersOK
  <2>3. /\ registry' = [registry EXCEPT ![proc[k].agent] = NoConn]
        /\ \A a \in Agent \ {proc[k].agent} : registry[a] # k
    BY <1>7, PresenceAssumption DEF Unregister, RegistryIsOwn
  <2>4. RegistryIsOwn'
    BY <1>1, <2>1, <2>3 DEF RegistryIsOwn, Moves, TypeOK
  <2>5. QED
    BY <2>2, <2>4
<1>8. ASSUME NEW k \in Conn, ReadLeave(k)
      PROVE  Inv'
  <2>1. TypeOK' /\ \E pc : \E a : Moves(k, a, pc)
    BY <1>1, <1>8, ReadFacts DEF ReadLeave, ProcPc
  <2>2. Aside
    BY <1>1, <1>8, <2>1 DEF ReadLeave, Read, Moves, Aside, Serving
  <2>3. QED
    BY <2>1, <2>2, AsideStep
<1>9. ASSUME NEW k \in Conn, SaveLeave(k)
      PROVE  Inv'
  <2>1. proc[k].copy \in Row
    BY <1>1 DEF HandlersOK, Handler
  <2>2. TypeOK' /\ Moves(k, NoAgent, "closed")
    BY <1>1, <1>9, <2>1, SaveFacts, RowTypes DEF SaveLeave, ProcPc
  <2>3. Aside
    BY <1>1, <1>9, <2>2 DEF SaveLeave, Save, Moves, Aside, Serving
  <2>4. QED
    BY <2>2, <2>3, AsideStep
<1>10. ASSUME NEW p \in Proc, NEW a \in Agent, CacheBeat(p, a)
       PROVE  Inv'
  <2>1. HandlersOK' /\ Moves(p, a, "beat")
    <3>1. CASE p \in Conn /\ proc[p].pc = "serve" /\ proc[p].agent = a /\ Goto(p, "beat")
      BY <1>1, <3>1, GotoFacts DEF ProcPc
    <3>2. CASE p \in Req /\ proc[p].pc = "idle" /\ Begin(p, a, "beat")
      BY <1>1, <3>2, BeginFacts DEF ProcPc
    <3>3. QED
      BY <1>10, <3>1, <3>2 DEF CacheBeat
  <2>2. TypeOK'
    BY <1>10, <2>1 DEF CacheBeat, TypeOK, HandlersOK
  <2>3. Aside
    BY <1>1, <1>10, <2>1 DEF CacheBeat, Moves, Aside, Serving
  <2>4. QED
    BY <2>2, <2>3, AsideStep
<1>11. ASSUME NEW p \in Proc, BeatStep(p)
       PROVE  Inv'
  <2>1. Rest(p) \in ProcPc /\ (p \in Conn => Rest(p) = "serve")
    BY DEF Rest, ProcPc
  <2>2. CASE ReadBeat(p)
    <3>1. /\ TypeOK' /\ UNCHANGED registry /\ proc[p].pc = "beat"
          /\ \/ Moves(p, proc[p].agent, "saveBeat")
             \/ Moves(p, IF Rest(p) \in {"idle", "closed"} THEN NoAgent ELSE proc[p].agent, Rest(p))
      <4>1. proc[p].pc = "beat" /\ Read(p, "saveBeat", Rest(p)) BY <2>2 DEF ReadBeat
      <4>2. "saveBeat" \in ProcPc \ {"idle", "closed"} BY DEF ProcPc
      <4>3. UNCHANGED registry BY <4>1 DEF Read
      <4>4. /\ TypeOK'
            /\ \/ Moves(p, proc[p].agent, "saveBeat")
               \/ Moves(p, IF Rest(p) \in {"idle", "closed"} THEN NoAgent ELSE proc[p].agent, Rest(p))
        BY <1>1, <2>1, <4>1, <4>2, ReadFacts
      <4>5. QED BY <4>1, <4>3, <4>4
    <3>2. Aside
      BY <1>1, <2>1, <3>1 DEF Moves, Aside, Serving
    <3>3. QED
      BY <3>1, <3>2, AsideStep
  <2>3. CASE SaveBeat(p)
    <3>1. /\ TypeOK' /\ UNCHANGED registry /\ proc[p].pc = "saveBeat"
          /\ Moves(p, IF Rest(p) \in {"idle", "closed"} THEN NoAgent ELSE proc[p].agent, Rest(p))
      BY <2>1, <2>3, SaveFacts, RowTypes DEF SaveBeat, Save
    <3>2. Aside
      BY <1>1, <2>1, <3>1 DEF Moves, Aside, Serving
    <3>3. QED
      BY <3>1, <3>2, AsideStep
  <2>4. QED
    BY <1>11, <2>2, <2>3 DEF BeatStep
<1>12. ASSUME NEW q \in Req, NEW a \in Agent, CreateAgent(q, a)
       PROVE  Inv'
  <2>1. HandlersOK' /\ Moves(q, a, "issue")
    BY <1>1, <1>12, BeginFacts DEF CreateAgent, ProcPc
  <2>2. TypeOK'
    BY <1>12, <2>1 DEF CreateAgent, TypeOK, HandlersOK, Row
  <2>3. UNCHANGED registry
    BY <1>12 DEF CreateAgent
  <2>4. QED
    BY <1>2, <2>1, <2>2, <2>3, AsideStep
<1>13. ASSUME NEW q \in Req, IssueToken(q)
       PROVE  Inv'
  <2>1. HandlersOK' /\ Moves(q, NoAgent, "idle")
    BY <1>1, <1>13, GotoFacts DEF IssueToken, ProcPc
  <2>2. cred' \in [Agent -> Cred] /\ issued' \in SUBSET Token
    <3>1. \A t \in Fresh : t \in Token /\ [hash |-> t, revoked |-> FALSE] \in Cred
      BY DEF Fresh, Cred
    <3>2. CASE UNCHANGED <<cred, issued>>
      BY <3>2 DEF TypeOK
    <3>3. CASE \E t \in Fresh :
                 /\ cred' = [cred EXCEPT ![proc[q].agent] = [hash |-> t, revoked |-> FALSE]]
                 /\ issued' = issued \cup {t}
      BY <3>1, <3>3 DEF TypeOK
    <3>4. QED
      BY <1>13, <3>2, <3>3 DEF IssueToken
  <2>3. TypeOK'
    BY <1>13, <2>1, <2>2 DEF IssueToken, TypeOK, HandlersOK
  <2>4. UNCHANGED registry
    BY <1>13 DEF IssueToken
  <2>5. QED
    BY <1>2, <2>1, <2>3, <2>4, AsideStep
\* ReadRotate and ReadRevoke: the credential is copied.
<1>14. ASSUME NEW q \in Req, NEW a \in Agent, NEW pc \in {"rotate", "revoke"},
              proc' = [proc EXCEPT ![q] = [Blank EXCEPT !.pc = pc, !.agent = a, !.cred = cred[a]]],
              UNCHANGED <<row, cred, issued, lapsed, cache, registry, sweep, marking, crashes>>
       PROVE  Inv'
  <2> DEFINE h == [Blank EXCEPT !.pc = pc, !.agent = a, !.cred = cred[a]]
  <2>1. h \in Handler /\ h.pc = pc /\ h.agent = a
    <3>1. cred[a] \in Cred /\ pc \in ProcPc
      BY DEF TypeOK, ProcPc
    <3>2. QED
      BY <3>1, RowTypes DEF Blank, Handler
  <2>2. HandlersOK' /\ Moves(q, a, pc)
    BY <1>1, <1>14, <2>1 DEF HandlersOK, Moves
  <2>3. TypeOK'
    BY <1>14, <2>2 DEF TypeOK, HandlersOK
  <2>4. QED
    BY <1>2, <1>14, <2>2, <2>3, AsideStep
<1>15. ASSUME NEW q \in Req, SaveRotate(q)
       PROVE  Inv'
  <2>1. HandlersOK' /\ Moves(q, NoAgent, "idle") /\ proc[q].cred \in Cred
    BY <1>1, <1>15, GotoFacts DEF SaveRotate, ProcPc, HandlersOK, Handler
  <2>2. cred' \in [Agent -> Cred] /\ issued' \in SUBSET Token
    <3>1. \A t \in Fresh : /\ t \in Token
                           /\ [proc[q].cred EXCEPT !.hash = t, !.revoked = FALSE] \in Cred
      BY <2>1 DEF Fresh, Cred
    <3>2. QED
      BY <1>15, <3>1 DEF SaveRotate, TypeOK
  <2>3. TypeOK'
    BY <1>15, <2>1, <2>2 DEF SaveRotate, TypeOK, HandlersOK
  <2>4. UNCHANGED registry
    BY <1>15 DEF SaveRotate
  <2>5. QED
    BY <1>2, <2>1, <2>3, <2>4, AsideStep
<1>16. ASSUME NEW q \in Req, SaveRevoke(q)
       PROVE  Inv'
  <2>1. /\ HandlersOK' /\ Moves(q, proc[q].agent, "revokeRow")
        /\ proc[q].cred \in Cred
    BY <1>1, <1>16, GotoFacts DEF SaveRevoke, ProcPc, HandlersOK, Handler
  <2>2. cred' \in [Agent -> Cred]
    BY <1>16, <2>1 DEF SaveRevoke, TypeOK, Cred
  <2>3. TypeOK'
    BY <1>16, <2>1, <2>2 DEF SaveRevoke, TypeOK, HandlersOK
  <2>4. UNCHANGED registry
    BY <1>16 DEF SaveRevoke
  <2>5. QED
    BY <1>2, <2>1, <2>3, <2>4, AsideStep
<1>17. ASSUME NEW q \in Req, ReadRevokeRow(q)
       PROVE  Inv'
  <2>1. TypeOK' /\ UNCHANGED registry /\ \E pc : \E a : Moves(q, a, pc)
    BY <1>1, <1>17, ReadFacts DEF ReadRevokeRow, ProcPc, Read
  <2>2. QED
    BY <1>2, <2>1, AsideStep
<1>18. ASSUME NEW q \in Req, SaveRevokeRow(q)
       PROVE  Inv'
  <2>1. proc[q].copy \in Row
    BY <1>1 DEF HandlersOK, Handler
  <2>2. TypeOK' /\ UNCHANGED registry /\ Moves(q, proc[q].agent, "drop")
    BY <1>1, <1>18, <2>1, SaveFacts, RowTypes DEF SaveRevokeRow, ProcPc, Save
  <2>3. QED
    BY <1>2, <2>2, AsideStep
<1>19. ASSUME NEW q \in Req, DropRegistration(q)
       PROVE  Inv'
  <2>1. HandlersOK' /\ Moves(q, NoAgent, "idle")
    BY <1>1, <1>19, GotoFacts DEF DropRegistration, ProcPc
  <2>2. TypeOK'
    BY <1>19, <2>1 DEF DropRegistration, TypeOK, HandlersOK
  <2>3. RegistryIsOwn'
    BY <1>1, <1>19, <2>1 DEF DropRegistration, RegistryIsOwn, Moves, TypeOK
  <2>4. QED
    BY <2>2, <2>3
<1>20. ASSUME NEW a \in Agent, DeleteAgent(a)
       PROVE  Inv'
  BY <1>20, RowTypes DEF DeleteAgent, TypeOK, RegistryIsOwn
<1>21. CASE SweepList \/ SweepStep
  <2>1. TypeOK'
    <3>1. CASE SweepList
      BY <3>1 DEF SweepList, TypeOK, Listed
    <3>2. CASE SweepCheck
      BY <3>2 DEF SweepCheck, TypeOK
    <3>3. CASE SweepSave
      <4>1. \A h \in marking : h.copy \in Row /\ Offline(h.copy) \in Row
        BY RowTypes DEF TypeOK, Listed
      <4>2. QED
        BY <3>3, <4>1 DEF SweepSave, TypeOK
    <3>4. QED
      BY <1>21, <3>1, <3>2, <3>3 DEF SweepStep
  <2>2. Aside
    BY <1>21 DEF SweepList, SweepStep, SweepCheck, SweepSave, Aside
  <2>3. QED
    BY <2>1, <2>2, AsideStep
<1>22. CASE TimePasses
  <2>1. HandlersOK' /\ \A p \in Proc : proc'[p].pc = proc[p].pc /\ proc'[p].agent = proc[p].agent
    <3>1. \A p \in Proc : [proc[p] EXCEPT !.copy = Aged(@)] \in Handler
      BY <1>1, RowTypes DEF HandlersOK, Handler
    <3>2. QED
      BY <1>1, <1>22, <3>1 DEF TimePasses, HandlersOK, Handler
  <2>2. sweep' \in SUBSET Listed /\ marking' \in SUBSET Listed
    <3>1. \A h \in Listed : [agent |-> h.agent, copy |-> Aged(h.copy)] \in Listed
      BY RowTypes DEF Listed
    <3>2. QED
      BY <1>22, <3>1 DEF TimePasses, TypeOK
  <2>3. TypeOK'
    BY <1>22, <2>1, <2>2, RowTypes DEF TimePasses, TypeOK, HandlersOK
  <2>4. Aside
    BY <1>1, <1>22, <2>1 DEF TimePasses, Aside
  <2>5. QED
    BY <2>3, <2>4, AsideStep
<1>23. CASE TokenExpires
  BY <1>23 DEF TokenExpires, TypeOK, RegistryIsOwn
<1>24. CASE Crash
  <2>1. HandlersOK'
    <3> DEFINE closed == [Blank EXCEPT !.pc = "closed"]
    <3>1. Blank \in Handler /\ closed.pc = "closed" /\ Blank.pc = "idle"
      BY RowTypes DEF Blank
    <3>2. closed \in Handler
      <4>1. closed = [pc |-> "closed", agent |-> NoAgent, copy |-> NoRow, cred |-> NoCred]
        BY DEF Blank
      <4>2. "closed" \in ProcPc /\ NoRow \in Row /\ NoCred \in Cred
        BY RowTypes DEF ProcPc
      <4>3. QED
        BY <4>1, <4>2 DEF Handler
    <3>3. QED
      BY <1>24, <3>1, <3>2 DEF Crash, HandlersOK
  <2>2. TypeOK'
    BY <1>24, <2>1 DEF Crash, TypeOK, HandlersOK
  <2>3. RegistryIsOwn'
    BY <1>24 DEF Crash, RegistryIsOwn
  <2>4. QED
    BY <2>2, <2>3
<1>25. CASE UNCHANGED vars
  BY <1>25 DEF vars, TypeOK, RegistryIsOwn
<1>26. ASSUME NEW q \in Req, NEW a \in Agent, ReadRotate(q, a) \/ ReadRevoke(q, a)
       PROVE  Inv'
  BY <1>14, <1>26 DEF ReadRotate, ReadRevoke
<1>27. QED
  BY <1>3, <1>4, <1>5, <1>6, <1>7, <1>8, <1>9, <1>10, <1>11, <1>12, <1>13, <1>15, <1>16, <1>17,
     <1>18, <1>19, <1>20, <1>21, <1>22, <1>23, <1>24, <1>25, <1>26
     DEF Next, ConnStep, ReqStep

\* Every table, handler and list keeps its type, and the registry names only
\* a connection that is open and authenticated as that agent.
THEOREM RegistryCorrect == Spec => [](TypeOK /\ RegistryIsOwn)
BY TypeInit, Step, PTL DEF Spec

\* The types alone (TypeOK of AgentPresence): a handler under way names
\* an agent, whatever sweeps, crashes and other handlers come between.
THEOREM TypeCorrect == Spec => []TypeOK
BY RegistryCorrect, PTL
-----------------------------------------------------------------------------
\* A token that a save has replaced or revoked is never accepted again: what
\* becomes live is a token that was generated for that very save.
THEOREM TokensCorrect == Spec => TokenNeverRevives
<1>1. ASSUME [Next]_vars, NEW a \in Agent, TypeOK
      PROVE  (Live(a)' \ Live(a)) \cap issued = {}
  <2>1. CASE UNCHANGED cred
    BY <2>1 DEF Live
  <2>2. ASSUME NEW b \in Agent, NEW t \in Fresh, NEW c \in Cred,
               cred' = [cred EXCEPT ![b] = c], c.hash = t
        PROVE  (Live(a)' \ Live(a)) \cap issued = {}
    BY <2>2 DEF Live, Fresh, TypeOK
  <2>3. ASSUME NEW q \in Req, IssueToken(q)
        PROVE  (Live(a)' \ Live(a)) \cap issued = {}
    <3>1. proc[q].agent \in Agent
      BY <1>1, <2>3 DEF IssueToken, TypeOK, Proc
    <3>2. \A t \in Fresh : [hash |-> t, revoked |-> FALSE] \in Cred
      BY DEF Fresh, Cred
    <3>3. QED
      BY <2>1, <2>2, <2>3, <3>1, <3>2 DEF IssueToken
  <2>4. ASSUME NEW q \in Req, SaveRotate(q)
        PROVE  (Live(a)' \ Live(a)) \cap issued = {}
    <3>1. proc[q].agent \in Agent /\ proc[q].cred \in Cred
      BY <1>1, <2>4 DEF SaveRotate, TypeOK, Proc, Handler
    <3>2. \A t \in Fresh : /\ [proc[q].cred EXCEPT !.hash = t, !.revoked = FALSE] \in Cred
                           /\ [proc[q].cred EXCEPT !.hash = t, !.revoked = FALSE].hash = t
      BY <3>1 DEF Fresh, Cred
    <3>3. PICK t \in Fresh :
             cred' = [cred EXCEPT ![proc[q].agent] = [proc[q].cred EXCEPT !.hash = t, !.revoked = FALSE]]
      BY <2>4 DEF SaveRotate
    <3>4. QED
      BY <2>2, <3>1, <3>2, <3>3
  <2>5. ASSUME NEW q \in Req, SaveRevoke(q)
        PROVE  (Live(a)' \ Live(a)) \cap issued = {}
    <3>1. proc[q].agent \in Agent /\ proc[q].cred \in Cred
      BY <1>1, <2>5 DEF SaveRevoke, TypeOK, Proc, Handler
    <3>2. Live(a)' \subseteq Live(a)
      BY <2>5, <3>1 DEF SaveRevoke, Live, TypeOK, Cred
    <3>3. QED
      BY <3>2
  <2>6. QED
    BY <1>1, <2>1, <2>3, <2>4, <2>5
       DEF Next, ConnStep, ReqStep, BeatStep, SweepStep, Handshake, Register, ReadOnline, SaveOnline,
           Unregister, ReadLeave, SaveLeave, CacheBeat, ReadBeat, SaveBeat, CreateAgent, ReadRotate,
           ReadRevoke, ReadRevokeRow, SaveRevokeRow, DropRegistration, DeleteAgent, SweepList,
           SweepCheck, SweepSave, TimePasses, TokenExpires, Crash, Read, Save, vars
<1>2. TypeOK /\ [Next]_vars => [\A a \in Agent : (Live(a)' \ Live(a)) \cap issued = {}]_vars
  BY <1>1
<1>3. QED
  BY <1>2, RegistryCorrect, PTL DEF Spec, TokenNeverRevives
=============================================================================
