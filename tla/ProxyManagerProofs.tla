------------------------- MODULE ProxyManagerProofs -------------------------
(***************************************************************************)
(* Proofs about ProxyManager.  What holds while the mutex is free is kept  *)
(* as an invariant that says what the call inside the mutex owes, and, for *)
(* the restore, what main has left to do.                                  *)
(***************************************************************************)
EXTENDS ProxyManager, FiniteSetTheorems, SequenceTheorems, TLAPS

ProcType == [pc : {"idle", "ready", "drain", "save"}, todo : Seq(Step), new : Status]
Inside   == {"drain", "save"}

\* The call for p is inside the mutex and will not leave p running.
Ending(p) == /\ lock # Free
             /\ proc[lock].new # "running"
             /\ Current(lock).proxy = p

\* Who is inside the mutex, and what an ended process leaves.
LockFits ==
    /\ \A q \in Proc : /\ proc[q].pc = "idle" => proc[q].todo = <<>>
                       /\ proc[q].pc \in Inside <=> lock = q
    /\ mode = "down" => /\ \A q \in Proc : proc[q].pc = "idle"
                        /\ \A n \in Port : server[n] = NoServer

TypeInv == TypeOK /\ LockFits

\* Two rows never hold one port: a save inserts no row whose port is taken.
PortsUnique == \A p, r \in Rows : PortOf[p] = PortOf[r] => p = r

\* Listeners, and the row the call inside the mutex is about to save.
ListenersFit ==
    /\ \A n \in Port : server[n] # NoServer =>
           \/ server[n].open
           \/ lock # Free /\ proc[lock].pc = "drain" /\ PortOf[Current(lock).proxy] = n
    /\ \A q \in Proc : proc[q].pc \in Inside /\ proc[q].new = "running" =>
           proc[q].pc = "save" /\ server[PortOf[Current(q).proxy]].open
    /\ \A q \in Proc : proc[q].pc = "drain" => ~server[PortOf[Current(q).proxy]].open
    /\ mode \in {"up", "halt"} =>
           \A p \in Proxy : row[p] = "running" => server[PortOf[p]].open \/ Ending(p)

\* Main has p left to restore.
Pending(p) == \E i \in DOMAIN proc[Main].todo :
                  LET s == proc[Main].todo[i]
                  IN s.proxy = p /\ (s.op = "restore" => s.seen = "running")

\* The restore: main is alone, and reaches every row that says running.
BootFits ==
    mode = "boot" =>
        /\ \A q \in Proc \ {Main} : proc[q].pc = "idle"
        /\ proc[Main].pc # "drain"
        /\ \A i \in DOMAIN proc[Main].todo : proc[Main].todo[i].op \in {"restore", "start", "mark"}
        /\ \A n \in Port : server[n] # NoServer =>
               \E p \in Rows : PortOf[p] = n /\ server[n] = [owner |-> p, open |-> TRUE]
        /\ proc[Main].pc = "save" =>
               /\ proc[Main].new # "none"
               /\ proc[Main].new = "running" => Current(Main).proxy \in Listening
        /\ \A p \in Proxy : row[p] = "running" => p \in Listening \/ Pending(p)

\* A removal deletes a row right after its own stop.
Orderly(t) == \A i \in DOMAIN t : t[i].op = "delete" =>
                  i = 1 \/ (t[i - 1].op = "stop" /\ t[i - 1].proxy = t[i].proxy)

\* The list of a request.
Fresh(t) == \A i \in DOMAIN t :
                /\ t[i].op \notin {"mark", "restore"}
                /\ t[i].op = "delete" => i # 1 /\ t[i - 1].op = "stop" /\ t[i - 1].proxy = t[i].proxy

\* Marks are of rentals past their time; only the restore has rows to restore,
\* and has each of them once.
ListsFit ==
    /\ \A q \in Proc : Orderly(proc[q].todo)
    /\ \A q \in Proc : \A i \in DOMAIN proc[q].todo :
           /\ proc[q].todo[i].op = "mark" => proc[q].todo[i].proxy \in due
           /\ proc[q].todo[i].op = "restore" => q = Main /\ mode = "boot"
    /\ mode = "boot" => \A i, j \in DOMAIN proc[Main].todo :
                            proc[Main].todo[i].proxy = proc[Main].todo[j].proxy => i = j

\* Only a start makes a row say running, and only over an open listener.
CallsFit ==
    \A q \in Proc : proc[q].pc \in Inside =>
        /\ Current(q).op \in {"start", "stop", "expire"}
        /\ proc[q].new = "running" => Current(q).op = "start"
        /\ proc[q].new # "running" => ~server[PortOf[Current(q).proxy]].open

\* Some goroutine will save p as not running, or delete its row, without
\* closing its listener.
Threat(p) == \E q \in Proc : \E i \in DOMAIN proc[q].todo :
                LET s == proc[q].todo[i]
                IN s.proxy = p /\ (s.op \in {"mark", "restore"} \/ (i = 1 /\ s.op = "delete"))

\* The row of p says running, or is about to.
Shown(p) == row[p] = "running" \/ (row[p] # "none" /\ Starting(p) /\ proc[lock].new = "running")

\* An open listener that nothing raced with is the one of a row that says so,
\* and nobody is about to take the row from it.
StraysFit == \A n \in Port : server[n].open /\ n \notin raced =>
                 \E p \in Proxy : PortOf[p] = n /\ Shown(p) /\ ~Threat(p)

IInv == TypeInv /\ PortsUnique /\ ListenersFit /\ BootFits /\ ListsFit /\ CallsFit /\ StraysFit
-----------------------------------------------------------------------------
(* Lists of steps.                                                         *)

LEMMA ListFits ==
    ASSUME NEW S, NEW n \in Nat, NEW f \in [1..n -> S]
    PROVE  f \in Seq(S) /\ Len(f) = n /\ DOMAIN f = 1..n
  <1>1. f \in Seq(S) BY SeqDef
  <1>2. QED BY <1>1, LenProperties

LEMMA StepFits ==
    ASSUME NEW p \in Proxy, NEW op \in {"start", "stop", "expire", "mark", "restore", "delete", "create"}
    PROVE  /\ Do(op, p) \in Step
           /\ Do(op, p).op = op /\ Do(op, p).proxy = p
  BY DEF Do, Step, Status

LEMMA RowsFinite ==
    ASSUME NEW S \in SUBSET Proxy, NEW order \in Orders(S)
    PROVE  /\ Cardinality(S) \in Nat
           /\ order \in [1..Cardinality(S) -> S]
           /\ DOMAIN order = 1..Cardinality(S)
           /\ \A x \in S : \E i \in DOMAIN order : order[i] = x
           /\ order \in Seq(S) /\ Len(order) = Cardinality(S)
  <1>1. IsFiniteSet(S) BY FS_Subset, ProxyAssumption
  <1>2. Cardinality(S) \in Nat BY <1>1, FS_CardinalityType
  <1>3. order \in [1..Cardinality(S) -> S] /\ \A x \in S : \E i \in DOMAIN order : order[i] = x
    BY DEF Orders
  <1>4. QED BY <1>2, <1>3, ListFits

\* A list shows each row once.
LEMMA RowsOnce ==
    ASSUME NEW S \in SUBSET Proxy, NEW order \in Orders(S)
    PROVE  \A i, j \in DOMAIN order : order[i] = order[j] => i = j
  <1>1. PICK n \in Nat : n = Cardinality(S) BY RowsFinite
  <1>2. order \in [1..n -> S] /\ \A x \in S : \E i \in 1..n : order[i] = x BY <1>1, RowsFinite
  <1>3. order \in Surjection(1..n, S) BY <1>2 DEF Surjection
  <1>4. IsFiniteSet(1..n) /\ Cardinality(1..n) = n
    <2>1. 1 \in Int /\ n \in Int OBVIOUS
    <2>2. IsFiniteSet(1..n) /\ Cardinality(1..n) = IF 1 > n THEN 0 ELSE n - 1 + 1 BY <2>1, FS_Interval
    <2>3. (IF 1 > n THEN 0 ELSE n - 1 + 1) = n OBVIOUS
    <2>4. QED BY <2>2, <2>3
  <1>5. order \in Injection(1..n, S) BY <1>1, <1>3, <1>4, FS_Surjection
  <1>6. QED BY <1>2, <1>5 DEF Injection, IsInjective

LEMMA RunFits ==
    ASSUME NEW todo \in Seq(Step)
    PROVE  /\ Run(todo) \in ProcType
           /\ Run(todo).todo = todo /\ Run(todo).new = "none"
           /\ Run(todo).pc \in {"idle", "ready"}
           /\ Run(todo).pc = "idle" <=> todo = <<>>
  BY DEF Run, ProcType, Status

LEMMA IdleFits == Idle \in ProcType /\ Idle.pc = "idle" /\ Idle.todo = <<>> /\ Idle.new = "none"
  BY EmptySeq DEF Idle, ProcType, Status

LEMMA ClosedFits ==
    ASSUME NEW s \in [owner : Proxy \cup {NoProxy}, open : BOOLEAN]
    PROVE  /\ [s EXCEPT !.open = FALSE] \in [owner : Proxy \cup {NoProxy}, open : BOOLEAN]
           /\ ~[s EXCEPT !.open = FALSE].open
           /\ [s EXCEPT !.open = FALSE].owner = s.owner
  OBVIOUS

LEMMA CurrentFits ==
    ASSUME TypeOK, NEW q \in Proc, proc[q].pc # "idle"
    PROVE  /\ proc[q] \in ProcType
           /\ proc[q].todo \in Seq(Step) /\ proc[q].todo # <<>>
           /\ Current(q) \in Step /\ Current(q).proxy \in Proxy
           /\ Current(q) = proc[q].todo[1] /\ 1 \in DOMAIN proc[q].todo
           /\ Tail(proc[q].todo) \in Seq(Step)
           /\ DOMAIN Tail(proc[q].todo) = 1..(Len(proc[q].todo) - 1)
           /\ DOMAIN proc[q].todo = 1..Len(proc[q].todo) /\ Len(proc[q].todo) \in Nat \ {0}
           /\ \A i \in DOMAIN Tail(proc[q].todo) : Tail(proc[q].todo)[i] = proc[q].todo[i + 1]
  <1>1. proc[q] \in ProcType /\ proc[q].todo \in Seq(Step) /\ proc[q].todo # <<>>
    BY DEF TypeOK, ProcType
  <1>2. PICK t : t = proc[q].todo OBVIOUS
  <1>3. t \in Seq(Step) /\ t # <<>> BY <1>1, <1>2
  <1>4. Head(t) \in Step /\ Tail(t) \in Seq(Step) /\ Len(Tail(t)) = Len(t) - 1
        /\ \A i \in 1..Len(Tail(t)) : Tail(t)[i] = t[i + 1]
    BY <1>3, HeadTailProperties
  <1>5. Len(t) \in Nat \ {0} /\ DOMAIN t = 1..Len(t) BY <1>3, EmptySeq, LenProperties
  <1>6. DOMAIN Tail(t) = 1..Len(Tail(t)) BY <1>4, LenProperties
  <1>7. Head(t) = t[1] BY <1>3
  <1>8. QED BY <1>1, <1>2, <1>4, <1>5, <1>6, <1>7 DEF Current, Step

\* The goroutine q has another list, and stands between two steps.
MovesOn(q) == /\ proc' \in [Proc -> ProcType]
              /\ \A r \in Proc \ {q} : proc'[r] = proc[r]
              /\ proc'[q].pc \in {"idle", "ready"}
              /\ proc'[q].pc = "idle" <=> proc'[q].todo = <<>>

LEMMA AdvanceFits ==
    ASSUME TypeOK, NEW q \in Proc, proc[q].pc # "idle", Advance(q)
    PROVE  MovesOn(q) /\ proc'[q].todo = Tail(proc[q].todo)
  <1>1. proc'[q] = Run(Tail(proc[q].todo)) BY DEF Advance, TypeOK
  <1>2. Tail(proc[q].todo) \in Seq(Step) BY CurrentFits
  <1>3. proc \in [Proc -> ProcType] BY DEF TypeOK, ProcType
  <1>4. QED BY <1>1, <1>2, <1>3, RunFits DEF Advance, MovesOn

LEMMA SavingFits ==
    ASSUME TypeOK, NEW q \in Proc, NEW pc \in Inside, NEW st \in Status,
           proc' = [proc EXCEPT ![q] = [@ EXCEPT !.pc = pc, !.new = st]]
    PROVE  /\ proc' \in [Proc -> ProcType]
           /\ \A r \in Proc \ {q} : proc'[r] = proc[r]
           /\ proc'[q].todo = proc[q].todo /\ proc'[q].pc = pc /\ proc'[q].new = st
  <1>1. proc \in [Proc -> ProcType] /\ proc[q] \in ProcType BY DEF TypeOK, ProcType
  <1>2. proc'[q] = [proc[q] EXCEPT !.pc = pc, !.new = st] BY <1>1
  <1>3. proc'[q] \in ProcType /\ proc'[q].todo = proc[q].todo /\ proc'[q].pc = pc /\ proc'[q].new = st
    BY <1>1, <1>2 DEF ProcType, Inside
  <1>4. QED BY <1>1, <1>3

LEMMA BeginFits ==
    ASSUME TypeOK, NEW q \in Proc, NEW todo \in Seq(Step), Begin(q, todo)
    PROVE  MovesOn(q) /\ proc[q].pc = "idle" /\ proc'[q].todo = todo
  <1>1. proc \in [Proc -> ProcType] BY DEF TypeOK, ProcType
  <1>2. QED BY <1>1, RunFits DEF Begin, MovesOn
-----------------------------------------------------------------------------
(* The type invariant, and who is inside the mutex.                        *)

\* A step of q outside the mutex, or a new list for it.
LEMMA OutsideType ==
    ASSUME TypeInv, NEW q \in Proc, proc[q].pc \notin Inside, mode # "down",
           MovesOn(q),
           row' \in [Proxy -> Status], created' \in SUBSET Proxy, mode' \in {"boot", "up", "halt"},
           before' \in SUBSET Proxy, raced' \in SUBSET Port,
           UNCHANGED <<due, server, clients, lock, crashes>>
    PROVE  TypeInv'
  <1>1. \A r \in Proc : /\ proc'[r].pc # "idle" => proc'[r].todo # <<>>
                        /\ proc'[r].pc = "idle" => proc'[r].todo = <<>>
                        /\ proc'[r].pc \in Inside <=> lock' = r
    BY DEF TypeInv, TypeOK, LockFits, Inside, MovesOn
  <1>2. LockFits' BY <1>1 DEF LockFits
  <1>3. TypeOK' BY <1>1 DEF TypeInv, TypeOK, ProcType, MovesOn
  <1>4. QED BY <1>2, <1>3 DEF TypeInv

\* The mutex is taken, or its holder goes on to the save.
LEMMA InsideType ==
    ASSUME TypeInv, NEW q \in Proc, lock \in {Free, q}, lock' = q, proc[q].pc # "idle",
           proc' \in [Proc -> ProcType], \A r \in Proc \ {q} : proc'[r] = proc[r],
           proc'[q].pc \in Inside, proc'[q].todo = proc[q].todo,
           server' \in [Port -> [owner : Proxy \cup {NoProxy}, open : BOOLEAN]],
           raced' \in SUBSET Port,
           UNCHANGED <<row, due, created, clients, mode, before, crashes>>
    PROVE  TypeInv'
  <1>1. mode # "down" BY DEF TypeInv, LockFits
  <1>2. \A r \in Proc : r # Free BY ProxyAssumption DEF Proc
  <1>3. \A r \in Proc : /\ proc'[r].pc # "idle" => proc'[r].todo # <<>>
                        /\ proc'[r].pc = "idle" => proc'[r].todo = <<>>
                        /\ proc'[r].pc \in Inside <=> lock' = r
    <2>1. proc[q].todo # <<>> /\ proc'[q].pc # "idle" BY DEF TypeInv, TypeOK, Inside
    <2>2. \A r \in Proc \ {q} : proc[r].pc \notin Inside BY <1>2 DEF TypeInv, LockFits
    <2>3. ASSUME NEW r \in Proc \ {q}
            PROVE  /\ proc'[r].pc # "idle" => proc'[r].todo # <<>>
                   /\ proc'[r].pc = "idle" => proc'[r].todo = <<>>
                   /\ proc'[r].pc \notin Inside
        BY <2>2, proc'[r] = proc[r] DEF TypeInv, TypeOK, LockFits
    <2>4. QED BY <2>1, <2>3
  <1>4. LockFits' BY <1>1, <1>3 DEF LockFits
  <1>5. TypeOK' BY <1>3 DEF TypeInv, TypeOK, ProcType
  <1>6. QED BY <1>4, <1>5 DEF TypeInv

LEMMA UpsertFits ==
    ASSUME TypeOK, NEW p \in Proxy, NEW st \in Status, Upsert(p, st)
    PROVE  /\ row' \in [Proxy -> Status]
           /\ \A r \in Proxy \ {p} : row'[r] = row[r]
           /\ row'[p] \in {row[p], st}
           /\ row[p] # "none" => row'[p] = st
           /\ row[p] = "none" /\ PortTaken(p) => row'[p] = "none"
  BY DEF Upsert, TypeOK

LEMMA BusyIsAlive ==
    ASSUME TypeInv, NEW q \in Proc, proc[q].pc # "idle"
    PROVE  mode \in {"boot", "up", "halt"}
  BY DEF TypeInv, TypeOK, LockFits

LEMMA CallType ==
    ASSUME TypeInv, NEW q \in Proc,
           NotFound(q) \/ LockedStart(q) \/ LockedStop(q) \/ Drained(q) \/ SaveRow(q)
    PROVE  TypeInv'
  <1>0. TypeOK BY DEF TypeInv
  <1>1. proc[q].pc # "idle" BY DEF NotFound, LockedStart, LockedStop, Drained, SaveRow, Turn
  <1>2. Current(q).proxy \in Proxy BY <1>0, <1>1, CurrentFits
  <1>3. PortOf[Current(q).proxy] \in Port BY <1>2, ProxyAssumption
  <1>4. mode \in {"boot", "up", "halt"} BY <1>1, BusyIsAlive
  <1>5. CASE NotFound(q)
    <2>1. Advance(q) /\ proc[q].pc \notin Inside
      BY <1>5 DEF NotFound, Turn, Inside
    <2>2. UNCHANGED <<row, due, created, server, clients, lock, mode, before, raced, crashes>>
      BY <1>5 DEF NotFound
    <2>3. QED BY <1>0, <1>1, <1>4, <2>1, <2>2, AdvanceFits, OutsideType DEF TypeOK
  <1>4a. \A p \in Proxy \cup {NoProxy}, b \in BOOLEAN :
             [server EXCEPT ![PortOf[Current(q).proxy]] = [owner |-> p, open |-> b]]
                 \in [Port -> [owner : Proxy \cup {NoProxy}, open : BOOLEAN]]
    BY <1>0, <1>3 DEF TypeOK
  <1>6. ASSUME NEW pc \in Inside, NEW st \in Status, lock \in {Free, q}, lock' = q,
               proc' = [proc EXCEPT ![q] = [@ EXCEPT !.pc = pc, !.new = st]],
               server' \in [Port -> [owner : Proxy \cup {NoProxy}, open : BOOLEAN]],
               raced' \in SUBSET Port,
               UNCHANGED <<row, due, created, clients, mode, before, crashes>>
        PROVE  TypeInv'
    <2>1. /\ proc' \in [Proc -> ProcType]
          /\ \A r \in Proc \ {q} : proc'[r] = proc[r]
          /\ proc'[q].todo = proc[q].todo /\ proc'[q].pc = pc
      BY <1>0, <1>6, SavingFits
    <2>2. QED BY <1>1, <1>6, <2>1, InsideType
  <1>7. CASE LockedStart(q)
    <2>1. lock = Free /\ lock' = q /\ UNCHANGED <<row, due, created, clients, mode, before, crashes>>
      BY <1>7 DEF LockedStart, Enter
    <2>2. server' \in [Port -> [owner : Proxy \cup {NoProxy}, open : BOOLEAN]]
      <3>1. \/ server' = [server EXCEPT ![PortOf[Current(q).proxy]] =
                                            [owner |-> Current(q).proxy, open |-> TRUE]]
            \/ UNCHANGED server
        BY <1>7 DEF LockedStart
      <3>2. server \in [Port -> [owner : Proxy \cup {NoProxy}, open : BOOLEAN]]
        BY <1>0 DEF TypeOK
      <3>3. TRUE \in BOOLEAN /\ Current(q).proxy \in Proxy \cup {NoProxy} BY <1>2
      <3>4. [server EXCEPT ![PortOf[Current(q).proxy]] = [owner |-> Current(q).proxy, open |-> TRUE]]
                \in [Port -> [owner : Proxy \cup {NoProxy}, open : BOOLEAN]]
        BY <1>4a, <3>3, Zenon
      <3>5. QED BY <3>1, <3>2, <3>4
    <2>3. PICK st \in {"running", "expired", "error"} : Saving(q, st)
      BY <1>7 DEF LockedStart
    <2>4. raced' \in SUBSET Port BY <1>0, <1>3, <1>7 DEF LockedStart, TypeOK
    <2>5. QED BY <1>6, <2>1, <2>2, <2>3, <2>4 DEF Saving, Inside, Status
  <1>8. CASE LockedStop(q)
    <2>1. lock = Free /\ lock' = q /\ UNCHANGED <<row, due, created, clients, mode, before, crashes>>
      BY <1>8 DEF LockedStop, Enter
    <2>2. server' \in [Port -> [owner : Proxy \cup {NoProxy}, open : BOOLEAN]]
      <3>1. PICK n : n = PortOf[Current(q).proxy] OBVIOUS
      <3>2. server[n] \in [owner : Proxy \cup {NoProxy}, open : BOOLEAN]
        BY <1>0, <1>3, <3>1 DEF TypeOK
      <3>3. PICK c : c = [server[n] EXCEPT !.open = FALSE] OBVIOUS
      <3>4. c \in [owner : Proxy \cup {NoProxy}, open : BOOLEAN]
        BY <3>2, <3>3, ClosedFits
      <3>5. \/ server' = [server EXCEPT ![n] = c]
            \/ UNCHANGED server
        BY <1>8, <3>1, <3>3 DEF LockedStop
      <3>6. server \in [Port -> [owner : Proxy \cup {NoProxy}, open : BOOLEAN]] /\ n \in Port
        BY <1>0, <1>3, <3>1 DEF TypeOK
      <3>7. [server EXCEPT ![n] = c] \in [Port -> [owner : Proxy \cup {NoProxy}, open : BOOLEAN]]
        BY <3>4, <3>6, Zenon
      <3>8. QED BY <3>5, <3>6, <3>7
    <2>3. PICK pc \in Inside, st \in {"stopped", "expired"} :
             proc' = [proc EXCEPT ![q] = [@ EXCEPT !.pc = pc, !.new = st]]
      BY <1>8 DEF LockedStop, Saving, Inside
    <2>4. raced' \in SUBSET Port BY <1>0, <1>8 DEF LockedStop, TypeOK
    <2>5. QED BY <1>6, <2>1, <2>2, <2>3, <2>4 DEF Status
  <1>9. CASE Drained(q)
    <2>1. lock = q BY <1>9 DEF Drained, TypeInv, LockFits, Inside
    <2>2. UNCHANGED <<row, due, created, clients, lock, mode, before, crashes>>
      BY <1>9 DEF Drained
    <2>3. server' \in [Port -> [owner : Proxy \cup {NoProxy}, open : BOOLEAN]]
      BY <1>4a, <1>9 DEF Drained, NoServer
    <2>4. proc[q].new \in Status /\ raced' \in SUBSET Port BY <1>0, <1>9 DEF Drained, TypeOK
    <2>5. QED BY <1>6, <1>9, <2>1, <2>2, <2>3, <2>4 DEF Drained, Saving, Inside
  <1>10. CASE SaveRow(q)
    <2>1. proc[q].new \in Status /\ proc[q].pc = "save" BY <1>0, <1>10 DEF TypeOK, SaveRow
    <2>2. Upsert(Current(q).proxy, proc[q].new) /\ Advance(q) /\ lock' = Free
          /\ UNCHANGED <<due, created, server, clients, mode, before, raced, crashes>>
      BY <1>10 DEF SaveRow
    <2>3. lock = q BY <2>1 DEF TypeInv, LockFits, Inside
    <2>4. row' \in [Proxy -> Status] BY <1>0, <1>2, <2>1, <2>2, UpsertFits
    <2>5. MovesOn(q)
      BY <1>0, <1>1, <2>2, AdvanceFits
    <2>6. Free \notin Proc BY ProxyAssumption DEF Proc
    <2>7. \A r \in Proc : /\ proc'[r].pc # "idle" => proc'[r].todo # <<>>
                          /\ proc'[r].pc = "idle" => proc'[r].todo = <<>>
                          /\ proc'[r].pc \in Inside <=> lock' = r
      BY <2>2, <2>3, <2>5, <2>6 DEF TypeInv, TypeOK, LockFits, Inside, MovesOn
    <2>8. LockFits' BY <1>4, <2>2, <2>7 DEF LockFits
    <2>9. TypeOK' BY <2>2, <2>4, <2>5, <2>7 DEF TypeInv, TypeOK, ProcType, MovesOn
    <2>10. QED BY <2>8, <2>9 DEF TypeInv
  <1>11. QED BY <1>5, <1>7, <1>8, <1>9, <1>10

LEMMA PlainType ==
    ASSUME TypeInv, NEW q \in Proc, MarkExpired(q) \/ DeleteRow(q) \/ CreateRow(q) \/ RestoreRow(q)
    PROVE  TypeInv'
  <1>0. TypeOK BY DEF TypeInv
  <1>1. proc[q].pc = "ready" BY DEF MarkExpired, DeleteRow, CreateRow, RestoreRow, Turn
  <1>2. Current(q).proxy \in Proxy BY <1>0, <1>1, CurrentFits
  <1>3. mode \in {"boot", "up", "halt"} /\ proc[q].pc \notin Inside
    BY <1>1, BusyIsAlive DEF Inside
  <1>4. CASE MarkExpired(q)
    <2>1. row' \in [Proxy -> Status]
      BY <1>0, <1>2, <1>4, UpsertFits DEF MarkExpired, Status
    <2>2. QED BY <1>0, <1>1, <1>3, <1>4, <2>1, AdvanceFits, OutsideType DEF MarkExpired, TypeOK
  <1>5. CASE DeleteRow(q)
    <2>1. row' \in [Proxy -> Status] BY <1>0, <1>5 DEF DeleteRow, TypeOK, Status
    <2>2. QED BY <1>0, <1>1, <1>3, <1>5, <2>1, AdvanceFits, OutsideType DEF DeleteRow, TypeOK
  <1>6. CASE CreateRow(q)
    <2>1. row' \in [Proxy -> Status] /\ created' \in SUBSET Proxy
      BY <1>0, <1>2, <1>6 DEF CreateRow, TypeOK, Status
    <2>2. MovesOn(q)
      <3>1. CASE Advance(q) BY <1>0, <1>1, <3>1, AdvanceFits
      <3>2. CASE proc' = [proc EXCEPT ![q] = Idle]
        BY <1>0, <3>2, IdleFits DEF TypeOK, ProcType, MovesOn
      <3>3. QED BY <1>6, <3>1, <3>2 DEF CreateRow
    <2>3. QED BY <1>0, <1>3, <1>6, <2>1, <2>2, OutsideType DEF CreateRow, TypeOK
  <1>7. CASE RestoreRow(q)
    <2>1. MovesOn(q)
      <3>1. CASE Advance(q) BY <1>0, <1>1, <3>1, AdvanceFits
      <3>2. ASSUME NEW op \in {"mark", "start"},
                   proc' = [proc EXCEPT ![q] = Run(<<Do(op, Current(q).proxy)>> \o Tail(proc[q].todo))]
            PROVE  MovesOn(q)
        <4>1. <<Do(op, Current(q).proxy)>> \in Seq(Step) BY <1>2, StepFits
        <4>2. Tail(proc[q].todo) \in Seq(Step) BY <1>0, <1>1, CurrentFits
        <4>3. <<Do(op, Current(q).proxy)>> \o Tail(proc[q].todo) \in Seq(Step)
          BY <4>1, <4>2, ConcatProperties
        <4> DEFINE rest == <<Do(op, Current(q).proxy)>> \o Tail(proc[q].todo)
        <4>4. rest \in Seq(Step) /\ proc' = [proc EXCEPT ![q] = Run(rest)] BY <3>2, <4>3
        <4> HIDE DEF rest
        <4>5. QED BY <1>0, <4>4, RunFits DEF TypeOK, ProcType, MovesOn
      <3>3. QED BY <1>7, <3>1, <3>2 DEF RestoreRow
    <2>2. QED BY <1>0, <1>3, <1>7, <2>1, OutsideType DEF RestoreRow, TypeOK
  <1>8. QED BY <1>4, <1>5, <1>6, <1>7

\* Every list a handler, the sweep or main begins with is a list of steps.
LEMMA RequestFits ==
    ASSUME TypeOK, NEW q \in Req, Request(q)
    PROVE  \E todo \in Seq(Step) : Begin(q, todo) /\ Fresh(todo)
  <1>1. \A p \in Proxy, op \in {"start", "stop", "expire", "mark", "restore", "delete", "create"} :
            Do(op, p) \in Step /\ Do(op, p).op = op /\ Do(op, p).proxy = p
    BY StepFits
  <1>2. ASSUME NEW op \in {"create", "start", "stop"}, NEW p \in Proxy, Begin(q, <<Do(op, p)>>)
        PROVE  \E todo \in Seq(Step) : Begin(q, todo) /\ Fresh(todo)
    <2>1. PICK a \in Step : a = Do(op, p) /\ a.op = op BY <1>1
    <2>2. PICK t : t = <<a>> OBVIOUS
    <2>3. t \in Seq(Step) /\ DOMAIN t = {1} /\ t[1] = a BY <2>2
    <2>4. Fresh(t) BY <2>1, <2>3 DEF Fresh
    <2>5. QED BY <1>2, <2>1, <2>2, <2>3, <2>4
  <1>3. ASSUME NEW p \in Proxy, Begin(q, <<Do("stop", p), Do("delete", p)>>)
        PROVE  \E todo \in Seq(Step) : Begin(q, todo) /\ Fresh(todo)
    <2>1. PICK a \in Step : a = Do("stop", p) /\ a.op = "stop" /\ a.proxy = p BY <1>1
    <2>2. PICK b \in Step : b = Do("delete", p) /\ b.op = "delete" /\ b.proxy = p BY <1>1
    <2>3. PICK t : t = <<a, b>> OBVIOUS
    <2>4. t \in Seq(Step) /\ DOMAIN t = {1, 2} /\ t[1] = a /\ t[2] = b /\ 2 - 1 = 1 BY <2>3
    <2>5. Fresh(t) BY <2>1, <2>2, <2>4 DEF Fresh
    <2>6. QED BY <1>3, <2>1, <2>2, <2>3, <2>4, <2>5
  <1>4. ASSUME NEW p \in Proxy, Begin(q, <<Do("create", p), Do("start", p)>>)
        PROVE  \E todo \in Seq(Step) : Begin(q, todo) /\ Fresh(todo)
    <2>1. PICK a \in Step : a = Do("create", p) /\ a.op = "create" BY <1>1
    <2>2. PICK b \in Step : b = Do("start", p) /\ b.op = "start" BY <1>1
    <2>3. PICK t : t = <<a, b>> OBVIOUS
    <2>4. t \in Seq(Step) /\ DOMAIN t = {1, 2} /\ t[1] = a /\ t[2] = b BY <2>3
    <2>5. Fresh(t) BY <2>1, <2>2, <2>4 DEF Fresh
    <2>6. QED BY <1>4, <2>1, <2>2, <2>3, <2>4, <2>5
  <1>5. ASSUME NEW p \in Proxy, NEW r \in Proxy,
               Begin(q, <<Do("stop", r), Do("delete", r)>> \o <<Do("create", p), Do("start", p)>>)
        PROVE  \E todo \in Seq(Step) : Begin(q, todo) /\ Fresh(todo)
    <2>1. PICK a \in Step : a = Do("stop", r) /\ a.op = "stop" /\ a.proxy = r BY <1>1
    <2>2. PICK b \in Step : b = Do("delete", r) /\ b.op = "delete" /\ b.proxy = r BY <1>1
    <2>3. PICK c \in Step : c = Do("create", p) /\ c.op = "create" BY <1>1
    <2>4. PICK d \in Step : d = Do("start", p) /\ d.op = "start" BY <1>1
    <2>5. PICK t : t = <<a, b, c, d>> OBVIOUS
    <2>6. /\ t \in Seq(Step) /\ DOMAIN t = {1, 2, 3, 4} /\ 2 - 1 = 1
          /\ t[1] = a /\ t[2] = b /\ t[3] = c /\ t[4] = d
      BY <2>5
    <2>7. Fresh(t) BY <2>1, <2>2, <2>3, <2>4, <2>6 DEF Fresh
    <2>8. t = <<a, b>> \o <<c, d>> BY <2>5
    <2>9. QED BY <1>5, <2>1, <2>2, <2>3, <2>4, <2>6, <2>7, <2>8
  <1>6. ASSUME NEW v \in Node, DeleteVPN(q, v)
        PROVE  \E todo \in Seq(Step) : Begin(q, todo) /\ Fresh(todo)
    <2>1. PICK order \in Orders({p \in Rows : NodeOf[p] = v}) :
              Begin(q, [i \in 1..(2 * Len(order)) |->
                           IF i % 2 = 1 THEN Do("stop", order[(i + 1) \div 2])
                                        ELSE Do("delete", order[i \div 2])])
      BY <1>6 DEF DeleteVPN
    <2>2. /\ Len(order) \in Nat
          /\ \A i \in 1..Len(order) : order[i] \in Proxy
      <3>1. {p \in Rows : NodeOf[p] = v} \in SUBSET Proxy BY DEF Rows
      <3>2. QED BY <3>1, RowsFinite
    <2>3. PICK n \in Nat : n = Len(order) BY <2>2
    <2>4. \A i \in 1..(2 * n) : /\ i % 2 = 1 => (i + 1) \div 2 \in 1..n
                                /\ i % 2 # 1 => i \div 2 \in 1..n
      BY Z3
    <2>5. \A i \in 1..(2 * n) : i % 2 # 1 =>
              i # 1 /\ i - 1 \in 1..(2 * n) /\ (i - 1) % 2 = 1 /\ (i - 1 + 1) \div 2 = i \div 2
      BY Z3
    <2>6. PICK t : t = [i \in 1..(2 * n) |-> IF i % 2 = 1 THEN Do("stop", order[(i + 1) \div 2])
                                                         ELSE Do("delete", order[i \div 2])]
      OBVIOUS
    <2>7. \A i \in 1..(2 * n) :
              /\ i % 2 = 1 => /\ t[i] = Do("stop", order[(i + 1) \div 2])
                              /\ t[i] \in Step /\ t[i].op = "stop" /\ t[i].proxy = order[(i + 1) \div 2]
              /\ i % 2 # 1 => /\ t[i] = Do("delete", order[i \div 2])
                              /\ t[i] \in Step /\ t[i].op = "delete" /\ t[i].proxy = order[i \div 2]
      BY <1>1, <2>2, <2>3, <2>4, <2>6
    <2>8. t \in [1..(2 * n) -> Step] BY <2>6, <2>7
    <2>9. 2 * n \in Nat OBVIOUS
    <2>10. t \in Seq(Step) /\ DOMAIN t = 1..(2 * n) BY <2>8, <2>9, ListFits
    <2>11. \A i \in 1..(2 * n) : t[i].op = "delete" => t[i - 1].op = "stop" /\ t[i - 1].proxy = t[i].proxy
      <3>1. SUFFICES ASSUME NEW i \in 1..(2 * n), t[i].op = "delete"
                     PROVE  t[i - 1].op = "stop" /\ t[i - 1].proxy = t[i].proxy
        OBVIOUS
      <3>2. i % 2 # 1 /\ t[i].proxy = order[i \div 2] BY <2>7, <3>1
      <3>3. PICK j \in 1..(2 * n) : j = i - 1 /\ j % 2 = 1 /\ (j + 1) \div 2 = i \div 2
        BY <2>5, <3>2
      <3>4. QED BY <2>7, <3>2, <3>3
    <2>12. \A i \in 1..(2 * n) : t[i].op \in {"stop", "delete"} /\ (t[i].op = "delete" => i # 1)
      BY <2>5, <2>7
    <2>13. Fresh(t) BY <2>10, <2>11, <2>12 DEF Fresh
    <2>14. Begin(q, t) BY <2>1, <2>3, <2>6
    <2>15. QED BY <2>10, <2>13, <2>14
  <1>7. ASSUME NEW p \in Proxy,
               CreateProxy(q, p) \/ StartProxy(q, p) \/ StopProxy(q, p) \/ DeleteProxy(q, p)
        PROVE  \E todo \in Seq(Step) : Begin(q, todo) /\ Fresh(todo)
    BY <1>2, <1>3, <1>7 DEF CreateProxy, StartProxy, StopProxy, DeleteProxy
  <1>8. ASSUME NEW p \in Proxy, ConnectAndCreateProxy(q, p)
        PROVE  \E todo \in Seq(Step) : Begin(q, todo) /\ Fresh(todo)
    BY <1>4, <1>5, <1>8 DEF ConnectAndCreateProxy, Rows
  <1>9. QED BY <1>6, <1>7, <1>8 DEF Request

LEMMA SweepFits ==
    ASSUME TypeOK, SweepExpiredProxies
    PROVE  \E todo \in Seq(Step) :
              /\ Begin(Sweeper, todo)
              /\ \A i \in DOMAIN todo :
                    /\ todo[i].op \in {"expire", "mark"}
                    /\ todo[i].op = "mark" => todo[i].proxy \in DueRows /\ row[todo[i].proxy] # "running"
  <1>1. PICK order \in Orders(DueRows) : Begin(Sweeper, [i \in DOMAIN order |-> SweepStep(order[i])])
    BY DEF SweepExpiredProxies
  <1>2. DueRows \in SUBSET Proxy BY DEF DueRows, TypeOK
  <1>3. PICK n \in Nat : DOMAIN order = 1..n /\ \A i \in 1..n : order[i] \in DueRows
    BY <1>2, RowsFinite
  <1>4. \A p \in Proxy : /\ SweepStep(p) \in Step /\ SweepStep(p).proxy = p
                         /\ SweepStep(p).op \in {"expire", "mark"}
                         /\ SweepStep(p).op = "mark" => row[p] # "running"
    BY StepFits DEF SweepStep
  <1>5. PICK todo : todo = [i \in 1..n |-> SweepStep(order[i])] OBVIOUS
  <1>6. todo \in Seq(Step) /\ DOMAIN todo = 1..n BY <1>2, <1>3, <1>4, <1>5, ListFits
  <1>7. \A i \in 1..n : todo[i] = SweepStep(order[i]) BY <1>5
  <1>8. Begin(Sweeper, todo) BY <1>1, <1>3, <1>5
  <1>9. QED BY <1>2, <1>3, <1>4, <1>6, <1>7, <1>8

LEMMA BootFinds ==
    ASSUME TypeOK, Boot
    PROVE  \E todo \in Seq(Step) :
              /\ Begin(Main, todo)
              /\ \A i \in DOMAIN todo : todo[i].op = "restore"
              /\ \A p \in Rows : \E i \in DOMAIN todo : todo[i].proxy = p /\ todo[i].seen = row[p]
              /\ \A i, j \in DOMAIN todo : todo[i].proxy = todo[j].proxy => i = j
  <1> DEFINE Found(p) == [op |-> "restore", proxy |-> p, seen |-> row[p]]
  <1>1. PICK order \in Orders(Rows) : Begin(Main, [i \in DOMAIN order |-> Found(order[i])])
    BY DEF Boot
  <1>2. Rows \in SUBSET Proxy BY DEF Rows
  <1>3. PICK n \in Nat : /\ DOMAIN order = 1..n
                         /\ \A i \in 1..n : order[i] \in Proxy
                         /\ \A p \in Rows : \E i \in 1..n : order[i] = p
                         /\ \A i, j \in 1..n : order[i] = order[j] => i = j
    BY <1>2, RowsFinite, RowsOnce
  <1>4. \A p \in Proxy : Found(p) \in Step BY DEF Step, TypeOK
  <1>5. PICK todo : todo = [i \in 1..n |-> Found(order[i])] OBVIOUS
  <1>6. todo \in Seq(Step) /\ DOMAIN todo = 1..n BY <1>3, <1>4, <1>5, ListFits
  <1>7. \A i \in 1..n : todo[i] = Found(order[i]) BY <1>5
  <1>8. Begin(Main, todo) BY <1>1, <1>3, <1>5
  <1>9. QED BY <1>3, <1>6, <1>7, <1>8

LEMMA ShutdownFits ==
    ASSUME TypeOK, Shutdown
    PROVE  \E todo \in Seq(Step) : Begin(Main, todo) /\ \A i \in DOMAIN todo : todo[i].op = "stop"
  <1>1. PICK order \in Orders({p \in Rows : row[p] = "running"}) :
            Begin(Main, [i \in DOMAIN order |-> Do("stop", order[i])])
    BY DEF Shutdown
  <1>2. {p \in Rows : row[p] = "running"} \in SUBSET Proxy BY DEF Rows
  <1>3. PICK n \in Nat : DOMAIN order = 1..n /\ \A i \in 1..n : order[i] \in Proxy
    BY <1>2, RowsFinite
  <1>4. \A i \in 1..n : Do("stop", order[i]) \in Step /\ Do("stop", order[i]).op = "stop" BY <1>3, StepFits
  <1>5. PICK todo : todo = [i \in 1..n |-> Do("stop", order[i])] OBVIOUS
  <1>6. todo \in Seq(Step) /\ DOMAIN todo = 1..n BY <1>4, <1>5, ListFits
  <1>7. \A i \in 1..n : todo[i].op = "stop" BY <1>4, <1>5
  <1>8. Begin(Main, todo) BY <1>1, <1>3, <1>5
  <1>9. QED BY <1>6, <1>7, <1>8

LEMMA EndedFits ==
    ASSUME TypeInv, ProcessEnds, crashes' \in Nat, before' \in SUBSET Proxy
    PROVE  TypeInv'
  <1>1. proc' = [r \in Proc |-> Idle] /\ lock' = Free /\ mode' = "down"
        /\ server' = [n \in Port |-> NoServer] /\ clients' = {} /\ raced' = {}
        /\ UNCHANGED <<row, due, created>>
    BY DEF ProcessEnds
  <1>2. proc' \in [Proc -> ProcType] /\ \A r \in Proc : proc'[r].pc = "idle" /\ proc'[r].todo = <<>>
    BY <1>1, IdleFits
  <1>3. server' \in [Port -> [owner : Proxy \cup {NoProxy}, open : BOOLEAN]]
        /\ \A n \in Port : server'[n] = NoServer
    BY <1>1 DEF NoServer
  <1>4. Free \notin Proc BY ProxyAssumption DEF Proc
  <1>5. LockFits' BY <1>1, <1>2, <1>3, <1>4 DEF LockFits, Inside
  <1>6. TypeOK' BY <1>1, <1>2, <1>3 DEF TypeInv, TypeOK, ProcType
  <1>7. QED BY <1>5, <1>6 DEF TypeInv

LEMMA ProcessType ==
    ASSUME TypeInv, SweepExpiredProxies \/ Boot \/ Serve \/ Shutdown \/ Exit \/ Crash
    PROVE  TypeInv'
  <1>0. TypeOK BY DEF TypeInv
  <1>1. Sweeper \in Proc /\ Main \in Proc BY DEF Proc
  <1>2. Listening \in SUBSET Proxy BY DEF Listening
  <1>3. CASE SweepExpiredProxies
    <2>1. PICK todo \in Seq(Step) : Begin(Sweeper, todo) BY <1>0, <1>3, SweepFits
    <2>2. MovesOn(Sweeper) /\ proc[Sweeper].pc = "idle" BY <1>0, <1>1, <2>1, BeginFits
    <2>3. raced' \in SUBSET Port
      <3>1. {PortOf[p] : p \in {r \in DueRows : row[r] # "running" /\ Starting(r)}} \in SUBSET Port
        BY <1>0, ProxyAssumption DEF DueRows, TypeOK
      <3>2. QED BY <1>0, <1>3, <3>1 DEF SweepExpiredProxies, TypeOK
    <2>4. QED BY <1>0, <1>1, <1>3, <2>2, <2>3, OutsideType DEF SweepExpiredProxies, TypeOK, Inside
  <1>4. CASE Boot
    <2>1. PICK todo \in Seq(Step) : Begin(Main, todo) BY <1>0, <1>4, BootFinds
    <2>2. MovesOn(Main) /\ proc[Main].pc = "idle" BY <1>0, <1>1, <2>1, BeginFits
    <2>3. mode' = "boot" /\ UNCHANGED <<row, due, created, server, clients, lock, before, raced, crashes>>
      BY <1>4 DEF Boot
    <2>4. \A r \in Proc : /\ proc'[r].pc # "idle" => proc'[r].todo # <<>>
                          /\ proc'[r].pc = "idle" => proc'[r].todo = <<>>
                          /\ proc'[r].pc \in Inside <=> lock' = r
      BY <1>1, <2>2, <2>3 DEF TypeInv, TypeOK, LockFits, Inside, MovesOn
    <2>5. LockFits' BY <2>3, <2>4 DEF LockFits
    <2>6. TypeOK' BY <1>0, <2>2, <2>3, <2>4 DEF TypeOK, ProcType, MovesOn
    <2>7. QED BY <2>5, <2>6 DEF TypeInv
  <1>5. CASE Serve
    <2>1. mode' = "up" /\ UNCHANGED <<row, due, created, server, clients, lock, proc, before, raced, crashes>>
      BY <1>5 DEF Serve
    <2>2. LockFits' BY <2>1 DEF TypeInv, LockFits
    <2>3. TypeOK' BY <1>0, <2>1 DEF TypeOK
    <2>4. QED BY <2>2, <2>3 DEF TypeInv
  <1>6. CASE Shutdown
    <2>1. PICK todo \in Seq(Step) : Begin(Main, todo) BY <1>0, <1>6, ShutdownFits
    <2>2. MovesOn(Main) /\ proc[Main].pc = "idle" BY <1>0, <1>1, <2>1, BeginFits
    <2>3. QED BY <1>0, <1>1, <1>2, <1>6, <2>2, OutsideType DEF Shutdown, TypeOK, Inside
  <1>7. CASE Exit
    BY <1>0, <1>7, EndedFits DEF Exit, TypeOK
  <1>8. CASE Crash
    BY <1>0, <1>2, <1>8, EndedFits DEF Crash, TypeOK
  <1>9. QED BY <1>3, <1>4, <1>5, <1>6, <1>7, <1>8

\* What happens to listeners and rentals from outside.
Outside == \/ \E p \in Proxy : Expires(p)
           \/ \E n \in Port : ClientConnects(n) \/ ClientLeaves(n)

LEMMA OutsideKeeps ==
    ASSUME Outside
    PROVE  UNCHANGED <<row, created, server, lock, proc, mode, before, raced, crashes>>
  BY DEF Outside, Expires, ClientConnects, ClientLeaves

LEMMA TypeStep == TypeInv /\ [Next]_vars => TypeInv'
  <1> SUFFICES ASSUME TypeInv, [Next]_vars PROVE TypeInv'
    OBVIOUS
  <1>0. TypeOK BY DEF TypeInv
  <1>1. ASSUME NEW q \in Proc, ProcStep(q) PROVE TypeInv'
    BY <1>1, CallType, PlainType DEF ProcStep
  <1>2. ASSUME NEW q \in Req, Request(q) PROVE TypeInv'
    <2>1. q \in Proc BY DEF Proc
    <2>2. PICK todo \in Seq(Step) : Begin(q, todo) BY <1>0, <1>2, RequestFits
    <2>3. MovesOn(q) /\ proc[q].pc = "idle" BY <1>0, <2>1, <2>2, BeginFits
    <2>4. QED BY <1>0, <1>2, <2>1, <2>3, OutsideType DEF Request, TypeOK, Inside
  <1>3. CASE Outside
    <2>1. due' \in SUBSET Proxy /\ clients' \in SUBSET Port
      BY <1>0, <1>3 DEF Outside, Expires, ClientConnects, ClientLeaves, TypeOK
    <2>2. UNCHANGED <<row, created, server, lock, proc, mode, before, raced, crashes>> BY <1>3, OutsideKeeps
    <2>3. TypeOK' BY <1>0, <2>1, <2>2 DEF TypeOK
    <2>4. LockFits' BY <2>2 DEF TypeInv, LockFits
    <2>5. QED BY <2>3, <2>4 DEF TypeInv
  <1>4. CASE UNCHANGED vars
    BY <1>4 DEF vars, TypeInv, TypeOK, LockFits
  <1>5. QED BY <1>1, <1>2, <1>3, <1>4, ProcessType DEF Next, Outside

LEMMA TypeInit == Init => TypeInv
  <1> SUFFICES ASSUME Init PROVE TypeInv
    OBVIOUS
  <1>1. proc \in [Proc -> ProcType] /\ \A q \in Proc : proc[q].pc = "idle" /\ proc[q].todo = <<>>
    BY IdleFits DEF Init
  <1>2. server \in [Port -> [owner : Proxy \cup {NoProxy}, open : BOOLEAN]]
    BY DEF Init, NoServer
  <1>3. Free \notin Proc BY ProxyAssumption DEF Proc
  <1>4. LockFits BY <1>1, <1>3 DEF Init, LockFits, Inside
  <1>5. TypeOK BY <1>1, <1>2 DEF Init, TypeOK, ProcType, Status
  <1>6. QED BY <1>4, <1>5 DEF TypeInv

\* Rows, servers, lists and the holder of the mutex keep their types (TypeOK of
\* ProxyManager), for every list a handler, the sweep or the restore works off.
THEOREM TypeCorrect == Spec => []TypeOK
  <1>1. TypeInv => TypeOK
    BY DEF TypeInv
  <1>2. QED
    BY <1>1, TypeInit, TypeStep, PTL DEF Spec
-----------------------------------------------------------------------------
(* Ports.                                                                  *)

LEMMA UpsertPorts ==
    ASSUME TypeOK, PortsUnique, NEW p \in Proxy, NEW st \in Status, Upsert(p, st)
    PROVE  PortsUnique'
  <1>1. \A r \in Proxy \ {p} : row'[r] = row[r] BY UpsertFits
  <1>2. \A r, s \in Proxy \ {p} : row'[r] # "none" /\ row'[s] # "none" /\ PortOf[r] = PortOf[s] => r = s
    BY <1>1 DEF PortsUnique, Rows
  <1>3. ASSUME NEW r \in Proxy \ {p}, row'[r] # "none", row'[p] # "none", PortOf[r] = PortOf[p]
        PROVE  FALSE
    <2>1. row[r] # "none" BY <1>1, <1>3
    <2>2. CASE row[p] # "none" BY <1>3, <2>1, <2>2 DEF PortsUnique, Rows
    <2>3. CASE row[p] = "none"
      <3>1. PortTaken(p) BY <1>3, <2>1 DEF PortTaken, Rows
      <3>2. QED BY <1>3, <2>3, <3>1, UpsertFits
    <2>4. QED BY <2>2, <2>3
  <1>4. QED BY <1>2, <1>3 DEF PortsUnique, Rows

LEMMA PortsStep ==
    ASSUME TypeInv, PortsUnique, [Next]_vars
    PROVE  PortsUnique'
  <1>0. TypeOK BY DEF TypeInv
  <1>1. CASE UNCHANGED row BY <1>1 DEF PortsUnique, Rows
  <1>2. ASSUME NEW q \in Proc, ProcStep(q) PROVE PortsUnique'
    <2>1. CASE proc[q].pc = "idle"
      BY <1>2, <2>1 DEF ProcStep, NotFound, LockedStart, LockedStop, Drained, SaveRow, MarkExpired,
                        DeleteRow, CreateRow, RestoreRow, Turn
    <2>2. CASE proc[q].pc # "idle"
      <3>1. PICK p \in Proxy : p = Current(q).proxy BY <1>0, <2>2, CurrentFits
      <3>2. CASE SaveRow(q)
        <4>1. proc[q].new \in Status BY <1>0 DEF TypeOK
        <4>2. QED BY <1>0, <3>1, <3>2, <4>1, UpsertPorts DEF SaveRow
      <3>3. CASE MarkExpired(q)
        BY <1>0, <3>1, <3>3, UpsertPorts DEF MarkExpired, Status
      <3>4. CASE DeleteRow(q)
        <4>1. \A r \in Proxy : row'[r] # "none" => row[r] # "none"
          BY <1>0, <3>1, <3>4 DEF DeleteRow, TypeOK
        <4>2. QED BY <4>1 DEF PortsUnique, Rows
      <3>5. CASE CreateRow(q) /\ ~PortTaken(p)
        <4>1. \A r \in Proxy \ {p} : row'[r] = row[r]
          BY <1>0, <3>1, <3>5 DEF CreateRow, TypeOK
        <4>2. \A r \in Proxy : row[r] # "none" => PortOf[r] # PortOf[p]
          BY <3>5 DEF PortTaken, Rows
        <4>3. QED BY <4>1, <4>2 DEF PortsUnique, Rows
      <3>6. CASE CreateRow(q) /\ PortTaken(p)
        BY <1>1, <3>1, <3>6 DEF CreateRow
      <3>7. CASE NotFound(q) \/ LockedStart(q) \/ LockedStop(q) \/ Drained(q) \/ RestoreRow(q)
        BY <1>1, <3>7 DEF NotFound, LockedStart, LockedStop, Enter, Drained, RestoreRow
      <3>8. QED BY <1>2, <3>2, <3>3, <3>4, <3>5, <3>6, <3>7 DEF ProcStep
    <2>3. QED BY <2>1, <2>2
  <1>3. CASE Outside BY <1>1, <1>3, OutsideKeeps
  <1>4. CASE (\E q \in Req : Request(q)) \/ SweepExpiredProxies \/ Boot \/ Serve \/ Shutdown \/ Exit \/ Crash
    BY <1>1, <1>4 DEF Request, SweepExpiredProxies, Boot, Serve, Shutdown, Exit, Crash, ProcessEnds
  <1>5. CASE UNCHANGED vars BY <1>1, <1>5 DEF vars
  <1>6. QED BY <1>2, <1>3, <1>4, <1>5 DEF Next, Outside

-----------------------------------------------------------------------------
(* Listeners.                                                              *)

\* A step outside the mutex that lets no row say running.
LEMMA ListenersRest ==
    ASSUME TypeInv, ListenersFit, UNCHANGED <<server, lock>>,
           \A q \in Proc : proc[q].pc \in Inside \/ proc'[q].pc \in Inside => proc'[q] = proc[q],
           mode' \in {"up", "halt"} => mode \in {"up", "halt"},
           \A p \in Proxy : row'[p] = "running" => row[p] = "running"
    PROVE  ListenersFit'
  <1>1. lock # Free => lock \in Proc /\ proc[lock].pc \in Inside
    BY DEF TypeInv, TypeOK, LockFits
  <1>2. lock # Free => proc'[lock] = proc[lock] BY <1>1
  <1>3. QED BY <1>1, <1>2 DEF ListenersFit, Ending, Current, Inside

LEMMA InsideIsAlone ==
    ASSUME TypeInv, NEW q \in Proc, lock \in {Free, q}
    PROVE  \A r \in Proc \ {q} : proc[r].pc \notin Inside
  <1>1. \A r \in Proc : r # Free BY ProxyAssumption DEF Proc
  <1>2. QED BY <1>1 DEF TypeInv, LockFits

LEMMA ListenersStart ==
    ASSUME TypeInv, ListenersFit, NEW q \in Proc, LockedStart(q)
    PROVE  ListenersFit'
  <1>0. TypeOK /\ proc[q].pc # "idle" BY DEF TypeInv, LockedStart, Turn
  <1>1. PICK p \in Proxy : p = Current(q).proxy BY <1>0, CurrentFits
  <1>2. PICK n \in Port : n = PortOf[p] BY ProxyAssumption
  <1>3. lock = Free /\ lock' = q /\ UNCHANGED <<row, mode>> BY DEF LockedStart, Enter
  <1>4. q # Free BY ProxyAssumption DEF Proc
  <1>5. PICK st \in {"running", "expired", "error"} :
            /\ Saving(q, st)
            /\ \/ UNCHANGED server /\ (st = "running" => server[n] # NoServer)
               \/ server' = [server EXCEPT ![n] = [owner |-> p, open |-> TRUE]]
    BY <1>1, <1>2 DEF LockedStart
  <1>6. /\ \A r \in Proc \ {q} : proc'[r] = proc[r]
        /\ proc'[q].todo = proc[q].todo /\ proc'[q].pc = "save" /\ proc'[q].new = st
    BY <1>0, <1>5, SavingFits DEF Saving, Inside, Status
  <1>7. \A r \in Proc \ {q} : proc'[r].pc \notin Inside BY <1>3, <1>6, InsideIsAlone
  <1>8. \A m \in Port : server[m] # NoServer => server[m].open BY <1>3 DEF ListenersFit
  <1>9. \A m \in Port : /\ server[m].open => server'[m].open
                        /\ server'[m] # NoServer => server'[m].open
    BY <1>0, <1>2, <1>5, <1>8 DEF TypeOK
  <1>10. st = "running" => server'[n].open BY <1>0, <1>2, <1>5, <1>8 DEF TypeOK
  <1>11. \A r \in Proxy : mode \in {"up", "halt"} /\ row[r] = "running" => server[PortOf[r]].open
    BY <1>3 DEF ListenersFit, Ending
  <1>12. \A r \in Proxy : PortOf[r] \in Port BY ProxyAssumption
  <1>13. Current(q)' = Current(q) BY <1>6 DEF Current
  <1>14. QED BY <1>1, <1>2, <1>3, <1>6, <1>7, <1>9, <1>10, <1>11, <1>12, <1>13 DEF ListenersFit, Inside

LEMMA ListenersStop ==
    ASSUME TypeInv, PortsUnique, ListenersFit, NEW q \in Proc, LockedStop(q)
    PROVE  ListenersFit'
  <1>0. TypeOK /\ proc[q].pc # "idle" BY DEF TypeInv, LockedStop, Turn
  <1>1. PICK p \in Proxy : p = Current(q).proxy BY <1>0, CurrentFits
  <1>2. PICK n \in Port : n = PortOf[p] BY ProxyAssumption
  <1>3. lock = Free /\ lock' = q /\ row[p] # "none" /\ UNCHANGED <<row, mode>>
    BY <1>1 DEF LockedStop, Enter
  <1>4. q # Free BY ProxyAssumption DEF Proc
  <1>5. PICK c : c = [server[n] EXCEPT !.open = FALSE] OBVIOUS
  <1>6. ~c.open
    BY <1>0, <1>2, <1>5, ClosedFits DEF TypeOK
  <1>7. PICK pc \in Inside, st \in {"stopped", "expired"} :
            /\ proc' = [proc EXCEPT ![q] = [@ EXCEPT !.pc = pc, !.new = st]]
            /\ \/ pc = "drain" /\ server' = [server EXCEPT ![n] = c]
               \/ pc = "save" /\ UNCHANGED server
    BY <1>1, <1>2, <1>5 DEF LockedStop, Saving, Inside
  <1>8. /\ \A r \in Proc \ {q} : proc'[r] = proc[r]
        /\ proc'[q].todo = proc[q].todo /\ proc'[q].pc = pc /\ proc'[q].new = st
    BY <1>0, <1>7, SavingFits DEF Status
  <1>9. \A r \in Proc \ {q} : proc'[r].pc \notin Inside BY <1>3, <1>8, InsideIsAlone
  <1>10. Current(q)' = Current(q) BY <1>8 DEF Current
  <1>11. \A m \in Port : server[m] # NoServer => server[m].open BY <1>3 DEF ListenersFit
  <1>12. \A m \in Port \ {n} : server'[m] = server[m] BY <1>0, <1>2, <1>7 DEF TypeOK
  <1>13. pc = "drain" => ~server'[n].open BY <1>0, <1>2, <1>6, <1>7 DEF TypeOK
  <1>14. pc # "drain" => server' = server BY <1>7 DEF Inside
  <1>15. \A m \in Port : server'[m] # NoServer => server'[m].open \/ (proc'[q].pc = "drain" /\ n = m)
    BY <1>8, <1>11, <1>12, <1>14
  <1>16. \A r \in Proxy : mode \in {"up", "halt"} /\ row[r] = "running" =>
             server'[PortOf[r]].open \/ r = p
    <2>1. \A r \in Proxy : row[r] = "running" /\ PortOf[r] = n => r = p
      BY <1>2, <1>3 DEF PortsUnique, Rows
    <2>2. \A r \in Proxy : mode \in {"up", "halt"} /\ row[r] = "running" => server[PortOf[r]].open
      BY <1>3 DEF ListenersFit, Ending
    <2>3. QED BY <1>12, <2>1, <2>2, ProxyAssumption
  <1>17. QED BY <1>1, <1>2, <1>3, <1>4, <1>8, <1>9, <1>10, <1>13, <1>15, <1>16 DEF ListenersFit, Ending, Inside

LEMMA ListenersDrained ==
    ASSUME TypeInv, ListenersFit, NEW q \in Proc, Drained(q)
    PROVE  ListenersFit'
  <1>0. TypeOK /\ proc[q].pc = "drain" BY DEF TypeInv, Drained
  <1>1. PICK p \in Proxy : p = Current(q).proxy BY <1>0, CurrentFits
  <1>2. PICK n \in Port : n = PortOf[p] BY ProxyAssumption
  <1>3. lock = q BY <1>0 DEF TypeInv, LockFits, Inside
  <1>4. server' = [server EXCEPT ![n] = NoServer] /\ Saving(q, proc[q].new) /\ UNCHANGED <<row, lock, mode>>
    BY <1>1, <1>2 DEF Drained
  <1>5. proc[q].new \in Status BY <1>0 DEF TypeOK
  <1>6. /\ \A r \in Proc \ {q} : proc'[r] = proc[r]
        /\ proc'[q].todo = proc[q].todo /\ proc'[q].pc = "save" /\ proc'[q].new = proc[q].new
    BY <1>0, <1>4, <1>5, SavingFits DEF Saving, Inside
  <1>7. \A r \in Proc \ {q} : proc'[r].pc \notin Inside BY <1>3, <1>6, InsideIsAlone
  <1>8. Current(q)' = Current(q) BY <1>6 DEF Current
  <1>9. q # Free BY ProxyAssumption DEF Proc
  <1>10. proc[q].new # "running" /\ ~server[n].open BY <1>0, <1>1, <1>2 DEF ListenersFit, Inside
  <1>11. \A m \in Port \ {n} : server'[m] = server[m] BY <1>0, <1>2, <1>4 DEF TypeOK
  <1>12. server'[n] = NoServer BY <1>0, <1>2, <1>4 DEF TypeOK
  <1>13. \A m \in Port : server'[m] # NoServer => server'[m].open
    BY <1>1, <1>2, <1>3, <1>11, <1>12 DEF ListenersFit
  <1>14. \A r \in Proxy : mode \in {"up", "halt"} /\ row[r] = "running" =>
             server'[PortOf[r]].open \/ r = p
    <2>1. \A r \in Proxy : mode \in {"up", "halt"} /\ row[r] = "running" =>
              server[PortOf[r]].open \/ r = p
      BY <1>1, <1>3 DEF ListenersFit, Ending
    <2>2. QED BY <1>10, <1>11, <2>1, ProxyAssumption
  <1>15. QED BY <1>1, <1>3, <1>4, <1>6, <1>7, <1>8, <1>9, <1>10, <1>13, <1>14 DEF ListenersFit, Ending, Inside

LEMMA ListenersSave ==
    ASSUME TypeInv, ListenersFit, NEW q \in Proc, SaveRow(q)
    PROVE  ListenersFit'
  <1>0. TypeOK /\ proc[q].pc = "save" BY DEF TypeInv, SaveRow
  <1>1. PICK p \in Proxy : p = Current(q).proxy BY <1>0, CurrentFits
  <1>2. lock = q /\ lock' = Free BY <1>0 DEF TypeInv, LockFits, Inside, SaveRow
  <1>3. Upsert(p, proc[q].new) /\ Advance(q) /\ UNCHANGED <<server, mode>> BY <1>1 DEF SaveRow
  <1>4. proc[q].new \in Status BY <1>0 DEF TypeOK
  <1>5. MovesOn(q) BY <1>0, <1>3, AdvanceFits
  <1>6. \A r \in Proc : proc'[r].pc \notin Inside
    BY <1>2, <1>5, InsideIsAlone DEF MovesOn, Inside
  <1>7. \A m \in Port : server[m] # NoServer => server[m].open
    BY <1>0, <1>2 DEF ListenersFit
  <1>8. proc[q].new = "running" => server[PortOf[p]].open
    BY <1>0, <1>1 DEF ListenersFit, Inside
  <1>9. \A r \in Proxy : mode \in {"up", "halt"} /\ row'[r] = "running" => server[PortOf[r]].open
    <2>1. ASSUME NEW r \in Proxy \ {p}, mode \in {"up", "halt"}, row'[r] = "running"
          PROVE  server[PortOf[r]].open
      <3>1. row[r] = "running" BY <1>0, <1>3, <1>4, <2>1, UpsertFits
      <3>2. ~Ending(r) BY <1>1, <1>2, <2>1 DEF Ending
      <3>3. QED BY <2>1, <3>1, <3>2 DEF ListenersFit
    <2>2. ASSUME row'[p] = "running" PROVE proc[q].new = "running"
      BY <1>0, <1>3, <1>4, <2>2, UpsertFits
    <2>3. QED BY <1>8, <2>1, <2>2
  <1>10. QED BY <1>2, <1>3, <1>6, <1>7, <1>9 DEF ListenersFit, Inside

\* A step of q with the mutex not in its hand.
LEMMA OutsideMoves ==
    ASSUME TypeInv, NEW q \in Proc,
           NotFound(q) \/ MarkExpired(q) \/ DeleteRow(q) \/ CreateRow(q) \/ RestoreRow(q)
    PROVE  /\ proc[q].pc = "ready" /\ proc'[q].pc \notin Inside
           /\ \A r \in Proc \ {q} : proc'[r] = proc[r]
           /\ UNCHANGED <<due, server, lock, mode, raced>>
  <1>0. TypeOK BY DEF TypeInv
  <1>1. proc[q].pc = "ready"
    BY DEF NotFound, MarkExpired, DeleteRow, CreateRow, RestoreRow, Turn
  <1>2. UNCHANGED <<due, server, lock, mode, raced>>
    BY DEF NotFound, MarkExpired, DeleteRow, CreateRow, RestoreRow
  <1>3. \A r \in Proc \ {q} : proc'[r] = proc[r]
    BY <1>0 DEF NotFound, MarkExpired, DeleteRow, CreateRow, RestoreRow, Advance, TypeOK
  <1>4. proc'[q].pc \notin Inside
    <2>1. TypeInv' BY CallType, PlainType
    <2>2. lock' # q BY <1>1, <1>2 DEF TypeInv, LockFits, Inside
    <2>3. QED BY <2>1, <2>2 DEF TypeInv, LockFits
  <1>5. QED BY <1>1, <1>2, <1>3, <1>4

LEMMA ListenersStep ==
    ASSUME TypeInv, PortsUnique, ListenersFit, BootFits, [Next]_vars
    PROVE  ListenersFit'
  <1>0. TypeOK BY DEF TypeInv
  <1>1. ASSUME NEW q \in Proc, ProcStep(q) PROVE ListenersFit'
    <2>1. CASE LockedStart(q) \/ LockedStop(q) \/ Drained(q) \/ SaveRow(q)
      BY <2>1, ListenersStart, ListenersStop, ListenersDrained, ListenersSave
    <2>2. CASE NotFound(q) \/ MarkExpired(q) \/ DeleteRow(q) \/ CreateRow(q) \/ RestoreRow(q)
      <3>1. /\ proc[q].pc = "ready" /\ proc'[q].pc \notin Inside
            /\ \A r \in Proc \ {q} : proc'[r] = proc[r]
            /\ UNCHANGED <<server, lock, mode>>
        BY <2>2, OutsideMoves
      <3>2. PICK p \in Proxy : p = Current(q).proxy BY <1>0, <3>1, CurrentFits
      <3>4. \A r \in Proxy : row'[r] = "running" => row[r] = "running"
        <4>1. CASE MarkExpired(q)
          BY <1>0, <3>2, <4>1, UpsertFits DEF MarkExpired, Status
        <4>2. CASE ~MarkExpired(q)
          BY <1>0, <2>2, <3>2, <4>2 DEF NotFound, DeleteRow, CreateRow, RestoreRow, TypeOK
        <4>3. QED BY <4>1, <4>2
      <3>5. QED BY <3>1, <3>4, ListenersRest DEF Inside
    <2>3. QED BY <1>1, <2>1, <2>2 DEF ProcStep
  <1>2. ASSUME NEW q \in Proc, NEW todo \in Seq(Step), Begin(q, todo),
               UNCHANGED <<row, server, lock>>, mode' \in {"up", "halt"} => mode \in {"up", "halt"}
        PROVE  ListenersFit'
    <2>1. MovesOn(q) /\ proc[q].pc = "idle" BY <1>0, <1>2, BeginFits
    <2>2. QED BY <1>2, <2>1, ListenersRest DEF MovesOn, Inside
  <1>3. ASSUME NEW q \in Req, Request(q) PROVE ListenersFit'
    <2>1. PICK todo \in Seq(Step) : Begin(q, todo) BY <1>0, <1>3, RequestFits
    <2>2. QED BY <1>2, <1>3, <2>1 DEF Request, Proc
  <1>4. CASE SweepExpiredProxies
    <2>1. PICK todo \in Seq(Step) : Begin(Sweeper, todo) BY <1>0, <1>4, SweepFits
    <2>2. QED BY <1>2, <1>4, <2>1 DEF SweepExpiredProxies, Proc
  <1>5. CASE Boot
    <2>1. PICK todo \in Seq(Step) : Begin(Main, todo) BY <1>0, <1>5, BootFinds
    <2>2. QED BY <1>2, <1>5, <2>1 DEF Boot, Proc
  <1>6. CASE Serve
    <2>1. mode = "boot" /\ proc[Main].pc = "idle" /\ UNCHANGED <<row, server, lock, proc>>
      BY <1>6 DEF Serve
    <2>2. proc[Main].todo = <<>> BY <2>1 DEF TypeInv, LockFits, Proc
    <2>3. DOMAIN proc[Main].todo = {} BY <2>2, EmptySeq, LenProperties
    <2>4. \A p \in Proxy : row[p] = "running" => server[PortOf[p]].open
      <3>1. \A p \in Proxy : row[p] = "running" => p \in Listening \/ Pending(p)
        BY <2>1 DEF BootFits
      <3>2. \A p \in Proxy : ~Pending(p) BY <2>3 DEF Pending
      <3>3. \A p \in Listening : server[PortOf[p]].open BY DEF Listening
      <3>4. QED BY <3>1, <3>2, <3>3
    <2>5. QED BY <2>1, <2>4 DEF ListenersFit, Ending, Current
  <1>7. CASE Shutdown
    <2>1. PICK todo \in Seq(Step) : Begin(Main, todo) BY <1>0, <1>7, ShutdownFits
    <2>2. QED BY <1>2, <1>7, <2>1 DEF Shutdown, Proc
  <1>8. CASE Exit \/ Crash
    <2>1. ProcessEnds BY <1>8 DEF Exit, Crash
    <2>2. \A q \in Proc : proc'[q].pc = "idle" BY <2>1, IdleFits DEF ProcessEnds
    <2>3. \A n \in Port : server'[n] = NoServer BY <2>1 DEF ProcessEnds
    <2>4. mode' = "down" BY <2>1 DEF ProcessEnds
    <2>5. QED BY <2>2, <2>3, <2>4 DEF ListenersFit, Inside
  <1>9. CASE Outside
    BY <1>9, OutsideKeeps, ListenersRest
  <1>10. CASE UNCHANGED vars
    BY <1>10, ListenersRest DEF vars
  <1>11. QED BY <1>1, <1>3, <1>4, <1>5, <1>6, <1>7, <1>8, <1>9, <1>10 DEF Next, Outside
-----------------------------------------------------------------------------
(* The restore.                                                            *)

\* What main has left once it is done with p.
LEMMA PendingLater ==
    ASSUME TypeOK, proc[Main].pc # "idle", Advance(Main)
    PROVE  /\ \A r \in Proxy : Pending(r) =>
                  \/ Pending(r)'
                  \/ Current(Main).proxy = r /\ (Current(Main).op = "restore" => Current(Main).seen = "running")
           /\ \A i \in DOMAIN proc'[Main].todo : \E j \in DOMAIN proc[Main].todo :
                  proc'[Main].todo[i] = proc[Main].todo[j]
  <1>1. Main \in Proc BY DEF Proc
  <1>2. proc'[Main].todo = Tail(proc[Main].todo) BY <1>1, AdvanceFits
  <1>3. PICK t : t = proc[Main].todo OBVIOUS
  <1>4. PICK n \in Nat \ {0} : /\ DOMAIN t = 1..n /\ DOMAIN Tail(t) = 1..(n - 1)
                               /\ \A i \in 1..(n - 1) : Tail(t)[i] = t[i + 1]
    BY <1>1, <1>3, CurrentFits
  <1>5. Current(Main) = t[1] BY <1>1, <1>3, CurrentFits
  <1>6. ASSUME NEW r \in Proxy, NEW i \in 1..n, t[i].proxy = r, t[i].op = "restore" => t[i].seen = "running"
        PROVE  \/ Pending(r)'
               \/ Current(Main).proxy = r /\ (Current(Main).op = "restore" => Current(Main).seen = "running")
    <2>1. CASE i = 1 BY <1>5, <1>6, <2>1
    <2>2. CASE i # 1
      <3>1. i - 1 \in 1..(n - 1) /\ Tail(t)[i - 1] = t[i] BY <1>4, <2>2
      <3>2. QED BY <1>2, <1>3, <1>4, <1>6, <3>1 DEF Pending
    <2>3. QED BY <2>1, <2>2
  <1>7. \A i \in 1..(n - 1) : i + 1 \in 1..n BY <1>4
  <1>8. QED BY <1>2, <1>3, <1>4, <1>6, <1>7 DEF Pending

\* The head of the list is replaced by another step for the same proxy.
LEMMA ReplacedFits ==
    ASSUME TypeOK, NEW q \in Proc, proc[q].pc # "idle", NEW op \in {"start", "mark"},
           proc' = [proc EXCEPT ![q] = Run(<<Do(op, Current(q).proxy)>> \o Tail(proc[q].todo))]
    PROVE  /\ MovesOn(q)
           /\ DOMAIN proc'[q].todo = DOMAIN proc[q].todo
           /\ proc'[q].todo[1].op = op /\ proc'[q].todo[1].proxy = Current(q).proxy
           /\ \A i \in DOMAIN proc[q].todo : i # 1 => proc'[q].todo[i] = proc[q].todo[i]
  <1>1. PICK t : t = proc[q].todo OBVIOUS
  <1>2. PICK h : h = Do(op, Current(q).proxy) OBVIOUS
  <1>3. h \in Step /\ h.op = op /\ h.proxy = Current(q).proxy
    BY <1>2, CurrentFits, StepFits
  <1>4. PICK n \in Nat \ {0} : /\ DOMAIN t = 1..n /\ DOMAIN Tail(t) = 1..(n - 1)
                               /\ \A i \in 1..(n - 1) : Tail(t)[i] = t[i + 1]
    BY <1>1, CurrentFits
  <1>5. Tail(t) \in Seq(Step) /\ Len(Tail(t)) = n - 1
    BY <1>1, <1>4, CurrentFits
  <1>6. <<h>> \in Seq(Step) /\ Len(<<h>>) = 1 /\ <<h>>[1] = h BY <1>3
  <1>7. PICK u : u = <<h>> \o Tail(t) OBVIOUS
  <1>8. /\ u \in Seq(Step) /\ Len(u) = n
        /\ \A i \in 1..n : u[i] = IF i <= 1 THEN <<h>>[i] ELSE Tail(t)[i - 1]
    BY <1>4, <1>5, <1>6, <1>7, ConcatProperties
  <1>9. DOMAIN u = 1..n BY <1>8, LenProperties
  <1>10. u[1] = h /\ \A i \in 2..n : u[i] = t[i]
    BY <1>4, <1>6, <1>8
  <1>11. proc'[q] = Run(u) /\ proc' = [proc EXCEPT ![q] = Run(u)]
    BY <1>1, <1>2, <1>7 DEF TypeOK
  <1>12. proc'[q].todo = u /\ MovesOn(q)
    BY <1>8, <1>11, RunFits DEF MovesOn, TypeOK, ProcType
  <1>13. \A i \in 1..n : i # 1 => i \in 2..n OBVIOUS
  <1>14. QED BY <1>1, <1>3, <1>4, <1>9, <1>10, <1>12, <1>13

LEMMA PendingReplaced ==
    ASSUME TypeOK, proc[Main].pc # "idle", NEW op \in {"start", "mark"},
           proc' = [proc EXCEPT ![Main] = Run(<<Do(op, Current(Main).proxy)>> \o Tail(proc[Main].todo))]
    PROVE  /\ \A r \in Proxy : Pending(r) => Pending(r)'
           /\ \A i \in DOMAIN proc'[Main].todo :
                  \/ proc'[Main].todo[i].op = op
                  \/ \E j \in DOMAIN proc[Main].todo : proc'[Main].todo[i] = proc[Main].todo[j]
           /\ MovesOn(Main)
  <1>1. Main \in Proc BY DEF Proc
  <1>2. PICK t : t = proc[Main].todo OBVIOUS
  <1>3. PICK u : u = proc'[Main].todo OBVIOUS
  <1>4. Current(Main) = t[1] BY <1>1, <1>2, CurrentFits
  <1>5. /\ MovesOn(Main) /\ DOMAIN u = DOMAIN t /\ u[1].op = op /\ u[1].proxy = t[1].proxy
        /\ \A i \in DOMAIN t : i # 1 => u[i] = t[i]
    BY <1>1, <1>2, <1>3, <1>4, ReplacedFits
  <1>6. ASSUME NEW r \in Proxy, NEW i \in DOMAIN t, t[i].proxy = r, t[i].op = "restore" => t[i].seen = "running"
        PROVE  Pending(r)'
    <2>1. i \in DOMAIN u /\ u[i].proxy = r /\ (u[i].op = "restore" => u[i].seen = "running")
      BY <1>5, <1>6
    <2>2. QED BY <1>3, <2>1 DEF Pending
  <1>7. \A r \in Proxy : Pending(r) => Pending(r)' BY <1>2, <1>6 DEF Pending
  <1>8. \A i \in DOMAIN u : u[i].op = op \/ \E j \in DOMAIN t : u[i] = t[j] BY <1>5
  <1>9. QED BY <1>2, <1>3, <1>5, <1>7, <1>8

\* A step of main outside the mutex that loses no row still to be restored.
LEMMA BootRest ==
    ASSUME TypeInv, BootFits, mode = "boot", MovesOn(Main), UNCHANGED <<server, mode>>,
           \A i \in DOMAIN proc'[Main].todo :
               \/ proc'[Main].todo[i].op \in {"start", "mark"}
               \/ \E j \in DOMAIN proc[Main].todo : proc'[Main].todo[i] = proc[Main].todo[j],
           \A p \in Rows : row'[p] # "none",
           \A p \in Proxy : row'[p] = "running" => p \in Listening \/ Pending(p)'
    PROVE  BootFits'
  <1>1. Main \in Proc BY DEF Proc
  <1>2. Listening' = Listening BY DEF Listening
  <1>3. Rows \subseteq Rows' BY DEF Rows
  <1>4. \A q \in Proc \ {Main} : proc'[q].pc = "idle" BY DEF BootFits, MovesOn
  <1>5. proc'[Main].pc \notin Inside BY DEF MovesOn, Inside
  <1>6. \A i \in DOMAIN proc'[Main].todo : proc'[Main].todo[i].op \in {"restore", "start", "mark"}
    BY DEF BootFits
  <1>7. \A n \in Port : server'[n] # NoServer =>
            \E p \in Rows' : PortOf[p] = n /\ server'[n] = [owner |-> p, open |-> TRUE]
    BY <1>3 DEF BootFits
  <1>8. QED BY <1>2, <1>4, <1>5, <1>6, <1>7 DEF BootFits, Inside

LEMMA BootStart ==
    ASSUME TypeInv, PortsUnique, BootFits, mode = "boot", LockedStart(Main)
    PROVE  BootFits'
  <1>0. TypeOK /\ Main \in Proc /\ proc[Main].pc # "idle" BY DEF TypeInv, LockedStart, Turn, Proc
  <1>1. PICK p \in Proxy : p = Current(Main).proxy BY <1>0, CurrentFits
  <1>2. PICK n \in Port : n = PortOf[p] BY ProxyAssumption
  <1>3. UNCHANGED <<row, mode>> /\ row[p] # "none" BY <1>1 DEF LockedStart, Enter
  <1>4. PICK st \in {"running", "expired", "error"} :
            /\ Saving(Main, st)
            /\ \/ UNCHANGED server /\ (st = "running" => server[n] # NoServer)
               \/ server[n] = NoServer /\ server' = [server EXCEPT ![n] = [owner |-> p, open |-> TRUE]]
    BY <1>1, <1>2 DEF LockedStart
  <1>5. /\ \A r \in Proc \ {Main} : proc'[r] = proc[r]
        /\ proc'[Main].todo = proc[Main].todo /\ proc'[Main].pc = "save" /\ proc'[Main].new = st
    BY <1>0, <1>4, SavingFits DEF Saving, Inside, Status
  <1>6. Current(Main)' = Current(Main) /\ (\A r \in Proxy : Pending(r)' <=> Pending(r))
    BY <1>5 DEF Current, Pending
  <1>7. \A m \in Port : \/ server'[m] = server[m]
                        \/ m = n /\ server[m] = NoServer /\ server'[m] = [owner |-> p, open |-> TRUE]
    BY <1>0, <1>2, <1>4 DEF TypeOK
  <1>8. \A m \in Port : server'[m] # NoServer =>
            \E r \in Rows : PortOf[r] = m /\ server'[m] = [owner |-> r, open |-> TRUE]
    <2> SUFFICES ASSUME NEW m \in Port, server'[m] # NoServer
                 PROVE  \E r \in Rows : PortOf[r] = m /\ server'[m] = [owner |-> r, open |-> TRUE]
      OBVIOUS
    <2>1. CASE server'[m] = server[m]
      <3>1. \E r \in Rows : PortOf[r] = m /\ server[m] = [owner |-> r, open |-> TRUE]
        BY <2>1 DEF BootFits
      <3>2. QED BY <2>1, <3>1
    <2>2. CASE m = n /\ server'[m] = [owner |-> p, open |-> TRUE]
      BY <1>2, <1>3, <2>2 DEF Rows
    <2>3. QED BY <1>7, <2>1, <2>2
  <1>9. Rows' = Rows BY <1>3 DEF Rows
  <1>10. st = "running" => p \in Listening'
    <2>1. CASE server[n] # NoServer
      <3>1. PICK r \in Rows : PortOf[r] = n /\ server[n] = [owner |-> r, open |-> TRUE]
        BY <2>1 DEF BootFits
      <3>2. r = p BY <1>2, <1>3, <3>1 DEF PortsUnique, Rows
      <3>3. server' = server BY <1>4, <2>1
      <3>4. QED BY <1>2, <3>1, <3>2, <3>3 DEF Listening
    <2>2. CASE server[n] = NoServer /\ st = "running"
      <3>1. server'[n] = [owner |-> p, open |-> TRUE] BY <1>0, <1>2, <1>4, <2>2 DEF TypeOK
      <3>2. QED BY <1>2, <3>1 DEF Listening
    <2>3. QED BY <2>1, <2>2
  <1>11. Listening \subseteq Listening'
    <2>1. ASSUME NEW r \in Listening PROVE server'[PortOf[r]] = server[PortOf[r]]
      <3>1. r \in Proxy /\ server[PortOf[r]] = [owner |-> r, open |-> TRUE] BY DEF Listening
      <3>2. server[PortOf[r]].owner # NoProxy BY <3>1, ProxyAssumption
      <3>3. server[PortOf[r]] # NoServer BY <3>2 DEF NoServer
      <3>4. QED BY <1>7, <3>1, <3>3, ProxyAssumption
    <2>2. QED BY <2>1 DEF Listening
  <1>12. \A r \in Proxy : row'[r] = "running" => r \in Listening' \/ Pending(r)'
    BY <1>3, <1>6, <1>11 DEF BootFits
  <1>13. QED BY <1>1, <1>3, <1>5, <1>6, <1>8, <1>9, <1>10, <1>12 DEF BootFits

LEMMA BootStep ==
    ASSUME TypeInv, PortsUnique, BootFits, [Next]_vars
    PROVE  BootFits'
  <1>0. TypeOK /\ Main \in Proc BY DEF TypeInv, Proc
  <1>1. ASSUME NEW q \in Proc, ProcStep(q), mode = "boot" PROVE BootFits'
    <2>1. proc[q].pc # "idle"
      BY <1>1 DEF ProcStep, NotFound, LockedStart, LockedStop, Drained, SaveRow, MarkExpired,
                  DeleteRow, CreateRow, RestoreRow, Turn
    <2>2. q = Main BY <1>1, <2>1 DEF BootFits
    <2>3. PICK p \in Proxy : p = Current(Main).proxy BY <1>0, <2>1, <2>2, CurrentFits
    <2>4. Current(Main).op \in {"restore", "start", "mark"} /\ proc[Main].pc # "drain"
      BY <1>0, <1>1, <2>1, <2>2, CurrentFits DEF BootFits
    <2>5. Advance(Main) =>
             /\ MovesOn(Main)
             /\ \A i \in DOMAIN proc'[Main].todo : \E j \in DOMAIN proc[Main].todo :
                    proc'[Main].todo[i] = proc[Main].todo[j]
             /\ \A r \in Proxy : Pending(r) => Pending(r)' \/
                    (p = r /\ (Current(Main).op = "restore" => Current(Main).seen = "running"))
      BY <1>0, <2>1, <2>2, <2>3, AdvanceFits, PendingLater
    <2>6. \A r \in Proxy : row[r] = "running" => r \in Listening \/ Pending(r)
      BY <1>1 DEF BootFits
    <2>7. CASE NotFound(q)
      <3>1. Advance(Main) /\ UNCHANGED <<row, server, mode>> /\ row[p] = "none"
        BY <2>2, <2>3, <2>7 DEF NotFound
      <3>2. QED BY <1>1, <2>5, <2>6, <3>1, BootRest DEF Rows
    <2>8. CASE LockedStart(q) BY <1>1, <2>2, <2>8, BootStart
    <2>9. CASE SaveRow(q)
      <3>1. Upsert(p, proc[Main].new) /\ Advance(Main) /\ proc[Main].pc = "save" /\ UNCHANGED <<server, mode>>
        BY <2>2, <2>3, <2>9 DEF SaveRow
      <3>2. proc[Main].new \in Status BY <1>0 DEF TypeOK
      <3>3. /\ proc[Main].new # "none"
            /\ proc[Main].new = "running" => p \in Listening
        BY <1>1, <2>3, <3>1 DEF BootFits
      <3>4. /\ \A r \in Proxy \ {p} : row'[r] = row[r]
            /\ row'[p] \in {row[p], proc[Main].new}
            /\ row[p] # "none" => row'[p] = proc[Main].new
        BY <1>0, <3>1, <3>2, UpsertFits
      <3>5. \A r \in Rows : row'[r] # "none" BY <3>3, <3>4 DEF Rows
      <3>6. \A r \in Proxy : row'[r] = "running" => r \in Listening \/ Pending(r)'
        BY <2>5, <2>6, <3>1, <3>3, <3>4
      <3>7. QED BY <1>1, <2>5, <3>1, <3>5, <3>6, BootRest
    <2>10. CASE MarkExpired(q)
      <3>1. Upsert(p, "expired") /\ Advance(Main) /\ UNCHANGED <<server, mode>>
        BY <2>2, <2>3, <2>10 DEF MarkExpired
      <3>2. /\ \A r \in Proxy \ {p} : row'[r] = row[r]
            /\ row'[p] \in {row[p], "expired"}
            /\ row[p] # "none" => row'[p] = "expired"
        BY <1>0, <3>1, UpsertFits DEF Status
      <3>3. \A r \in Rows : row'[r] # "none" BY <3>2 DEF Rows
      <3>4. \A r \in Proxy : row'[r] = "running" => r # p /\ row[r] = "running" BY <3>2
      <3>5. \A r \in Proxy : row'[r] = "running" => r \in Listening \/ Pending(r)'
        BY <2>5, <2>6, <3>1, <3>4
      <3>6. QED BY <1>1, <2>5, <3>1, <3>3, <3>5, BootRest
    <2>11. CASE RestoreRow(q)
      <3>1. UNCHANGED <<row, server, mode>> /\ Current(Main).op = "restore"
        BY <2>2, <2>11 DEF RestoreRow, Turn
      <3>2. CASE Advance(Main) /\ Current(Main).seen # "running"
        BY <1>1, <2>5, <2>6, <3>1, <3>2, BootRest DEF Rows
      <3>3. ASSUME NEW op \in {"start", "mark"},
                   proc' = [proc EXCEPT ![Main] = Run(<<Do(op, Current(Main).proxy)>> \o Tail(proc[Main].todo))]
            PROVE  BootFits'
        <4>1. /\ \A r \in Proxy : Pending(r) => Pending(r)'
              /\ \A i \in DOMAIN proc'[Main].todo :
                    \/ proc'[Main].todo[i].op = op
                    \/ \E j \in DOMAIN proc[Main].todo : proc'[Main].todo[i] = proc[Main].todo[j]
              /\ MovesOn(Main)
          BY <1>0, <2>1, <2>2, <3>3, PendingReplaced
        <4>2. QED BY <1>1, <2>6, <3>1, <4>1, BootRest DEF Rows
      <3>4. QED BY <2>2, <2>11, <3>2, <3>3 DEF RestoreRow
    <2>12. QED
      BY <1>1, <2>2, <2>4, <2>7, <2>8, <2>9, <2>10, <2>11
         DEF ProcStep, LockedStop, Drained, DeleteRow, CreateRow, Turn
  <1>2. CASE mode' # "boot" BY <1>2 DEF BootFits
  <1>3. CASE Boot
    <2>1. PICK todo \in Seq(Step) :
              /\ Begin(Main, todo)
              /\ \A i \in DOMAIN todo : todo[i].op = "restore"
              /\ \A p \in Rows : \E i \in DOMAIN todo : todo[i].proxy = p /\ todo[i].seen = row[p]
      BY <1>0, <1>3, BootFinds
    <2>2. MovesOn(Main) /\ proc'[Main].todo = todo BY <1>0, <2>1, BeginFits
    <2>3. mode = "down" /\ UNCHANGED <<row, server>> BY <1>3 DEF Boot
    <2>4. \A q \in Proc \ {Main} : proc'[q].pc = "idle"
      BY <2>2, <2>3 DEF MovesOn, TypeInv, LockFits
    <2>5. \A n \in Port : server'[n] = NoServer BY <2>3 DEF TypeInv, LockFits
    <2>6. proc'[Main].pc \notin {"drain", "save"} BY <2>2 DEF MovesOn
    <2>7. \A p \in Proxy : row'[p] = "running" => Pending(p)'
      BY <2>1, <2>2, <2>3 DEF Pending, Rows
    <2>8. QED BY <2>1, <2>2, <2>4, <2>5, <2>6, <2>7 DEF BootFits
  <1>4. CASE mode = "boot" /\ (Outside \/ UNCHANGED vars)
    <2>1. UNCHANGED <<row, server, proc, mode>> BY <1>4, OutsideKeeps DEF vars
    <2>2. Listening' = Listening /\ Rows' = Rows /\ Current(Main)' = Current(Main)
          /\ \A p \in Proxy : Pending(p)' <=> Pending(p)
      BY <2>1 DEF Listening, Rows, Current, Pending
    <2>3. QED BY <1>4, <2>1, <2>2 DEF BootFits
  <1>5. CASE mode # "boot" /\ ~Boot
    <2>1. mode' # "boot"
      BY <1>5, OutsideKeeps DEF Next, Outside, ProcStep, NotFound, LockedStart, LockedStop, Enter, Drained,
             SaveRow, MarkExpired, DeleteRow, CreateRow, RestoreRow, Request, SweepExpiredProxies, Serve,
             Shutdown, Exit, Crash, ProcessEnds, vars
    <2>2. QED BY <1>2, <2>1
  <1>6. CASE mode = "boot" /\ ((\E q \in Req : Request(q)) \/ SweepExpiredProxies \/ Serve \/ Shutdown \/ Exit \/ Crash)
    BY <1>2, <1>6 DEF Request, SweepExpiredProxies, Serve, Shutdown, Exit, Crash, ProcessEnds
  <1>7. QED BY <1>1, <1>3, <1>4, <1>5, <1>6 DEF Next, Outside
-----------------------------------------------------------------------------
(* Strays.                                                                 *)

\* The mutex, the lists and the process as they are.
LEMMA CallsRest ==
    ASSUME CallsFit, UNCHANGED server,
           \A q \in Proc : proc'[q].pc \in Inside => proc'[q] = proc[q]
    PROVE  CallsFit'
  BY DEF CallsFit, Current

LEMMA CallsStep ==
    ASSUME TypeInv, CallsFit, [Next]_vars
    PROVE  CallsFit'
  <1>0. TypeOK BY DEF TypeInv
  <1>1. ASSUME NEW q \in Proc, LockedStart(q) PROVE CallsFit'
    <2>1. proc[q].pc # "idle" /\ lock = Free /\ Current(q).op = "start"
      BY <1>1 DEF LockedStart, Turn, Enter
    <2>2. PICK p \in Proxy : p = Current(q).proxy BY <1>0, <2>1, CurrentFits
    <2>3. PICK st \in {"running", "expired", "error"} :
              Saving(q, st) /\ (st # "running" => server' = server /\ server[PortOf[p]] = NoServer)
      BY <1>1, <2>2 DEF LockedStart
    <2>4. /\ \A r \in Proc \ {q} : proc'[r] = proc[r]
          /\ proc'[q].todo = proc[q].todo /\ proc'[q].new = st
      BY <1>0, <2>3, SavingFits DEF Saving, Inside, Status
    <2>5. \A r \in Proc \ {q} : proc'[r].pc \notin Inside BY <2>1, <2>4, InsideIsAlone
    <2>6. Current(q)' = Current(q) BY <2>4 DEF Current
    <2>7. st # "running" => ~server'[PortOf[p]].open BY <2>3 DEF NoServer
    <2>8. QED BY <2>1, <2>2, <2>4, <2>5, <2>6, <2>7 DEF CallsFit
  <1>2. ASSUME NEW q \in Proc, LockedStop(q) PROVE CallsFit'
    <2>1. proc[q].pc # "idle" /\ lock = Free /\ Current(q).op \in {"stop", "expire"}
      BY <1>2 DEF LockedStop, Turn, Enter
    <2>2. PICK p \in Proxy : p = Current(q).proxy BY <1>0, <2>1, CurrentFits
    <2>3. PICK n \in Port : n = PortOf[p] BY ProxyAssumption
    <2>4. PICK c : c = [server[n] EXCEPT !.open = FALSE] OBVIOUS
    <2>5. ~c.open BY <1>0, <2>3, <2>4, ClosedFits DEF TypeOK
    <2>6. PICK pc \in Inside, st \in {"stopped", "expired"} :
              /\ proc' = [proc EXCEPT ![q] = [@ EXCEPT !.pc = pc, !.new = st]]
              /\ server' = [server EXCEPT ![n] = c] \/ (server[n] = NoServer /\ server' = server)
      BY <1>2, <2>2, <2>3, <2>4 DEF LockedStop, Saving, Inside
    <2>7. /\ \A r \in Proc \ {q} : proc'[r] = proc[r]
          /\ proc'[q].todo = proc[q].todo /\ proc'[q].new = st
      BY <1>0, <2>6, SavingFits DEF Status
    <2>8. \A r \in Proc \ {q} : proc'[r].pc \notin Inside BY <2>1, <2>7, InsideIsAlone
    <2>9. Current(q)' = Current(q) BY <2>7 DEF Current
    <2>10. ~server'[n].open BY <1>0, <2>3, <2>5, <2>6 DEF TypeOK, NoServer
    <2>11. QED BY <2>1, <2>2, <2>3, <2>7, <2>8, <2>9, <2>10 DEF CallsFit
  <1>3. ASSUME NEW q \in Proc, Drained(q) PROVE CallsFit'
    <2>1. proc[q].pc = "drain" /\ lock = q BY <1>3 DEF Drained, TypeInv, LockFits, Inside
    <2>2. PICK p \in Proxy : p = Current(q).proxy BY <1>0, <2>1, CurrentFits
    <2>3. PICK n \in Port : n = PortOf[p] BY ProxyAssumption
    <2>4. server' = [server EXCEPT ![n] = NoServer] /\ Saving(q, proc[q].new)
      BY <1>3, <2>2, <2>3 DEF Drained
    <2>5. proc[q].new \in Status BY <1>0 DEF TypeOK
    <2>6. /\ \A r \in Proc \ {q} : proc'[r] = proc[r]
          /\ proc'[q].todo = proc[q].todo /\ proc'[q].new = proc[q].new
      BY <1>0, <2>4, <2>5, SavingFits DEF Saving, Inside
    <2>7. \A r \in Proc \ {q} : proc'[r].pc \notin Inside BY <2>1, <2>6, InsideIsAlone
    <2>8. Current(q)' = Current(q) BY <2>6 DEF Current
    <2>9. ~server'[n].open BY <1>0, <2>3, <2>4 DEF TypeOK, NoServer
    <2>10. Current(q).op \in {"start", "stop", "expire"} /\ (proc[q].new = "running" => Current(q).op = "start")
      BY <2>1 DEF CallsFit, Inside
    <2>11. QED BY <2>2, <2>3, <2>6, <2>7, <2>8, <2>9, <2>10 DEF CallsFit
  <1>4. ASSUME NEW q \in Proc, SaveRow(q) PROVE CallsFit'
    <2>1. proc[q].pc = "save" /\ Advance(q) BY <1>4 DEF SaveRow
    <2>2. lock = q BY <2>1 DEF TypeInv, LockFits, Inside
    <2>3. MovesOn(q) BY <1>0, <2>1, AdvanceFits
    <2>4. \A r \in Proc : proc'[r].pc \notin Inside BY <2>2, <2>3, InsideIsAlone DEF MovesOn, Inside
    <2>5. QED BY <2>4 DEF CallsFit
  <1>5. ASSUME NEW q \in Proc, NotFound(q) \/ MarkExpired(q) \/ DeleteRow(q) \/ CreateRow(q) \/ RestoreRow(q)
        PROVE  CallsFit'
    BY <1>5, OutsideMoves, CallsRest
  <1>6. ASSUME NEW q \in Proc, NEW todo \in Seq(Step), Begin(q, todo), UNCHANGED server
        PROVE  CallsFit'
    <2>1. MovesOn(q) BY <1>0, <1>6, BeginFits
    <2>2. QED BY <1>6, <2>1, CallsRest DEF MovesOn, Inside
  <1>7. ASSUME NEW q \in Req, Request(q) PROVE CallsFit'
    <2>1. PICK todo \in Seq(Step) : Begin(q, todo) BY <1>0, <1>7, RequestFits
    <2>2. QED BY <1>6, <1>7, <2>1 DEF Request, Proc
  <1>8. CASE SweepExpiredProxies
    <2>1. PICK todo \in Seq(Step) : Begin(Sweeper, todo) BY <1>0, <1>8, SweepFits
    <2>2. QED BY <1>6, <1>8, <2>1 DEF SweepExpiredProxies, Proc
  <1>9. CASE Boot
    <2>1. PICK todo \in Seq(Step) : Begin(Main, todo) BY <1>0, <1>9, BootFinds
    <2>2. QED BY <1>6, <1>9, <2>1 DEF Boot, Proc
  <1>10. CASE Shutdown
    <2>1. PICK todo \in Seq(Step) : Begin(Main, todo) BY <1>0, <1>10, ShutdownFits
    <2>2. QED BY <1>6, <1>10, <2>1 DEF Shutdown, Proc
  <1>11. CASE Exit \/ Crash
    <2>1. \A q \in Proc : proc'[q].pc = "idle" BY <1>11, IdleFits DEF Exit, Crash, ProcessEnds
    <2>2. QED BY <2>1 DEF CallsFit, Inside
  <1>12. CASE Serve \/ Outside \/ UNCHANGED vars
    <2>1. UNCHANGED <<server, proc>> BY <1>12, OutsideKeeps DEF Serve, vars
    <2>2. QED BY <2>1, CallsRest
  <1>13. QED
    BY <1>1, <1>2, <1>3, <1>4, <1>5, <1>7, <1>8, <1>9, <1>10, <1>11, <1>12 DEF Next, ProcStep, Outside

LEMMA ListsRest ==
    ASSUME ListsFit, due \subseteq due', mode' = mode, \A q \in Proc : proc'[q].todo = proc[q].todo
    PROVE  ListsFit' /\ \A p \in Proxy : Threat(p)' => Threat(p)
  <1>1. Main \in Proc BY DEF Proc
  <1>2. QED BY <1>1 DEF ListsFit, Threat

\* The goroutine q has the list t.
LEMMA ListsMoved ==
    ASSUME ListsFit, NEW q \in Proc, NEW t, proc'[q].todo = t, \A r \in Proc \ {q} : proc'[r] = proc[r],
           due \subseteq due', mode = "boot" => mode' = "boot", mode' = "boot" => mode = "boot" \/ q = Main,
           Orderly(t),
           \A i \in DOMAIN t : /\ t[i].op = "mark" => t[i].proxy \in due
                               /\ t[i].op = "restore" => q = Main /\ mode' = "boot",
           mode' = "boot" /\ q = Main => \A i, j \in DOMAIN t : t[i].proxy = t[j].proxy => i = j
    PROVE  ListsFit'
  <1>1. Main \in Proc BY DEF Proc
  <1>2. \A r \in Proc : Orderly(proc'[r].todo) BY DEF ListsFit
  <1>3. ASSUME NEW r \in Proc, NEW i \in DOMAIN proc'[r].todo
        PROVE  /\ proc'[r].todo[i].op = "mark" => proc'[r].todo[i].proxy \in due'
               /\ proc'[r].todo[i].op = "restore" => r = Main /\ mode' = "boot"
    <2>1. CASE r = q BY <1>3, <2>1
    <2>2. CASE r # q
      <3>1. proc'[r] = proc[r] BY <2>2
      <3>2. QED BY <1>3, <3>1 DEF ListsFit
    <2>3. QED BY <2>1, <2>2
  <1>4. ASSUME mode' = "boot"
        PROVE  \A i, j \in DOMAIN proc'[Main].todo : proc'[Main].todo[i].proxy = proc'[Main].todo[j].proxy => i = j
    <2>1. CASE q = Main BY <1>4, <2>1
    <2>2. CASE q # Main
      <3>1. mode = "boot" /\ proc'[Main] = proc[Main] BY <1>1, <1>4, <2>2
      <3>2. QED BY <3>1 DEF ListsFit
    <2>3. QED BY <2>1, <2>2
  <1>5. QED BY <1>2, <1>3, <1>4 DEF ListsFit, Orderly

\* q goes on to the rest of its list: the deletion of what it has stopped comes up.
LEMMA ListsAdvance ==
    ASSUME TypeOK, ListsFit, NEW q \in Proc, proc[q].pc # "idle", Advance(q), UNCHANGED <<due, mode>>
    PROVE  /\ ListsFit'
           /\ \A p \in Proxy : Threat(p)' => Threat(p) \/ (Current(q).op = "stop" /\ Current(q).proxy = p)
  <1>1. PICK t : t = proc[q].todo OBVIOUS
  <1>2. PICK u : u = Tail(t) OBVIOUS
  <1>3. PICK n \in Nat \ {0} : /\ DOMAIN t = 1..n /\ DOMAIN u = 1..(n - 1)
                               /\ \A i \in 1..(n - 1) : u[i] = t[i + 1]
    BY <1>1, <1>2, CurrentFits
  <1>4. Current(q) = t[1] BY <1>1, CurrentFits
  <1>5. MovesOn(q) /\ proc'[q].todo = u BY <1>1, <1>2, AdvanceFits
  <1>6. \A r \in Proc \ {q} : proc'[r] = proc[r] BY <1>5 DEF MovesOn
  <1>7. \A i \in 1..(n - 1) : i + 1 \in 1..n /\ i + 1 # 1 /\ (i + 1) - 1 = i OBVIOUS
  <1>8. \A i \in 1..(n - 1) : u[i].op = "delete" => t[i].op = "stop" /\ t[i].proxy = u[i].proxy
    <2>1. Orderly(t) BY <1>1 DEF ListsFit
    <2>2. SUFFICES ASSUME NEW i \in 1..(n - 1), u[i].op = "delete"
                   PROVE  t[i].op = "stop" /\ t[i].proxy = u[i].proxy
      OBVIOUS
    <2>3. PICK j : j = i + 1 OBVIOUS
    <2>4. j \in DOMAIN t /\ j # 1 /\ j - 1 = i /\ u[i] = t[j] BY <1>3, <1>7, <2>3
    <2>5. t[j - 1].op = "stop" /\ t[j - 1].proxy = t[j].proxy BY <2>1, <2>2, <2>4 DEF Orderly
    <2>6. QED BY <2>4, <2>5
  <1>9. Orderly(u)
    <2>1. \A i \in 1..(n - 1) : i # 1 => i - 1 \in 1..(n - 1) /\ (i - 1) + 1 = i OBVIOUS
    <2>2. \A i \in 1..(n - 1) : i # 1 => u[i - 1] = t[i] BY <1>3, <2>1
    <2>3. QED BY <1>3, <1>8, <2>2 DEF Orderly
  <1>10. \A i \in DOMAIN u : /\ u[i].op = "mark" => u[i].proxy \in due
                             /\ u[i].op = "restore" => q = Main /\ mode' = "boot"
    BY <1>1, <1>3, <1>7 DEF ListsFit
  <1>11. mode' = "boot" /\ q = Main => \A i, j \in DOMAIN u : u[i].proxy = u[j].proxy => i = j
    <2>1. ASSUME mode = "boot", q = Main, NEW i \in 1..(n - 1), NEW j \in 1..(n - 1), u[i].proxy = u[j].proxy
          PROVE  i = j
      <3>1. t[i + 1].proxy = t[j + 1].proxy BY <1>3, <2>1
      <3>2. i + 1 = j + 1 BY <1>1, <1>3, <1>7, <2>1, <3>1 DEF ListsFit
      <3>3. QED BY <3>2
    <2>2. QED BY <1>3, <2>1
  <1>12. ListsFit' BY <1>5, <1>6, <1>9, <1>10, <1>11, ListsMoved
  <1>13. ASSUME NEW p \in Proxy, Threat(p)'
         PROVE  Threat(p) \/ (Current(q).op = "stop" /\ Current(q).proxy = p)
    <2>1a. PICK r \in Proc : \E i \in DOMAIN proc'[r].todo :
              /\ proc'[r].todo[i].proxy = p
              /\ proc'[r].todo[i].op \in {"mark", "restore"} \/ (i = 1 /\ proc'[r].todo[i].op = "delete")
      BY <1>13 DEF Threat
    <2>1. PICK i \in DOMAIN proc'[r].todo :
              /\ proc'[r].todo[i].proxy = p
              /\ proc'[r].todo[i].op \in {"mark", "restore"} \/ (i = 1 /\ proc'[r].todo[i].op = "delete")
      BY <2>1a
    <2>2. CASE r # q
      <3>1. proc'[r] = proc[r] BY <1>6, <2>2
      <3>2. QED BY <2>1, <3>1 DEF Threat
    <2>3. CASE r = q
      <3>1. i \in 1..(n - 1) /\ u[i] = t[i + 1] /\ u[i].proxy = p BY <1>3, <1>5, <2>1, <2>3
      <3>2. CASE u[i].op \in {"mark", "restore"}
        <4>1. i + 1 \in DOMAIN t BY <1>3, <1>7, <3>1
        <4>2. QED BY <1>1, <3>1, <3>2, <4>1 DEF Threat
      <3>3. CASE i = 1 /\ u[i].op = "delete"
        BY <1>4, <1>8, <3>1, <3>3
      <3>4. QED BY <1>5, <2>1, <2>3, <3>2, <3>3
    <2>4. QED BY <2>2, <2>3
  <1>14. QED BY <1>12, <1>13

\* The restore turns to a row: it is marked or started instead.
LEMMA ListsReplaced ==
    ASSUME TypeOK, ListsFit, NEW q \in Proc, proc[q].pc # "idle", Current(q).op = "restore",
           NEW op \in {"start", "mark"}, op = "mark" => Current(q).proxy \in due,
           proc' = [proc EXCEPT ![q] = Run(<<Do(op, Current(q).proxy)>> \o Tail(proc[q].todo))],
           UNCHANGED <<due, mode>>
    PROVE  ListsFit' /\ \A p \in Proxy : Threat(p)' => Threat(p)
  <1>1. PICK t : t = proc[q].todo OBVIOUS
  <1>2. PICK u : u = proc'[q].todo OBVIOUS
  <1>3. PICK n \in Nat \ {0} : DOMAIN t = 1..n BY <1>1, CurrentFits
  <1>4. Current(q) = t[1] BY <1>1, CurrentFits
  <1>5. /\ \A r \in Proc \ {q} : proc'[r] = proc[r]
        /\ DOMAIN u = 1..n /\ u[1].op = op /\ u[1].proxy = t[1].proxy
        /\ \A i \in 1..n : i # 1 => u[i] = t[i]
    <2>1. MovesOn(q) /\ DOMAIN u = DOMAIN t /\ u[1].op = op /\ u[1].proxy = Current(q).proxy
          /\ \A i \in DOMAIN t : i # 1 => u[i] = t[i]
      BY <1>1, <1>2, ReplacedFits
    <2>2. QED BY <1>3, <1>4, <2>1 DEF MovesOn
  <1>6. t[1].op = "restore" /\ q = Main BY <1>1, <1>3, <1>4 DEF ListsFit
  <1>7. Orderly(u)
    <2>1. SUFFICES ASSUME NEW i \in 1..n, u[i].op = "delete", i # 1
                   PROVE  u[i - 1].op = "stop" /\ u[i - 1].proxy = u[i].proxy
      BY <1>5 DEF Orderly
    <2>2. Orderly(t) BY <1>1 DEF ListsFit
    <2>3. u[i] = t[i] BY <1>5, <2>1
    <2>4. t[i - 1].op = "stop" /\ t[i - 1].proxy = t[i].proxy BY <1>3, <2>1, <2>2, <2>3 DEF Orderly
    <2>5. i - 1 # 1 BY <1>6, <2>4
    <2>6. i - 1 \in 1..n BY <2>1
    <2>7. u[i - 1] = t[i - 1] BY <1>5, <2>5, <2>6
    <2>8. QED BY <2>3, <2>4, <2>7
  <1>8. \A i \in 1..n : u[i].proxy = t[i].proxy BY <1>5
  <1>9. \A i \in DOMAIN u : /\ u[i].op = "mark" => u[i].proxy \in due
                            /\ u[i].op = "restore" => q = Main /\ mode' = "boot"
    <2>1. \A i \in 1..n : /\ t[i].op = "mark" => t[i].proxy \in due
                          /\ t[i].op = "restore" => q = Main /\ mode = "boot"
      BY <1>1, <1>3 DEF ListsFit
    <2>2. t[1].proxy \in due \/ op # "mark" BY <1>4
    <2>3. QED BY <1>5, <2>1, <2>2
  <1>10. mode' = "boot" => \A i, j \in DOMAIN u : u[i].proxy = u[j].proxy => i = j
    BY <1>1, <1>3, <1>5, <1>6, <1>8 DEF ListsFit
  <1>11. ListsFit' BY <1>2, <1>5, <1>7, <1>9, <1>10, ListsMoved
  <1>12. ASSUME NEW p \in Proxy, Threat(p)' PROVE Threat(p)
    <2>1a. PICK r \in Proc : \E i \in DOMAIN proc'[r].todo :
              /\ proc'[r].todo[i].proxy = p
              /\ proc'[r].todo[i].op \in {"mark", "restore"} \/ (i = 1 /\ proc'[r].todo[i].op = "delete")
      BY <1>12 DEF Threat
    <2>1. PICK i \in DOMAIN proc'[r].todo :
              /\ proc'[r].todo[i].proxy = p
              /\ proc'[r].todo[i].op \in {"mark", "restore"} \/ (i = 1 /\ proc'[r].todo[i].op = "delete")
      BY <2>1a
    <2>2. CASE r # q
      <3>1. proc'[r] = proc[r] BY <1>5, <2>2
      <3>2. QED BY <2>1, <3>1 DEF Threat
    <2>3. CASE r = q /\ i # 1
      <3>1. i \in 1..n /\ proc'[q].todo[i] = t[i] BY <1>2, <1>5, <2>1, <2>3
      <3>2. QED BY <1>1, <1>3, <2>1, <2>3, <3>1 DEF Threat
    <2>4. CASE r = q /\ i = 1
      <3>1. t[1].proxy = p BY <1>2, <1>5, <2>1, <2>4
      <3>2. QED BY <1>1, <1>3, <1>6, <3>1 DEF Threat
    <2>5. QED BY <2>2, <2>3, <2>4
  <1>13. QED BY <1>11, <1>12

\* q begins with a list that threatens at most the proxies of its marks.
LEMMA ListsBegin ==
    ASSUME ListsFit, NEW q \in Proc, NEW t, proc'[q].todo = t, \A r \in Proc \ {q} : proc'[r] = proc[r],
           NEW S, \A i \in DOMAIN t : /\ t[i].op # "restore" /\ (t[i].op = "mark" => t[i].proxy \in S)
                                      /\ i = 1 => t[i].op # "delete"
    PROVE  \A p \in Proxy : Threat(p)' => Threat(p) \/ p \in S
  <1> SUFFICES ASSUME NEW p \in Proxy, Threat(p)' PROVE Threat(p) \/ p \in S
    OBVIOUS
  <1>1a. PICK r \in Proc : \E i \in DOMAIN proc'[r].todo :
            /\ proc'[r].todo[i].proxy = p
            /\ proc'[r].todo[i].op \in {"mark", "restore"} \/ (i = 1 /\ proc'[r].todo[i].op = "delete")
    BY DEF Threat
  <1>1. PICK i \in DOMAIN proc'[r].todo :
            /\ proc'[r].todo[i].proxy = p
            /\ proc'[r].todo[i].op \in {"mark", "restore"} \/ (i = 1 /\ proc'[r].todo[i].op = "delete")
    BY <1>1a
  <1>2. CASE r # q
    <2>1. proc'[r] = proc[r] BY <1>2
    <2>2. QED BY <1>1, <2>1 DEF Threat
  <1>3. CASE r = q BY <1>1, <1>3
  <1>4. QED BY <1>2, <1>3

LEMMA ListsStep ==
    ASSUME TypeInv, BootFits, ListsFit, [Next]_vars
    PROVE  ListsFit'
  <1>0. TypeOK /\ Main \in Proc BY DEF TypeInv, Proc
  <1>1. ASSUME NEW q \in Proc, LockedStart(q) \/ LockedStop(q) \/ Drained(q) PROVE ListsFit'
    <2>1. proc[q].new \in Status BY <1>0 DEF TypeOK
    <2>2. PICK pc \in Inside, st \in Status : proc' = [proc EXCEPT ![q] = [@ EXCEPT !.pc = pc, !.new = st]]
      BY <1>1, <2>1 DEF LockedStart, LockedStop, Drained, Saving, Inside, Status
    <2>3. \A r \in Proc : proc'[r].todo = proc[r].todo BY <1>0, <2>2, SavingFits
    <2>4. UNCHANGED <<due, mode>> BY <1>1 DEF LockedStart, LockedStop, Drained, Enter
    <2>5. QED BY <2>3, <2>4, ListsRest
  <1>2. ASSUME NEW q \in Proc,
               NotFound(q) \/ SaveRow(q) \/ MarkExpired(q) \/ DeleteRow(q) \/ CreateRow(q) \/ RestoreRow(q)
        PROVE  ListsFit'
    <2>1. proc[q].pc # "idle" /\ UNCHANGED <<due, mode>>
      BY <1>2 DEF NotFound, SaveRow, MarkExpired, DeleteRow, CreateRow, RestoreRow, Turn
    <2>2. CASE Advance(q) BY <1>0, <2>1, <2>2, ListsAdvance
    <2>3. CASE proc' = [proc EXCEPT ![q] = Idle]
      <3>1. proc'[q].todo = <<>> /\ \A r \in Proc \ {q} : proc'[r] = proc[r]
        BY <1>0, <2>3, IdleFits DEF TypeOK
      <3>2. PICK t : t = proc'[q].todo OBVIOUS
      <3>3. DOMAIN t = {} BY <3>1, <3>2
      <3>4. Orderly(t) BY <3>3 DEF Orderly
      <3>5. \A r \in Proc \ {q} : proc'[r] = proc[r] BY <3>1
      <3>6. mode' = mode BY <2>1
      <3>7. mode' = "boot" => mode = "boot" BY <3>6
      <3>8. QED BY <2>1, <3>2, <3>3, <3>4, <3>5, <3>7, ListsMoved
    <2>4. ASSUME NEW op \in {"start", "mark"}, Current(q).op = "restore",
                 op = "mark" => Current(q).proxy \in due,
                 proc' = [proc EXCEPT ![q] = Run(<<Do(op, Current(q).proxy)>> \o Tail(proc[q].todo))]
          PROVE  ListsFit'
      BY <1>0, <2>1, <2>4, ListsReplaced
    <2>5. QED BY <1>2, <2>2, <2>3, <2>4
              DEF NotFound, SaveRow, MarkExpired, DeleteRow, CreateRow, RestoreRow, Turn
  <1>3. ASSUME NEW q \in Req, Request(q) PROVE ListsFit'
    <2>1. q \in Proc /\ q # Main BY ProxyAssumption DEF Proc
    <2>2. PICK t \in Seq(Step) : Begin(q, t) /\ Fresh(t) BY <1>0, <1>3, RequestFits
    <2>3. proc'[q].todo = t /\ \A r \in Proc \ {q} : proc'[r] = proc[r]
      BY <1>0, <2>1, <2>2, BeginFits DEF MovesOn
    <2>4. Orderly(t) BY <2>2 DEF Fresh, Orderly
    <2>5. \A i \in DOMAIN t : t[i].op \notin {"mark", "restore"} BY <2>2 DEF Fresh
    <2>6. UNCHANGED <<due, mode>> BY <1>3 DEF Request
    <2>7. QED BY <2>1, <2>3, <2>4, <2>5, <2>6, ListsMoved
  <1>4. CASE SweepExpiredProxies
    <2>1. Sweeper \in Proc /\ Sweeper # Main BY ProxyAssumption DEF Proc
    <2>2. PICK t \in Seq(Step) :
              /\ Begin(Sweeper, t)
              /\ \A i \in DOMAIN t : t[i].op \in {"expire", "mark"} /\ (t[i].op = "mark" => t[i].proxy \in DueRows)
      BY <1>0, <1>4, SweepFits
    <2>3. proc'[Sweeper].todo = t /\ \A r \in Proc \ {Sweeper} : proc'[r] = proc[r]
      BY <1>0, <2>1, <2>2, BeginFits DEF MovesOn
    <2>4. Orderly(t) BY <2>2 DEF Orderly
    <2>5. \A i \in DOMAIN t : t[i].op # "restore" /\ (t[i].op = "mark" => t[i].proxy \in due)
      BY <2>2 DEF DueRows
    <2>6. UNCHANGED <<due, mode>> BY <1>4 DEF SweepExpiredProxies
    <2>7. QED BY <2>1, <2>3, <2>4, <2>5, <2>6, ListsMoved
  <1>5. CASE Boot
    <2>1. PICK t \in Seq(Step) :
              /\ Begin(Main, t)
              /\ \A i \in DOMAIN t : t[i].op = "restore"
              /\ \A i, j \in DOMAIN t : t[i].proxy = t[j].proxy => i = j
      BY <1>0, <1>5, BootFinds
    <2>2. proc'[Main].todo = t /\ \A r \in Proc \ {Main} : proc'[r] = proc[r]
      BY <1>0, <2>1, BeginFits DEF MovesOn
    <2>3. Orderly(t) BY <2>1 DEF Orderly
    <2>4. due' = due /\ mode' = "boot" BY <1>5 DEF Boot
    <2>5. \A i \in DOMAIN t : t[i].op # "mark" BY <2>1
    <2>6. QED BY <1>0, <2>1, <2>2, <2>3, <2>4, <2>5, ListsMoved
  <1>6. CASE Shutdown
    <2>1. PICK t \in Seq(Step) : Begin(Main, t) /\ \A i \in DOMAIN t : t[i].op = "stop"
      BY <1>0, <1>6, ShutdownFits
    <2>2. proc'[Main].todo = t /\ \A r \in Proc \ {Main} : proc'[r] = proc[r]
      BY <1>0, <2>1, BeginFits DEF MovesOn
    <2>3. Orderly(t) BY <2>1 DEF Orderly
    <2>4. due' = due /\ mode = "up" /\ mode' = "halt" BY <1>6 DEF Shutdown
    <2>5. \A i \in DOMAIN t : t[i].op \notin {"mark", "restore"} BY <2>1
    <2>6. QED BY <1>0, <2>2, <2>3, <2>4, <2>5, ListsMoved
  <1>7. CASE Exit \/ Crash
    <2>1. \A q \in Proc : proc'[q].todo = <<>> BY <1>7, IdleFits DEF Exit, Crash, ProcessEnds
    <2>2. \A q \in Proc : DOMAIN proc'[q].todo = {} BY <2>1
    <2>3. mode' = "down" BY <1>7 DEF Exit, Crash, ProcessEnds
    <2>4. QED BY <2>2, <2>3 DEF ListsFit, Orderly
  <1>8. CASE Serve
    <2>1. mode = "boot" /\ proc[Main].pc = "idle" /\ mode' = "up" /\ UNCHANGED <<due, proc>> BY <1>8 DEF Serve
    <2>2. \A q \in Proc : proc[q].pc = "idle" BY <2>1 DEF BootFits
    <2>3. \A q \in Proc : proc[q].todo = <<>> BY <2>2 DEF TypeInv, LockFits
    <2>4. \A q \in Proc : DOMAIN proc'[q].todo = {} BY <2>1, <2>3
    <2>5. QED BY <2>1, <2>4 DEF ListsFit, Orderly
  <1>9. CASE Outside \/ UNCHANGED vars
    <2>1. UNCHANGED <<proc, mode>> BY <1>9, OutsideKeeps DEF vars
    <2>2. due \subseteq due' BY <1>9 DEF Outside, Expires, ClientConnects, ClientLeaves, vars
    <2>3. QED BY <2>1, <2>2, ListsRest
  <1>10. QED BY <1>1, <1>2, <1>3, <1>4, <1>5, <1>6, <1>7, <1>8, <1>9 DEF Next, ProcStep, Outside

\* Listeners that nothing raced with keep their rows.
LEMMA StraysRest ==
    ASSUME StraysFit,
           \A n \in Port : server'[n].open /\ n \notin raced' => server[n].open /\ n \notin raced,
           \A p \in Proxy : server'[PortOf[p]].open /\ PortOf[p] \notin raced' /\ Shown(p) /\ ~Threat(p) =>
                                Shown(p)' /\ ~Threat(p)'
    PROVE  StraysFit'
  <1> SUFFICES ASSUME NEW n \in Port, server'[n].open, n \notin raced'
               PROVE  \E p \in Proxy : PortOf[p] = n /\ Shown(p)' /\ ~Threat(p)'
    BY DEF StraysFit
  <1>1. PICK p \in Proxy : PortOf[p] = n /\ Shown(p) /\ ~Threat(p) BY DEF StraysFit
  <1>2. Shown(p)' /\ ~Threat(p)' BY <1>1
  <1>3. QED BY <1>1, <1>2

LEMMA ShownStays ==
    ASSUME TypeInv, NEW p \in Proxy, Shown(p), row'[p] = row[p], lock' = lock,
           \A q \in Proc : proc[q].pc \in Inside => proc'[q] = proc[q]
    PROVE  Shown(p)'
  <1>1. lock # Free => lock \in Proc /\ proc[lock].pc \in Inside BY DEF TypeInv, TypeOK, LockFits
  <1>2. lock # Free => proc'[lock] = proc[lock] BY <1>1
  <1>3. QED BY <1>2 DEF Shown, Starting, Current

LEMMA StraysStart ==
    ASSUME TypeInv, BootFits, ListsFit, StraysFit, NEW q \in Proc, LockedStart(q)
    PROVE  StraysFit'
  <1>0. TypeOK /\ proc[q].pc = "ready" /\ proc[q].pc # "idle" BY DEF TypeInv, LockedStart, Turn
  <1>1. PICK p \in Proxy : p = Current(q).proxy BY <1>0, CurrentFits
  <1>2. PICK n \in Port : n = PortOf[p] BY ProxyAssumption
  <1>3. /\ lock = Free /\ lock' = q /\ row[p] # "none" /\ Current(q).op = "start"
        /\ UNCHANGED <<row, due, mode>>
    BY <1>1 DEF LockedStart, Turn, Enter
  <1>4. PICK st \in {"running", "expired", "error"} : Saving(q, st)
    BY DEF LockedStart
  <1>5. \A r \in Proc : proc'[r].todo = proc[r].todo
    BY <1>0, <1>4, SavingFits DEF Saving, Inside, Status
  <1>6. \A r \in Proxy : Threat(r)' => Threat(r)
    BY <1>3, <1>5, ListsRest
  <1>7. \A r \in Proxy : Shown(r) => Shown(r)' BY <1>3 DEF Shown, Starting
  <1>8. CASE UNCHANGED <<server, raced>> BY <1>6, <1>7, <1>8, StraysRest
  <1>9. CASE /\ server' = [server EXCEPT ![n] = [owner |-> p, open |-> TRUE]] /\ p \notin due
             /\ raced' = (IF Removing(p) THEN raced \cup {n} ELSE raced) /\ Saving(q, "running")
    <2>1. \A m \in Port \ {n} : server'[m] = server[m] BY <1>0, <1>2, <1>9 DEF TypeOK
    <2>2. raced \subseteq raced' BY <1>9
    <2>3. ASSUME NEW m \in Port \ {n}, server'[m].open, m \notin raced'
          PROVE  \E r \in Proxy : PortOf[r] = m /\ Shown(r)' /\ ~Threat(r)'
      <3>1. server[m].open /\ m \notin raced BY <2>1, <2>2, <2>3
      <3>2. QED BY <1>6, <1>7, <3>1 DEF StraysFit
    <2>4. ASSUME n \notin raced' PROVE Shown(p)' /\ ~Threat(p)'
      <3>1. ~Removing(p) BY <1>9, <2>4
      <3>2. proc'[q].new = "running" /\ proc'[q].todo = proc[q].todo
        BY <1>0, <1>9, SavingFits DEF Saving, Inside, Status
      <3>3. Current(q)' = Current(q) BY <3>2 DEF Current
      <3>4. q # Free BY ProxyAssumption DEF Proc
      <3>5. Shown(p)' BY <1>1, <1>3, <3>2, <3>3, <3>4 DEF Shown, Starting, Current
      <3>6. ASSUME NEW r \in Proc, NEW i \in DOMAIN proc[r].todo, proc[r].todo[i].proxy = p
            PROVE  /\ proc[r].todo[i].op \notin {"mark", "restore"}
                   /\ ~(i = 1 /\ proc[r].todo[i].op = "delete")
        <4>1. proc[r].todo[i].op # "mark" BY <1>9, <3>6 DEF ListsFit
        <4>2. ASSUME proc[r].todo[i].op = "restore" PROVE FALSE
          <5>1. r = Main /\ mode = "boot" BY <3>6, <4>2 DEF ListsFit
          <5>2. q = Main BY <1>0, <5>1 DEF BootFits
          <5>3. 1 \in DOMAIN proc[Main].todo /\ Current(q) = proc[Main].todo[1]
            BY <1>0, <5>2, CurrentFits
          <5>4. proc[Main].todo[1].proxy = p /\ proc[Main].todo[1].op = "start"
            BY <1>1, <1>3, <5>3
          <5>5. i = 1 BY <3>6, <5>1, <5>3, <5>4 DEF ListsFit
          <5>6. QED BY <4>2, <5>1, <5>4, <5>5
        <4>3. ASSUME i = 1, proc[r].todo[i].op = "delete" PROVE FALSE
          <5>1. proc[r].pc # "idle"
            <6>1. ASSUME proc[r].pc = "idle" PROVE FALSE
              <7>1. proc[r].todo = <<>> BY <6>1 DEF TypeInv, LockFits
              <7>2. QED BY <3>6, <7>1
            <6>2. QED BY <6>1
          <5>2. proc[r].pc \notin Inside
            <6>1. \A x \in Proc : x # Free BY ProxyAssumption DEF Proc
            <6>2. QED BY <1>3, <6>1 DEF TypeInv, LockFits
          <5>3. proc[r].pc = "ready" BY <1>0, <5>1, <5>2 DEF TypeOK, Inside
          <5>4. Current(r) = proc[r].todo[1] BY <1>0, <5>1, CurrentFits
          <5>5. Removing(p) BY <3>6, <4>3, <5>3, <5>4 DEF Removing, Turn
          <5>6. QED BY <3>1, <5>5
        <4>4. QED BY <4>1, <4>2, <4>3
      <3>7. ~Threat(p) BY <3>6 DEF Threat
      <3>8. QED BY <1>6, <3>5, <3>7
    <2>5. QED BY <1>2, <2>3, <2>4 DEF StraysFit
  <1>10. QED BY <1>1, <1>2, <1>8, <1>9 DEF LockedStart

LEMMA StraysCalls ==
    ASSUME TypeInv, ListenersFit, CallsFit, ListsFit, StraysFit, NEW q \in Proc,
           LockedStop(q) \/ Drained(q) \/ SaveRow(q)
    PROVE  StraysFit'
  <1>0. TypeOK /\ proc[q].pc # "idle" BY DEF TypeInv, LockedStop, Drained, SaveRow, Turn
  <1>1. PICK p \in Proxy : p = Current(q).proxy BY <1>0, CurrentFits
  <1>2. PICK n \in Port : n = PortOf[p] BY ProxyAssumption
  <1>3. CASE LockedStop(q)
    <2>1. lock = Free /\ UNCHANGED <<row, due, mode, raced>> BY <1>3 DEF LockedStop, Enter
    <2>2. PICK c : c = [server[n] EXCEPT !.open = FALSE] OBVIOUS
    <2>3. ~c.open BY <1>0, <1>2, <2>2, ClosedFits DEF TypeOK
    <2>4. PICK pc \in Inside, st \in {"stopped", "expired"} :
              /\ proc' = [proc EXCEPT ![q] = [@ EXCEPT !.pc = pc, !.new = st]]
              /\ server' = [server EXCEPT ![n] = c] \/ server' = server
      BY <1>1, <1>2, <1>3, <2>2 DEF LockedStop, Saving, Inside
    <2>5. \A m \in Port : server'[m].open => server[m].open BY <1>0, <1>2, <2>3, <2>4 DEF TypeOK
    <2>6. \A r \in Proc : proc'[r].todo = proc[r].todo BY <1>0, <2>4, SavingFits DEF Status
    <2>7. \A r \in Proxy : Threat(r)' => Threat(r) BY <2>1, <2>6, ListsRest
    <2>8. \A r \in Proxy : Shown(r) => Shown(r)' BY <2>1 DEF Shown, Starting
    <2>9. QED BY <2>1, <2>5, <2>7, <2>8, StraysRest
  <1>4. CASE Drained(q)
    <2>1. proc[q].pc = "drain" /\ lock = q BY <1>4 DEF Drained, TypeInv, LockFits, Inside
    <2>2. /\ server' = [server EXCEPT ![n] = NoServer] /\ raced' = raced \ {n}
          /\ Saving(q, proc[q].new) /\ UNCHANGED <<row, due, mode>>
      BY <1>1, <1>2, <1>4 DEF Drained
    <2>3. proc[q].new \in Status BY <1>0 DEF TypeOK
    <2>4. \A r \in Proc : proc'[r].todo = proc[r].todo BY <1>0, <2>2, <2>3, SavingFits DEF Saving, Inside
    <2>5. \A r \in Proxy : Threat(r)' => Threat(r) BY <2>2, <2>4, ListsRest
    <2>6. proc[q].new # "running" BY <2>1 DEF ListenersFit, Inside
    <2>7. \A r \in Proxy : Shown(r) => Shown(r)' BY <2>1, <2>2, <2>6 DEF Shown
    <2>8. \A m \in Port : server'[m].open => m # n /\ server[m].open
      BY <1>0, <1>2, <2>2 DEF TypeOK, NoServer
    <2>9. QED BY <2>2, <2>5, <2>7, <2>8, StraysRest
  <1>5. CASE SaveRow(q)
    <2>1. proc[q].pc = "save" /\ lock = q BY <1>5 DEF SaveRow, TypeInv, LockFits, Inside
    <2>2. Upsert(p, proc[q].new) /\ Advance(q) /\ UNCHANGED <<due, server, mode, raced>>
      BY <1>1, <1>5 DEF SaveRow
    <2>3. proc[q].new \in Status BY <1>0 DEF TypeOK
    <2>4. \A r \in Proxy \ {p} : row'[r] = row[r] BY <1>0, <2>2, <2>3, UpsertFits
    <2>5. row[p] # "none" => row'[p] = proc[q].new BY <1>0, <2>2, <2>3, UpsertFits
    <2>6. \A r \in Proxy : Threat(r)' => Threat(r) \/ (Current(q).op = "stop" /\ p = r)
      BY <1>0, <1>1, <2>2, ListsAdvance
    <2>7. /\ proc[q].new = "running" => Current(q).op = "start"
          /\ proc[q].new # "running" => ~server[n].open
      BY <1>1, <1>2, <2>1 DEF CallsFit, Inside
    <2>8. ASSUME NEW r \in Proxy, server[PortOf[r]].open, Shown(r), ~Threat(r)
          PROVE  Shown(r)' /\ ~Threat(r)'
      <3>1. CASE r = p
        <4>1. proc[q].new = "running" /\ Current(q).op = "start" BY <1>2, <2>7, <2>8, <3>1
        <4>2. row[p] # "none" BY <2>8, <3>1 DEF Shown
        <4>3. row'[r] = "running" BY <2>5, <3>1, <4>1, <4>2
        <4>4. QED BY <2>6, <2>8, <4>1, <4>3 DEF Shown
      <3>2. CASE r # p
        <4>1. row[r] = "running" BY <1>1, <2>1, <2>8, <3>2 DEF Shown, Starting
        <4>2. row'[r] = "running" BY <2>4, <3>2, <4>1
        <4>3. QED BY <2>6, <2>8, <3>2, <4>2 DEF Shown
      <3>3. QED BY <3>1, <3>2
    <2>9. QED BY <2>2, <2>8, StraysRest
  <1>6. QED BY <1>3, <1>4, <1>5

\* A step outside the mutex takes no row from a listener that nothing raced with.
LEMMA StraysPlain ==
    ASSUME TypeInv, ListsFit, StraysFit, NEW q \in Proc,
           NotFound(q) \/ MarkExpired(q) \/ DeleteRow(q) \/ CreateRow(q) \/ RestoreRow(q)
    PROVE  StraysFit'
  <1>0. TypeOK BY DEF TypeInv
  <1>1. /\ proc[q].pc = "ready" /\ UNCHANGED <<due, server, lock, mode, raced>>
        /\ \A r \in Proc : proc[r].pc \in Inside => proc'[r] = proc[r]
    BY OutsideMoves DEF Inside
  <1>2. PICK p \in Proxy : p = Current(q).proxy BY <1>0, <1>1, CurrentFits
  <1>3. PICK op : op = Current(q).op OBVIOUS
  <1>4. op \in {"mark", "restore", "delete"} => Threat(p)
    <2>1. Current(q) = proc[q].todo[1] /\ 1 \in DOMAIN proc[q].todo BY <1>0, <1>1, CurrentFits
    <2>2. QED BY <1>2, <1>3, <2>1 DEF Threat
  <1>5. Advance(q) => \A r \in Proxy : Threat(r)' => Threat(r) \/ (op = "stop" /\ p = r)
    BY <1>0, <1>1, <1>2, <1>3, ListsAdvance
  <1>6. ASSUME NEW r \in Proxy, Shown(r), ~Threat(r)
        PROVE  row'[r] = row[r] /\ ~Threat(r)'
    <2>1. CASE NotFound(q)
      <3>1. Advance(q) /\ row' = row /\ row[p] = "none" BY <1>2, <2>1 DEF NotFound
      <3>2. row[r] # "none" BY <1>6 DEF Shown
      <3>3. QED BY <1>5, <1>6, <3>1, <3>2
    <2>2. CASE MarkExpired(q)
      <3>1. Advance(q) /\ Upsert(p, "expired") /\ op = "mark" BY <1>2, <1>3, <2>2 DEF MarkExpired, Turn
      <3>2. r # p BY <1>4, <1>6, <3>1
      <3>3. row'[r] = row[r] BY <1>0, <3>1, <3>2, UpsertFits DEF Status
      <3>4. QED BY <1>5, <1>6, <3>1, <3>3
    <2>3. CASE DeleteRow(q)
      <3>1. Advance(q) /\ row' = [row EXCEPT ![p] = "none"] /\ op = "delete"
        BY <1>2, <1>3, <2>3 DEF DeleteRow, Turn
      <3>2. r # p BY <1>4, <1>6, <3>1
      <3>3. QED BY <1>0, <1>5, <1>6, <3>1, <3>2 DEF TypeOK
    <2>4. CASE CreateRow(q)
      <3>1. op = "create" BY <1>3, <2>4 DEF CreateRow, Turn
      <3>2. CASE row' = row /\ proc' = [proc EXCEPT ![q] = Idle]
        <4>1. PICK t : t = proc'[q].todo OBVIOUS
        <4>2. t = <<>> /\ \A x \in Proc \ {q} : proc'[x] = proc[x]
          BY <1>0, <3>2, <4>1, IdleFits DEF TypeOK
        <4>3. DOMAIN t = {} BY <4>2
        <4>4. Threat(r)' => Threat(r) \/ r \in {} BY <4>1, <4>2, <4>3, ListsBegin
        <4>5. QED BY <1>6, <3>2, <4>4
      <3>3. CASE ~PortTaken(p) /\ row' = [row EXCEPT ![p] = "stopped"] /\ Advance(q)
        <4>1. row[r] # "none" BY <1>6 DEF Shown
        <4>2. r # p BY <3>3, <4>1 DEF PortTaken, Rows
        <4>3. QED BY <1>0, <1>5, <1>6, <3>1, <3>3, <4>2 DEF TypeOK
      <3>4. QED BY <1>2, <2>4, <3>2, <3>3 DEF CreateRow
    <2>5. CASE RestoreRow(q)
      <3>1. row' = row /\ op = "restore" BY <1>3, <2>5 DEF RestoreRow, Turn
      <3>2. CASE Advance(q) BY <1>5, <1>6, <3>1, <3>2
      <3>3. ASSUME NEW new \in {"start", "mark"}, new = "mark" => Current(q).proxy \in due,
                   proc' = [proc EXCEPT ![q] = Run(<<Do(new, Current(q).proxy)>> \o Tail(proc[q].todo))]
            PROVE  row'[r] = row[r] /\ ~Threat(r)'
        <4>1. proc[q].pc # "idle" /\ Current(q).op = "restore" /\ UNCHANGED <<due, mode>> BY <1>1, <1>3, <3>1
        <4>2. Threat(r)' => Threat(r) BY <1>0, <3>3, <4>1, ListsReplaced
        <4>3. QED BY <1>6, <3>1, <4>2
      <3>4. QED BY <2>5, <3>2, <3>3 DEF RestoreRow
    <2>6. QED BY <2>1, <2>2, <2>3, <2>4, <2>5
  <1>7. \A r \in Proxy : Shown(r) /\ ~Threat(r) => Shown(r)' /\ ~Threat(r)'
    BY <1>1, <1>6, ShownStays
  <1>8. QED BY <1>1, <1>7, StraysRest

LEMMA StraysStep ==
    ASSUME TypeInv, ListenersFit, BootFits, ListsFit, CallsFit, StraysFit, [Next]_vars
    PROVE  StraysFit'
  <1>0. TypeOK BY DEF TypeInv
  <1>1. ASSUME NEW q \in Proc, ProcStep(q) PROVE StraysFit'
    BY <1>1, StraysStart, StraysCalls, StraysPlain DEF ProcStep
  <1>2. ASSUME NEW q \in Proc, NEW t \in Seq(Step), Begin(q, t), UNCHANGED <<row, server, lock>>,
               \A i \in DOMAIN t : t[i].op # "restore" /\ (i = 1 => t[i].op # "delete"),
               raced \subseteq raced',
               \A i \in DOMAIN t : t[i].op = "mark" =>
                   (Shown(t[i].proxy) => PortOf[t[i].proxy] \in raced')
        PROVE  StraysFit'
    <2>1. proc'[q].todo = t /\ proc[q].pc = "idle" /\ \A r \in Proc \ {q} : proc'[r] = proc[r]
      BY <1>0, <1>2, BeginFits DEF MovesOn
    <2>2. PICK S : S = {p \in Proxy : Shown(p) => PortOf[p] \in raced'} OBVIOUS
    <2>3. \A i \in DOMAIN t : t[i].proxy \in Proxy
      <3>1. \A i \in DOMAIN t : t[i] \in Step BY <1>2, LenProperties
      <3>2. QED BY <3>1 DEF Step
    <2>4. \A i \in DOMAIN t : t[i].op = "mark" => t[i].proxy \in S BY <1>2, <2>2, <2>3
    <2>5. \A p \in Proxy : Threat(p)' => Threat(p) \/ p \in S
      BY <1>2, <2>1, <2>4, ListsBegin
    <2>6. \A p \in Proxy : Shown(p) => Shown(p)' BY <1>2, <2>1, ShownStays DEF Inside
    <2>7. QED BY <1>2, <2>2, <2>5, <2>6, StraysRest
  <1>3. ASSUME NEW q \in Req, Request(q) PROVE StraysFit'
    <2>1. PICK t \in Seq(Step) : Begin(q, t) /\ Fresh(t) BY <1>0, <1>3, RequestFits
    <2>2. UNCHANGED <<row, server, lock, raced>> BY <1>3 DEF Request
    <2>3. \A i \in DOMAIN t : t[i].op \notin {"mark", "restore"} /\ (i = 1 => t[i].op # "delete")
      BY <2>1 DEF Fresh
    <2>4. q \in Proc BY DEF Proc
    <2>5. QED BY <1>2, <2>1, <2>2, <2>3, <2>4
  <1>4. CASE SweepExpiredProxies
    <2>1. PICK t \in Seq(Step) :
              /\ Begin(Sweeper, t)
              /\ \A i \in DOMAIN t :
                    /\ t[i].op \in {"expire", "mark"}
                    /\ t[i].op = "mark" => t[i].proxy \in DueRows /\ row[t[i].proxy] # "running"
      BY <1>0, <1>4, SweepFits
    <2>2. UNCHANGED <<row, server, lock>> BY <1>4 DEF SweepExpiredProxies
    <2>3. \A p \in DueRows : row[p] # "running" /\ Starting(p) => PortOf[p] \in raced'
      BY <1>4 DEF SweepExpiredProxies
    <2>4. raced \subseteq raced' BY <1>4 DEF SweepExpiredProxies
    <2>5. \A i \in DOMAIN t : t[i].op = "mark" => (Shown(t[i].proxy) => PortOf[t[i].proxy] \in raced')
      BY <2>1, <2>3 DEF Shown
    <2>6. Sweeper \in Proc BY DEF Proc
    <2>7. \A i \in DOMAIN t : t[i].op # "restore" /\ (i = 1 => t[i].op # "delete") BY <2>1
    <2>8. QED BY <1>2, <2>1, <2>2, <2>4, <2>5, <2>6, <2>7
  <1>5. CASE Shutdown
    <2>1. PICK t \in Seq(Step) : Begin(Main, t) /\ \A i \in DOMAIN t : t[i].op = "stop"
      BY <1>0, <1>5, ShutdownFits
    <2>2. UNCHANGED <<row, server, lock, raced>> BY <1>5 DEF Shutdown
    <2>3. Main \in Proc BY DEF Proc
    <2>4. \A i \in DOMAIN t : t[i].op \notin {"mark", "restore", "delete"} BY <2>1
    <2>5. QED BY <1>2, <2>1, <2>2, <2>3, <2>4
  <1>6. CASE Boot \/ Exit \/ Crash
    <2>1. \A n \in Port : server'[n] = NoServer
      BY <1>6 DEF Boot, Exit, Crash, ProcessEnds, TypeInv, LockFits
    <2>2. QED BY <2>1 DEF StraysFit, NoServer
  <1>7. CASE Serve \/ Outside \/ UNCHANGED vars
    <2>1. UNCHANGED <<row, server, lock, proc, raced>> BY <1>7, OutsideKeeps DEF Serve, vars
    <2>2. \A p \in Proxy : (Shown(p)' <=> Shown(p)) /\ (Threat(p)' <=> Threat(p))
      BY <2>1 DEF Shown, Starting, Current, Threat
    <2>3. QED BY <2>1, <2>2, StraysRest
  <1>8. QED BY <1>1, <1>3, <1>4, <1>5, <1>6, <1>7 DEF Next, Outside
-----------------------------------------------------------------------------
LEMMA Invariance == Spec => []IInv
  <1>1. Init => IInv
    <2> SUFFICES ASSUME Init PROVE IInv
      OBVIOUS
    <2>1. TypeInv BY TypeInit
    <2>2. \A q \in Proc : proc[q].pc = "idle" BY DEF Init, Idle
    <2>3. \A n \in Port : server[n] = NoServer BY DEF Init
    <2>4. mode = "down" /\ Rows = {} BY DEF Init, Rows
    <2>5. PortsUnique /\ ListenersFit /\ BootFits /\ CallsFit
      BY <2>2, <2>3, <2>4 DEF PortsUnique, ListenersFit, BootFits, CallsFit, Inside, Rows
    <2>6. StraysFit BY <2>3 DEF StraysFit, NoServer
    <2>7. \A q \in Proc : DOMAIN proc[q].todo = {} BY DEF Init, Idle
    <2>8. ListsFit BY <2>4, <2>7 DEF ListsFit, Orderly
    <2>9. QED BY <2>1, <2>5, <2>6, <2>8 DEF IInv
  <1>2. IInv /\ [Next]_vars => IInv'
    BY TypeStep, PortsStep, ListenersStep, BootStep, ListsStep, CallsStep, StraysStep DEF IInv
  <1>3. QED
    BY <1>1, <1>2, PTL DEF Spec

\* An open listener that no row shows as running was opened beside a removal or
\* a mark of its proxy (StraysWereRaced of ProxyManager), for any number of
\* proxies, ports, requests and crashes.
THEOREM StraysCorrect == Spec => []StraysWereRaced
  <1>1. IInv => StraysWereRaced
    BY DEF IInv, StraysFit, Shown, Starting, StraysWereRaced
  <1>2. QED
    BY <1>1, Invariance, PTL

\* A row that says running has an open listener whenever the mutex is free
\* (RunningHasListener of ProxyManager).
THEOREM ListenersCorrect == Spec => []RunningHasListener
  <1>1. IInv => RunningHasListener
    BY DEF IInv, ListenersFit, Ending, RunningHasListener
  <1>2. QED
    BY <1>1, Invariance, PTL

\* After a crash, whatever it cut off, the restore opens a listener for each
\* row that says running, and for its own proxy (BootReopens of ProxyManager).
THEOREM RestoreCorrect == Spec => BootReopens
  <1>1. IInv /\ Serve => \A p \in Proxy : row[p] = "running" => p \in Listening
    <2> SUFFICES ASSUME IInv, Serve PROVE \A p \in Proxy : row[p] = "running" => p \in Listening
      OBVIOUS
    <2>1. mode = "boot" /\ proc[Main].pc = "idle" BY DEF Serve
    <2>2. proc[Main].todo = <<>> BY <2>1 DEF IInv, TypeInv, LockFits, Proc
    <2>3. DOMAIN proc[Main].todo = {} BY <2>2, EmptySeq, LenProperties
    <2>4. \A p \in Proxy : ~Pending(p) BY <2>3 DEF Pending
    <2>5. QED BY <2>1, <2>4 DEF IInv, BootFits
  <1>2. IInv /\ [Next]_vars =>
            [Serve => \A p \in Proxy : row[p] = "running" => p \in Listening]_vars
    BY <1>1
  <1>3. QED
    BY <1>2, Invariance, PTL DEF Spec, BootReopens
=============================================================================
