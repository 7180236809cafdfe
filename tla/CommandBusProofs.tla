-------------------------- MODULE CommandBusProofs --------------------------
(* Theorems about CommandBus, for every value of its constants.            *)
EXTENDS CommandBus, TLAPS

\* A copy or a row that carries the marks of a dispatch.
LEMMA CommandTypes ==
    /\ Absent \in Command
    /\ \A copy \in Command : Dispatched(copy) \in Command
    /\ \A copy \in Command, s \in Status : Marked(copy, s) \in Command
<1>1. Absent \in Command
  BY DEF Absent, Command, Status
<1>2. ASSUME NEW copy \in Command
      PROVE  Dispatched(copy) \in Command
  BY DEF Dispatched, Command, Status
<1>3. ASSUME NEW copy \in Command, NEW s \in Status
      PROVE  Marked(copy, s) \in Command
  BY DEF Command, Marked
<1>4. QED
  BY <1>1, <1>2, <1>3

LEMMA TaskTypes ==
    /\ Idle \in Task
    /\ Listing \in Task
    /\ \A c \in Cmd, copy \in Command, todo \in SUBSET Held : Attempt(c, copy, todo) \in Task
BY CommandTypes DEF Task, Idle, Listing, Attempt

TaskOK == /\ task \in [Worker -> Task]
          /\ \A w \in Worker : /\ task[w].pc \notin {"idle", "list"} => task[w].cmd \in Cmd
                               /\ task[w].pc \in {"save", "send"} => task[w].via \in Conn

LEMMA SpawnType ==
    ASSUME TaskOK, NEW t \in Task, Spawn(t), t.pc \in {"list", "load"},
           t.pc = "load" => t.cmd \in Cmd
    PROVE  TaskOK'
BY DEF TaskOK, Spawn

LEMMA ProceedType ==
    ASSUME TaskOK, NEW w \in Worker, NEW todo \in SUBSET Held, Proceed(w, todo)
    PROVE  TaskOK'
<1>1. CASE todo = {} /\ task' = [task EXCEPT ![w] = Idle]
  BY <1>1, TaskTypes DEF TaskOK, Idle
<1>2. CASE \E h \in Earliest(todo) :
             task' = [task EXCEPT ![w] = Attempt(h.cmd, h.copy, todo \ {h})]
  <2>1. PICK h \in Earliest(todo) :
          task' = [task EXCEPT ![w] = Attempt(h.cmd, h.copy, todo \ {h})]
    BY <1>2
  <2>2. h \in Held /\ h.cmd \in Cmd /\ h.copy \in Command /\ todo \ {h} \in SUBSET Held
    BY <2>1 DEF Earliest, Held
  <2>3. Attempt(h.cmd, h.copy, todo \ {h}) \in Task
    BY <2>2, TaskTypes
  <2>4. QED
    BY <2>1, <2>2, <2>3 DEF TaskOK, Attempt
<1>3. QED
  BY <1>1, <1>2 DEF Proceed

LEMMA TypeInit == Init => TypeOK
BY BusAssumption, CommandTypes, TaskTypes
   DEF Init, TypeOK, Idle, Listening, NoJob, Reading, Absent

LEMMA TypeStep == TypeOK /\ [Next]_vars => TypeOK'
<1> SUFFICES ASSUME TypeOK, [Next]_vars
             PROVE  TypeOK'
  OBVIOUS
<1> USE DEF TypeOK, linkVars, agentVars, busVars
<1>1. ASSUME NEW c \in Cmd, CheckIdempotency(c)
      PROVE  TypeOK'
  BY <1>1 DEF CheckIdempotency
<1>2. ASSUME NEW c \in Cmd, CreateCommand(c)
      PROVE  TypeOK'
  <2> DEFINE new == [status |-> "pending", attempts |-> 0, dispatched |-> FALSE,
                     createdAt |-> clock + 1]
  <2>1. new \in Command
    BY DEF Command, Status
  <2>2. Attempt(c, new, {}) \in Task /\ Attempt(c, new, {}).pc = "load" /\ Attempt(c, new, {}).cmd = c
    BY <2>1, TaskTypes DEF Attempt
  <2>3. TaskOK'
    BY <1>2, <2>2, SpawnType DEF CreateCommand, TaskOK
  <2>4. QED
    BY <1>2, <2>1, <2>3 DEF CreateCommand, TaskOK
<1>3. ASSUME NEW w \in Worker, LoadConnection(w)
      PROVE  TypeOK'
  <2>1. task[w].todo \in SUBSET Held
    BY DEF Task
  <2>2. TaskOK'
    <3>1. CASE registry = NoConn /\ Proceed(w, task[w].todo)
      BY <2>1, <3>1, ProceedType DEF TaskOK
    <3>2. CASE /\ registry # NoConn
               /\ task' = [task EXCEPT ![w] = [@ EXCEPT !.pc = "save", !.via = registry]]
      <4> DEFINE t == [task[w] EXCEPT !.pc = "save", !.via = registry]
      <4>1. t \in Task /\ t.pc = "save" /\ t.cmd \in Cmd /\ t.via \in Conn
        BY <1>3, <3>2 DEF LoadConnection, Task
      <4>2. QED
        BY <3>2, <4>1 DEF TaskOK
    <3>3. QED
      BY <1>3, <3>1, <3>2 DEF LoadConnection
  <2>3. QED
    BY <1>3, <2>2 DEF LoadConnection, TaskOK
<1>4. ASSUME NEW w \in Worker, SaveDispatched(w)
      PROVE  TypeOK'
  <2>1. task[w].cmd \in Cmd /\ task[w].copy \in Command
    BY <1>4 DEF SaveDispatched, Task
  <2>2. Dispatched(task[w].copy) \in Command
    BY <2>1, CommandTypes
  <2>3. TaskOK'
    <3> DEFINE t == [task[w] EXCEPT !.pc = "send", !.copy = Dispatched(task[w].copy)]
    <3>1. t \in Task /\ t.pc = "send" /\ t.cmd \in Cmd /\ t.via \in Conn
      BY <1>4, <2>1, <2>2 DEF SaveDispatched, Task
    <3>2. QED
      BY <1>4, <3>1 DEF SaveDispatched, TaskOK
  <2>4. QED
    BY <1>4, <2>1, <2>2, <2>3 DEF SaveDispatched, TaskOK
<1>5. ASSUME NEW w \in Worker, SendCommand(w)
      PROVE  TypeOK'
  <2>1. task[w].cmd \in Cmd /\ task[w].via \in Conn /\ task[w].todo \in SUBSET Held
    BY <1>5 DEF SendCommand, Task
  <2>2. TaskOK' /\ chan' \in [Conn -> Seq(Cmd)]
    <3>1. CASE /\ chan' = [chan EXCEPT ![task[w].via] = Append(@, task[w].cmd)]
               /\ Proceed(w, task[w].todo)
      BY <2>1, <3>1, ProceedType DEF TaskOK
    <3>2. CASE /\ task' = [task EXCEPT ![w] = [task[w] EXCEPT !.pc = "revert",
                                                        !.copy = Marked(task[w].copy, "pending")]]
               /\ UNCHANGED chan
      <4> DEFINE t == [task[w] EXCEPT !.pc = "revert",
                                      !.copy = Marked(task[w].copy, "pending")]
      <4>1. Marked(task[w].copy, "pending") \in Command
        <5>1. task[w].copy \in Command
          BY DEF Task
        <5>2. QED
          BY <5>1, CommandTypes DEF Status
      <4>2. t \in Task /\ t.pc = "revert" /\ t.cmd \in Cmd
        BY <2>1, <4>1 DEF Task
      <4>3. QED
        BY <3>2, <4>2 DEF TaskOK
    <3>3. QED
      BY <1>5, <3>1, <3>2 DEF SendCommand
  <2>3. QED
    BY <1>5, <2>2 DEF SendCommand, TaskOK
<1>6. ASSUME NEW w \in Worker, RevertToPending(w)
      PROVE  TypeOK'
  <2>1. task[w].cmd \in Cmd /\ task[w].copy \in Command /\ task[w].todo \in SUBSET Held
    BY <1>6 DEF RevertToPending, Task
  <2>2. TaskOK'
    BY <1>6, <2>1, ProceedType DEF RevertToPending, TaskOK
  <2>3. QED
    BY <1>6, <2>1, <2>2 DEF RevertToPending, TaskOK
<1>7. ASSUME NEW w \in Worker, ListPending(w)
      PROVE  TypeOK'
  <2> DEFINE P == {[cmd |-> c, copy |-> row[c]] : c \in {d \in Cmd : row[d].status = "pending"}}
  <2>1. P \in SUBSET Held
    BY DEF Held
  <2>2. TaskOK'
    BY <1>7, <2>1, ProceedType DEF ListPending, TaskOK
  <2>3. QED
    BY <1>7, <2>2 DEF ListPending, TaskOK
<1>8. ASSUME ServerDown
      PROVE  TypeOK' \/ crashes' \notin Nat
  BY <1>8, CommandTypes, TaskTypes DEF ServerDown, Idle, Listening, Reading, Absent
<1>9. ASSUME NEW w \in Worker, SendOnClosed(w)
      PROVE  TypeOK'
  BY <1>8, <1>9 DEF SendOnClosed
<1>10. ASSUME NEW k \in Conn, ReadResult(k)
      PROVE  TypeOK'
  <2> DEFINE r == Head(up[k])
  <2>1. r \in ReportMsg /\ Tail(up[k]) \in Seq(ReportMsg)
    BY <1>10 DEF ReadResult
  <2>2. /\ Listening \in Reading
        /\ [pc |-> "save", cmd |-> r.cmd, status |-> r.status, copy |-> row[r.cmd]] \in Reading
    BY <2>1, CommandTypes DEF Listening, Reading, ReportMsg
  <2>3. QED
    BY <1>10, <2>1, <2>2 DEF ReadResult, ReportMsg, Listening
<1>11. ASSUME NEW k \in Conn, SaveResult(k)
      PROVE  TypeOK'
  <2> DEFINE r == reader[k]
             Saved(s) == row' = [row EXCEPT ![r.cmd] = Marked(r.copy, s)]
  <2>1. /\ r.cmd \in Cmd /\ r.copy \in Command
        /\ \A s \in Status : Marked(r.copy, s) \in Command
        /\ Listening \in Reading /\ Listening.pc = "idle"
    BY <1>11, CommandTypes DEF SaveResult, Reading, Listening
  <2>2. row' \in [Cmd -> Command] /\ TaskOK'
    <3>1. CASE \E s \in Status : Saved(s) /\ UNCHANGED task
      BY <2>1, <3>1 DEF TaskOK
    <3>2. CASE Saved("pending") /\ Spawn(Attempt(r.cmd, Marked(r.copy, "pending"), {}))
      <4> DEFINE t == Attempt(r.cmd, Marked(r.copy, "pending"), {})
      <4>1. t \in Task /\ t.pc = "load" /\ t.cmd = r.cmd
        BY <2>1, TaskTypes DEF Attempt, Status
      <4>2. TaskOK'
        BY <2>1, <3>2, <4>1, SpawnType DEF TaskOK
      <4>3. QED
        BY <2>1, <3>2, <4>2 DEF Status
    <3>3. QED
      BY <1>11, <3>1, <3>2 DEF SaveResult, Status
  <2>3. QED
    BY <1>11, <2>1, <2>2 DEF SaveResult, TaskOK
<1>12. ASSUME NEW k \in Conn, Connect(k)
      PROVE  TypeOK'
  <2>1. TaskOK'
    BY <1>12, TaskTypes, SpawnType DEF Connect, TaskOK, Listing, Idle
  <2>2. QED
    BY <1>12, <2>1 DEF Connect, TaskOK
<1>13. ASSUME NEW k \in Conn, Unregister(k)
      PROVE  TypeOK'
  BY <1>13 DEF Unregister
<1>14. ASSUME NEW k \in Conn, Deliver(k)
      PROVE  TypeOK'
  <2>1. Head(chan[k]) \in Cmd /\ Tail(chan[k]) \in Seq(Cmd)
    BY <1>14 DEF Deliver
  <2>2. chan' \in [Conn -> Seq(Cmd)]
    BY <1>14, <2>1 DEF Deliver
  <2>3. CASE UNCHANGED job
    BY <1>14, <2>2, <2>3 DEF Deliver
  <2>4. CASE \E j \in Job : job' = [job EXCEPT ![j] = [pc |-> "received", cmd |-> Head(chan[k])]]
    BY <1>14, <2>1, <2>2, <2>4 DEF Deliver
  <2>5. QED
    BY <1>14, <2>3, <2>4 DEF Deliver
<1>15. CASE ScanTimeouts
  BY <1>15 DEF ScanTimeouts, ActiveRows, Held
<1>16. CASE SaveTimeout
  <2>1. PICK h \in expired : /\ row' = [row EXCEPT ![h.cmd] = Marked(h.copy, "timeout")]
                             /\ expired' = expired \ {h}
    BY <1>16 DEF SaveTimeout
  <2>2. h.cmd \in Cmd /\ Marked(h.copy, "timeout") \in Command
    BY CommandTypes DEF Held, Status
  <2>3. QED
    BY <1>16, <2>1, <2>2 DEF SaveTimeout
<1>17. CASE AgentDrops
  BY <1>17 DEF AgentDrops
<1>18. CASE AgentRestarts
  BY <1>18 DEF AgentRestarts, NoJob
<1>19. ASSUME NEW j \in Job, NEW s \in {"executing", "completed", "failed"},
              job[j].pc # "idle", Report(job[j].cmd, s)
       PROVE  up' \in [Conn -> Seq(ReportMsg)]
  <2> DEFINE m == [cmd |-> job[j].cmd, status |-> s]
  <2>1. m \in ReportMsg
    BY <1>19 DEF ReportMsg
  <2>2. CASE agentConn \in Conn /\ up' = [up EXCEPT ![agentConn] = Append(@, m)]
    BY <2>1, <2>2
  <2>3. QED
    BY <1>19, <2>2 DEF Report
<1>20. ASSUME NEW j \in Job, ReportExecuting(j)
       PROVE  TypeOK'
  BY <1>19, <1>20 DEF ReportExecuting
<1>21. ASSUME NEW j \in Job, Finish(j)
       PROVE  TypeOK'
  BY <1>19, <1>21 DEF Finish, NoJob
<1>22. CASE Crash
  BY <1>8, <1>22 DEF Crash
<1>23. CASE UNCHANGED vars
  BY <1>23 DEF vars, Task
<1>24. QED
  BY <1>1, <1>2, <1>3, <1>4, <1>5, <1>6, <1>7, <1>9, <1>10, <1>11, <1>12, <1>13, <1>14,
     <1>15, <1>16, <1>17, <1>18, <1>20, <1>21, <1>22, <1>23 DEF Next, BusStep

\* TypeOK for every number of commands, connections, goroutines and attempts.
THEOREM TypeCorrect == Spec => []TypeOK
<1>1. Init => TypeOK
  BY TypeInit
<1>2. TypeOK /\ [Next]_vars => TypeOK'
  BY TypeStep
<1>3. QED
  BY <1>1, <1>2, PTL DEF Spec
-----------------------------------------------------------------------------
(* Evidence.                                                               *)

LEMMA EvidenceInit == Init => Evidence
BY DEF Init, Evidence, RowEvidence, TaskEvidence, CopyEvidence, LinkEvidence,
       DispatchEvidence, CompletedWasExecuted, DeadLetterIsExhausted,
       Idle, Listening, NoJob, Absent

LEMMA HandedFacts ==
    /\ ~Handed(Absent)
    /\ \A copy \in Command : /\ Handed(Dispatched(copy))
                             /\ Dispatched(copy).status = "dispatched"
    /\ \A copy \in Command, s \in Status :
          /\ Handed(copy) => Handed(Marked(copy, s))
          /\ Marked(copy, s).status = s
          /\ Marked(copy, s).attempts = copy.attempts
BY DEF Handed, Absent, Dispatched, Marked, Command

\* The five statements that write a row: the row keeps the marks it has.
LEMMA RowStep ==
    ASSUME TypeOK, Evidence, [Next]_vars
    PROVE  /\ RowEvidence'
           /\ \A c \in Cmd : Handed(row[c]) => Handed(row[c])'
           /\ \A c \in Cmd : api[c] = "created" => api'[c] = "created"
           /\ succeeded \subseteq succeeded' /\ failed \subseteq failed'
<1> DEFINE Goal == /\ RowEvidence'
                   /\ \A c \in Cmd : Handed(row[c]) => Handed(row[c])'
                   /\ \A c \in Cmd : api[c] = "created" => api'[c] = "created"
                   /\ succeeded \subseteq succeeded' /\ failed \subseteq failed'
<1> USE DEF RowEvidence, DispatchEvidence, CompletedWasExecuted, DeadLetterIsExhausted
<1>1. RowEvidence /\ TaskEvidence /\ CopyEvidence
  BY DEF Evidence
<1>2. ASSUME NEW c \in Cmd, NEW new \in Command, row' = [row EXCEPT ![c] = new],
             Handed(row[c]) => Handed(new), UNCHANGED <<succeeded, failed>>, new.status # "absent",
             \/ api[c] = "created" /\ UNCHANGED api
             \/ api' = [api EXCEPT ![c] = "created"],
             new.status \notin {"absent", "pending"} => Handed(new),
             new.status = "completed" => c \in succeeded,
             new.status = "dead_letter" => c \in failed /\ new.attempts >= MaxAttempts
      PROVE  Goal
  BY <1>1, <1>2 DEF TypeOK, Handed
<1>3. ASSUME UNCHANGED row, \A c \in Cmd : api'[c] = "created" <=> api[c] = "created",
             succeeded \subseteq succeeded', failed \subseteq failed'
      PROVE  Goal
  BY <1>1, <1>3 DEF TypeOK, Handed
<1>4. ASSUME NEW c \in Cmd, CreateCommand(c)
      PROVE  Goal
  <2> DEFINE new == [status |-> "pending", attempts |-> 0, dispatched |-> FALSE,
                     createdAt |-> clock + 1]
  <2>1. new \in Command /\ row[c] = Absent
    BY <1>1, <1>4 DEF CreateCommand, Command, Status, TypeOK
  <2>2. row' = [row EXCEPT ![c] = new] /\ api' = [api EXCEPT ![c] = "created"]
        /\ UNCHANGED <<succeeded, failed>>
    BY <1>4 DEF CreateCommand, agentVars
  <2>3. QED
    BY <1>2, <2>1, <2>2, HandedFacts
<1>5. ASSUME NEW w \in Worker, SaveDispatched(w)
      PROVE  Goal
  <2>1. task[w].cmd \in Cmd /\ task[w].copy \in Command /\ api[task[w].cmd] = "created"
    BY <1>1, <1>5 DEF SaveDispatched, TypeOK, Task, TaskEvidence
  <2>2. Dispatched(task[w].copy) \in Command /\ Handed(Dispatched(task[w].copy))
        /\ Dispatched(task[w].copy).status = "dispatched"
    BY <2>1, CommandTypes, HandedFacts
  <2>3. row' = [row EXCEPT ![task[w].cmd] = Dispatched(task[w].copy)]
        /\ UNCHANGED <<api, succeeded, failed>>
    BY <1>5 DEF SaveDispatched, agentVars
  <2>4. QED
    BY <1>2, <2>1, <2>2, <2>3
<1>6. ASSUME NEW w \in Worker, RevertToPending(w)
      PROVE  Goal
  <2>1. /\ task[w].cmd \in Cmd /\ task[w].copy \in Command
        /\ api[task[w].cmd] = "created"
        /\ Handed(task[w].copy) /\ task[w].copy.status = "pending"
    BY <1>1, <1>6 DEF RevertToPending, TypeOK, Task, TaskEvidence
  <2>2. row' = [row EXCEPT ![task[w].cmd] = task[w].copy] /\ UNCHANGED <<api, succeeded, failed>>
    BY <1>6 DEF RevertToPending, agentVars
  <2>3. QED
    BY <1>2, <2>1, <2>2
<1>7. ASSUME NEW k \in Conn, SaveResult(k)
      PROVE  Goal
  <2> DEFINE r == reader[k]
  <2>1. /\ r.cmd \in Cmd /\ r.copy \in Command
        /\ Handed(r.copy) /\ Reported(r.cmd, r.status)
    BY <1>1, <1>7 DEF SaveResult, TypeOK, Reading, CopyEvidence
  <2>2. api[r.cmd] = "created"
    BY <1>1, <2>1, HandedFacts DEF Reported
  <2>3. PICK s \in Status :
          /\ row' = [row EXCEPT ![r.cmd] = Marked(r.copy, s)]
          /\ s \in {"executing", "completed", "pending", "dead_letter"}
          /\ s = "completed" => r.status = "completed"
          /\ s = "dead_letter" => r.status = "failed" /\ r.copy.attempts >= MaxAttempts
    <3>1. /\ r.copy.attempts \in Nat /\ MaxAttempts \in Nat
          /\ ~AttemptsLeft(r.copy) => r.copy.attempts >= MaxAttempts
      BY <2>1, BusAssumption DEF AttemptsLeft, Command
    <3>2. QED
      BY <1>7, <3>1 DEF SaveResult, Status
  <2>4. UNCHANGED <<api, succeeded, failed>>
    BY <1>7 DEF SaveResult, agentVars
  <2>5. /\ Marked(r.copy, s) \in Command /\ Handed(Marked(r.copy, s))
        /\ Marked(r.copy, s).status = s /\ Marked(r.copy, s).attempts = r.copy.attempts
    BY <2>1, CommandTypes, HandedFacts
  <2>6. QED
    BY <1>2, <2>1, <2>2, <2>3, <2>4, <2>5 DEF Reported
<1>8. CASE SaveTimeout
  <2>1. PICK h \in expired : row' = [row EXCEPT ![h.cmd] = Marked(h.copy, "timeout")]
    BY <1>8 DEF SaveTimeout
  <2>2. /\ h.cmd \in Cmd /\ h.copy \in Command
        /\ Handed(h.copy) /\ Handed(row[h.cmd])
    BY <1>1 DEF TypeOK, Held, CopyEvidence
  <2>3. /\ Marked(h.copy, "timeout") \in Command /\ Handed(Marked(h.copy, "timeout"))
        /\ Marked(h.copy, "timeout").status = "timeout"
    BY <2>2, CommandTypes, HandedFacts DEF Status
  <2>4. api[h.cmd] = "created" /\ UNCHANGED <<api, succeeded, failed>>
    BY <1>1, <1>8, <2>2, HandedFacts DEF SaveTimeout, agentVars
  <2>5. QED
    BY <1>2, <2>1, <2>2, <2>3, <2>4
<1>9. ASSUME NEW c \in Cmd, CheckIdempotency(c)
      PROVE  Goal
  BY <1>3, <1>9 DEF CheckIdempotency, agentVars, TypeOK
<1>10. CASE ServerDown
  BY <1>3, <1>10 DEF ServerDown, TypeOK
<1>11. ASSUME NEW w \in Worker, LoadConnection(w) \/ SendCommand(w) \/ ListPending(w)
       PROVE  Goal
  BY <1>3, <1>11 DEF LoadConnection, SendCommand, ListPending, agentVars
<1>12. ASSUME NEW k \in Conn, ReadResult(k) \/ Connect(k) \/ Unregister(k) \/ Deliver(k)
       PROVE  Goal
  BY <1>3, <1>12 DEF ReadResult, Connect, Unregister, Deliver, agentVars, busVars
<1>13. CASE ScanTimeouts \/ AgentDrops \/ AgentRestarts \/ UNCHANGED vars
  BY <1>3, <1>13 DEF ScanTimeouts, AgentDrops, AgentRestarts, vars, agentVars, busVars
<1>14. ASSUME NEW j \in Job, ReportExecuting(j) \/ Finish(j)
       PROVE  Goal
  BY <1>3, <1>14 DEF ReportExecuting, Finish, busVars
<1>15. QED
  BY <1>4, <1>5, <1>6, <1>7, <1>8, <1>9, <1>10, <1>11, <1>12, <1>13, <1>14
     DEF Next, BusStep, Crash, SendOnClosed

\* What a goroutine is left with when it takes the next of its list.
LEMMA ProceedFacts ==
    ASSUME TypeOK, NEW w \in Worker, NEW todo \in SUBSET Held, Proceed(w, todo)
    PROVE  /\ \A v \in Worker \ {w} : task'[v] = task[v]
           /\ task'[w].pc \in {"idle", "load"}
           /\ task'[w].todo \subseteq todo
           /\ task'[w].pc = "idle" => todo = {} /\ task'[w] = Idle
           /\ task'[w].pc = "load" => \E h \in todo : /\ task'[w].cmd = h.cmd
                                                      /\ task'[w].todo = todo \ {h}
<1>1. CASE todo = {} /\ task' = [task EXCEPT ![w] = Idle]
  BY <1>1 DEF Idle, TypeOK
<1>2. CASE \E h \in Earliest(todo) :
             task' = [task EXCEPT ![w] = Attempt(h.cmd, h.copy, todo \ {h})]
  <2>1. PICK h \in Earliest(todo) :
          task' = [task EXCEPT ![w] = Attempt(h.cmd, h.copy, todo \ {h})]
    BY <1>2
  <2>2. h \in todo
    BY <2>1 DEF Earliest
  <2>3. task'[w] = Attempt(h.cmd, h.copy, todo \ {h}) /\ \A v \in Worker \ {w} : task'[v] = task[v]
    BY <2>1 DEF TypeOK
  <2>4. QED
    BY <2>2, <2>3 DEF Attempt
<1>3. QED
  BY <1>1, <1>2 DEF Proceed

LEMMA SpawnFacts ==
    ASSUME TypeOK, NEW t, Spawn(t)
    PROVE  \E w \in Worker : /\ task[w].pc = "idle" /\ task'[w] = t
                            /\ \A v \in Worker \ {w} : task'[v] = task[v]
BY DEF Spawn, TypeOK

LEMMA TaskStep == TypeOK /\ Evidence /\ [Next]_vars => TaskEvidence'
<1> SUFFICES ASSUME TypeOK, Evidence, [Next]_vars
             PROVE  TaskEvidence'
  OBVIOUS
<1> DEFINE OK(t, a, r) ==
      /\ t.pc \notin {"idle", "list"} => a[t.cmd] = "created"
      /\ \A h \in t.todo : a[h.cmd] = "created"
      /\ t.pc \in {"send", "revert"} => Handed(t.copy) /\ Handed(r[t.cmd])
      /\ t.pc = "revert" => t.copy.status = "pending"
<1>1. /\ \A w \in Worker : OK(task[w], api, row)
      /\ \A c \in Cmd : Handed(row[c]) => Handed(row'[c])
      /\ \A c \in Cmd : api[c] = "created" => api'[c] = "created"
  BY RowStep DEF Evidence, TaskEvidence, Handed
<1>2. \A w \in Worker : /\ task[w].pc \notin {"idle", "list"} => task[w].cmd \in Cmd
                        /\ task[w].todo \in SUBSET Held
  BY DEF TypeOK, Task
<1>3. \A w \in Worker : OK(task[w], api', row')
  BY <1>1, <1>2 DEF Held
<1>4. ASSUME NEW w \in Worker, \A v \in Worker \ {w} : task'[v] = task[v],
             OK(task'[w], api', row')
      PROVE  TaskEvidence'
  BY <1>3, <1>4 DEF TaskEvidence, Handed
<1>5. ASSUME NEW w \in Worker, NEW todo \in SUBSET Held, Proceed(w, todo),
             \A h \in todo : api'[h.cmd] = "created"
      PROVE  TaskEvidence'
  BY <1>4, <1>5, ProceedFacts
<1>6. ASSUME NEW c \in Cmd, NEW copy, Spawn(Attempt(c, copy, {})), api'[c] = "created"
      PROVE  TaskEvidence'
  BY <1>4, <1>6, SpawnFacts DEF Attempt
<1>7. ASSUME UNCHANGED task
      PROVE  TaskEvidence'
  BY <1>3, <1>7 DEF TaskEvidence, Handed
<1>8. ASSUME NEW c \in Cmd, CheckIdempotency(c)
      PROVE  TaskEvidence'
  BY <1>7, <1>8 DEF CheckIdempotency
<1>9. ASSUME NEW c \in Cmd, CreateCommand(c)
      PROVE  TaskEvidence'
  BY <1>6, <1>9 DEF CreateCommand, TypeOK
<1>10. ASSUME NEW w \in Worker, LoadConnection(w)
       PROVE  TaskEvidence'
  <2>1. CASE Proceed(w, task[w].todo)
    BY <1>2, <1>3, <1>5, <2>1
  <2>2. CASE task' = [task EXCEPT ![w] = [@ EXCEPT !.pc = "save", !.via = registry]]
    <3>1. /\ task'[w].pc = "save" /\ task'[w].cmd = task[w].cmd /\ task'[w].todo = task[w].todo
          /\ \A v \in Worker \ {w} : task'[v] = task[v]
      BY <2>2 DEF TypeOK, Task
    <3>2. QED
      BY <1>3, <1>4, <1>10, <3>1 DEF LoadConnection
  <2>3. QED
    BY <1>10, <2>1, <2>2 DEF LoadConnection
<1>11. ASSUME NEW w \in Worker, SaveDispatched(w)
       PROVE  TaskEvidence'
  <2>1. /\ task'[w].pc = "send" /\ task'[w].cmd = task[w].cmd /\ task'[w].todo = task[w].todo
        /\ task'[w].copy = Dispatched(task[w].copy)
        /\ \A v \in Worker \ {w} : task'[v] = task[v]
    BY <1>11 DEF SaveDispatched, TypeOK, Task
  <2>2. task[w].copy \in Command /\ task[w].cmd \in Cmd
    BY <1>2, <1>11 DEF SaveDispatched, TypeOK, Task
  <2>3. row'[task[w].cmd] = Dispatched(task[w].copy)
    BY <1>11, <2>2 DEF SaveDispatched, TypeOK
  <2>4. QED
    BY <1>3, <1>4, <1>11, <2>1, <2>2, <2>3, HandedFacts DEF SaveDispatched
<1>12. ASSUME NEW w \in Worker, SendCommand(w)
       PROVE  TaskEvidence'
  <2>1. CASE Proceed(w, task[w].todo)
    BY <1>2, <1>3, <1>5, <2>1
  <2>2. CASE task' = [task EXCEPT ![w] = [task[w] EXCEPT !.pc = "revert",
                                                         !.copy = Marked(task[w].copy, "pending")]]
    <3>1. /\ task'[w].pc = "revert" /\ task'[w].cmd = task[w].cmd /\ task'[w].todo = task[w].todo
          /\ task'[w].copy = Marked(task[w].copy, "pending")
          /\ \A v \in Worker \ {w} : task'[v] = task[v]
      BY <2>2 DEF TypeOK, Task
    <3>2. task[w].copy \in Command /\ task[w].pc = "send"
      BY <1>12 DEF SendCommand, TypeOK, Task
    <3>3. QED
      BY <1>3, <1>4, <3>1, <3>2, HandedFacts DEF Status
  <2>3. QED
    BY <1>12, <2>1, <2>2 DEF SendCommand
<1>13. ASSUME NEW w \in Worker, RevertToPending(w)
       PROVE  TaskEvidence'
  BY <1>2, <1>3, <1>5, <1>13 DEF RevertToPending
<1>14. ASSUME NEW w \in Worker, ListPending(w)
       PROVE  TaskEvidence'
  <2> DEFINE P == {[cmd |-> c, copy |-> row[c]] : c \in {d \in Cmd : row[d].status = "pending"}}
  <2>1. P \in SUBSET Held
    BY DEF Held, TypeOK
  <2>2. \A h \in P : api'[h.cmd] = "created"
    BY <1>14 DEF ListPending, Evidence, RowEvidence, Absent
  <2>3. QED
    BY <1>5, <1>14, <2>1, <2>2 DEF ListPending
<1>15. ASSUME NEW k \in Conn, SaveResult(k)
       PROVE  TaskEvidence'
  <2>1. reader[k].cmd \in Cmd /\ api[reader[k].cmd] = "created"
    BY <1>15, HandedFacts
       DEF SaveResult, TypeOK, Evidence, CopyEvidence, Reported, RowEvidence
  <2>2. QED
    BY <1>6, <1>7, <1>15, <2>1 DEF SaveResult
<1>16. ASSUME NEW k \in Conn, Connect(k)
       PROVE  TaskEvidence'
  BY <1>4, <1>16, SpawnFacts DEF Connect, Listing, Idle
<1>17. CASE ServerDown
  BY <1>17 DEF ServerDown, TaskEvidence, Idle
<1>18. ASSUME NEW k \in Conn, ReadResult(k) \/ Unregister(k) \/ Deliver(k)
       PROVE  TaskEvidence'
  BY <1>7, <1>18 DEF ReadResult, Unregister, Deliver, busVars
<1>19. CASE ScanTimeouts \/ SaveTimeout \/ AgentDrops \/ AgentRestarts \/ UNCHANGED vars
  BY <1>7, <1>19 DEF ScanTimeouts, SaveTimeout, AgentDrops, AgentRestarts, vars, busVars
<1>20. ASSUME NEW j \in Job, ReportExecuting(j) \/ Finish(j)
       PROVE  TaskEvidence'
  BY <1>7, <1>20 DEF ReportExecuting, Finish, busVars
<1>21. QED
  BY <1>8, <1>9, <1>10, <1>11, <1>12, <1>13, <1>14, <1>15, <1>16, <1>17, <1>18, <1>19, <1>20
     DEF Next, BusStep, Crash, SendOnClosed

LEMMA CopyStep == TypeOK /\ Evidence /\ [Next]_vars => CopyEvidence'
<1> SUFFICES ASSUME TypeOK, Evidence, [Next]_vars
             PROVE  CopyEvidence'
  OBVIOUS
<1>1. /\ \A c \in Cmd : Handed(row[c]) => Handed(row'[c])
      /\ succeeded \subseteq succeeded' /\ failed \subseteq failed'
      /\ RowEvidence /\ CopyEvidence /\ LinkEvidence
  BY RowStep DEF Evidence, Handed
<1> DEFINE StillReported(c, s) == /\ Handed(row'[c])
                                  /\ s = "completed" => c \in succeeded'
                                  /\ s = "failed" => c \in failed'
<1>2. \A c \in Cmd : \A s : Reported(c, s) => StillReported(c, s)
  BY <1>1 DEF Reported
<1> DEFINE ReaderOK(k) == reader'[k].pc = "save" =>
                            /\ Handed(reader'[k].copy)
                            /\ StillReported(reader'[k].cmd, reader'[k].status)
           HeldOK(h) == Handed(h.copy) /\ Handed(row'[h.cmd])
<1>3. (\A k \in Conn : ReaderOK(k)) /\ (\A h \in expired' : HeldOK(h)) => CopyEvidence'
  BY DEF CopyEvidence, Handed, Reported
<1>4. ASSUME NEW k \in Conn, reader'[k] = reader[k]
      PROVE  ReaderOK(k)
  BY <1>1, <1>2, <1>4 DEF CopyEvidence, TypeOK
<1>5. ASSUME NEW h \in expired
      PROVE  HeldOK(h)
  BY <1>1, <1>5 DEF CopyEvidence, TypeOK, Held
<1>6. ASSUME UNCHANGED reader, expired' \subseteq expired
      PROVE  CopyEvidence'
  BY <1>3, <1>4, <1>5, <1>6
<1>7. ASSUME NEW k \in Conn, ReadResult(k)
      PROVE  CopyEvidence'
  <2> DEFINE r == Head(up[k])
             new == [pc |-> "save", cmd |-> r.cmd, status |-> r.status, copy |-> row[r.cmd]]
  <2>1. r = up[k][1] /\ 1 \in 1..Len(up[k]) /\ r.cmd \in Cmd
    <3>1. up[k] \in Seq(ReportMsg) /\ up[k] # <<>>
      BY <1>7 DEF ReadResult, TypeOK
    <3>2. r = up[k][1] /\ 1 \in 1..Len(up[k]) /\ r \in ReportMsg
      BY <3>1
    <3>3. QED
      BY <3>2 DEF ReportMsg
  <2>2. Reported(r.cmd, r.status)
    BY <1>1, <2>1 DEF LinkEvidence
  <2>3. /\ reader'[k] = Listening \/ reader'[k] = new
        /\ \A m \in Conn \ {k} : reader'[m] = reader[m]
        /\ UNCHANGED <<row, expired, succeeded, failed>>
    BY <1>7 DEF ReadResult, TypeOK, agentVars
  <2>4. ReaderOK(k)
    <3>1. CASE reader'[k] = Listening
      BY <3>1 DEF Listening
    <3>2. CASE reader'[k] = new
      <4>1. Handed(row[r.cmd]) /\ StillReported(r.cmd, r.status)
        BY <1>2, <2>1, <2>2 DEF Reported
      <4>2. QED
        BY <3>2, <4>1
    <3>3. QED
      BY <2>3, <3>1, <3>2
  <2>5. QED
    BY <1>3, <1>4, <1>5, <2>3, <2>4
<1>8. ASSUME NEW k \in Conn, SaveResult(k)
      PROVE  CopyEvidence'
  <2>1. /\ reader'[k] = Listening
        /\ \A m \in Conn \ {k} : reader'[m] = reader[m]
        /\ UNCHANGED expired
    BY <1>8 DEF SaveResult, TypeOK
  <2>2. ReaderOK(k)
    BY <2>1 DEF Listening
  <2>3. QED
    BY <1>3, <1>4, <1>5, <2>1, <2>2
<1>9. CASE ScanTimeouts
  <2>1. /\ expired' \subseteq ActiveRows
        /\ UNCHANGED <<row, reader>>
    BY <1>9 DEF ScanTimeouts
  <2>2. \A h \in ActiveRows : HeldOK(h)
    BY <1>1, <2>1 DEF ActiveRows, Active, RowEvidence, DispatchEvidence, Handed
  <2>3. QED
    BY <1>3, <1>4, <2>1, <2>2
<1>10. CASE SaveTimeout
  BY <1>6, <1>10 DEF SaveTimeout
<1>11. CASE ServerDown
  BY <1>11 DEF ServerDown, CopyEvidence, Listening
<1>12. ASSUME NEW c \in Cmd, CheckIdempotency(c) \/ CreateCommand(c)
       PROVE  CopyEvidence'
  BY <1>6, <1>12 DEF CheckIdempotency, CreateCommand
<1>13. ASSUME NEW w \in Worker, \/ LoadConnection(w) \/ SaveDispatched(w) \/ SendCommand(w)
                                \/ RevertToPending(w) \/ ListPending(w)
       PROVE  CopyEvidence'
  BY <1>6, <1>13 DEF LoadConnection, SaveDispatched, SendCommand, RevertToPending, ListPending
<1>14. ASSUME NEW k \in Conn, Connect(k) \/ Unregister(k) \/ Deliver(k)
       PROVE  CopyEvidence'
  BY <1>6, <1>14 DEF Connect, Unregister, Deliver, busVars
<1>15. CASE AgentDrops \/ AgentRestarts \/ UNCHANGED vars
  BY <1>6, <1>15 DEF AgentDrops, AgentRestarts, vars, busVars
<1>16. ASSUME NEW j \in Job, ReportExecuting(j) \/ Finish(j)
       PROVE  CopyEvidence'
  BY <1>6, <1>16 DEF ReportExecuting, Finish, busVars
<1>17. QED
  BY <1>7, <1>8, <1>9, <1>10, <1>11, <1>12, <1>13, <1>14, <1>15, <1>16
     DEF Next, BusStep, Crash, SendOnClosed

\* The elements of a tail are elements of the sequence.
LEMMA TailElements ==
    ASSUME NEW S, NEW s \in Seq(S), s # <<>>
    PROVE  \A i \in 1..Len(Tail(s)) : \E n \in 1..Len(s) : Tail(s)[i] = s[n]
<1>1. Len(Tail(s)) = Len(s) - 1 /\ \A i \in 1..Len(Tail(s)) : Tail(s)[i] = s[i + 1]
  OBVIOUS
<1>2. Len(s) \in Nat
  OBVIOUS
<1>3. QED
  BY <1>1, <1>2

LEMMA LinkStep == TypeOK /\ Evidence /\ [Next]_vars => LinkEvidence'
<1> SUFFICES ASSUME TypeOK, Evidence, [Next]_vars
             PROVE  LinkEvidence'
  OBVIOUS
<1>1. /\ \A c \in Cmd : Handed(row[c]) => Handed(row'[c])
      /\ succeeded \subseteq succeeded' /\ failed \subseteq failed'
      /\ TaskEvidence /\ LinkEvidence
  BY RowStep DEF Evidence, Handed
<1> DEFINE StillReported(c, s) == /\ Handed(row'[c])
                                  /\ s = "completed" => c \in succeeded'
                                  /\ s = "failed" => c \in failed'
<1>2. \A c \in Cmd : \A s : Reported(c, s) => StillReported(c, s)
  BY <1>1 DEF Reported
<1> DEFINE ChanOK(k) == \A i \in 1..Len(chan'[k]) : Handed(row'[chan'[k][i]])
           UpOK(k) == \A i \in 1..Len(up'[k]) : StillReported(up'[k][i].cmd, up'[k][i].status)
           JobOK(j) == job'[j].pc # "idle" => Handed(row'[job'[j].cmd])
<1>3. (\A k \in Conn : ChanOK(k) /\ UpOK(k)) /\ (\A j \in Job : JobOK(j)) => LinkEvidence'
  BY DEF LinkEvidence, Handed, Reported
<1>4. ASSUME NEW k \in Conn, chan'[k] = chan[k] \/ chan'[k] = <<>>
             \/ (chan[k] # <<>> /\ chan'[k] = Tail(chan[k]))
      PROVE  ChanOK(k)
  <2>1. \A i \in 1..Len(chan[k]) : chan[k][i] \in Cmd /\ Handed(row'[chan[k][i]])
    BY <1>1 DEF LinkEvidence, TypeOK
  <2>2. chan[k] \in Seq(Cmd)
    BY DEF TypeOK
  <2>3. \A i \in 1..Len(chan'[k]) : \E n \in 1..Len(chan[k]) : chan'[k][i] = chan[k][n]
    <3>1. CASE chan'[k] = chan[k] \/ chan'[k] = <<>>
      BY <3>1
    <3>2. CASE chan[k] # <<>> /\ chan'[k] = Tail(chan[k])
      BY <2>2, <3>2, TailElements
    <3>3. QED
      BY <1>4, <3>1, <3>2
  <2>4. QED
    BY <2>1, <2>3
<1>5. ASSUME NEW k \in Conn, up'[k] = up[k] \/ up'[k] = <<>>
             \/ (up[k] # <<>> /\ up'[k] = Tail(up[k]))
      PROVE  UpOK(k)
  <2>1. \A i \in 1..Len(up[k]) : /\ up[k][i] \in ReportMsg
                                /\ Reported(up[k][i].cmd, up[k][i].status)
    BY <1>1 DEF LinkEvidence, TypeOK
  <2>2. up[k] \in Seq(ReportMsg)
    BY DEF TypeOK
  <2>3. \A i \in 1..Len(up'[k]) : \E n \in 1..Len(up[k]) : up'[k][i] = up[k][n]
    <3>1. CASE up'[k] = up[k] \/ up'[k] = <<>>
      BY <3>1
    <3>2. CASE up[k] # <<>> /\ up'[k] = Tail(up[k])
      BY <2>2, <3>2, TailElements
    <3>3. QED
      BY <1>5, <3>1, <3>2
  <2>4. QED
    BY <1>2, <2>1, <2>3 DEF ReportMsg
<1>6. ASSUME NEW j \in Job, job'[j] = job[j] \/ job'[j].pc = "idle"
                            \/ (job[j].pc # "idle" /\ job'[j].cmd = job[j].cmd)
      PROVE  JobOK(j)
  BY <1>1, <1>6 DEF LinkEvidence, TypeOK
<1>7. ASSUME UNCHANGED chan, UNCHANGED up, UNCHANGED job
      PROVE  LinkEvidence'
  BY <1>3, <1>4, <1>5, <1>6, <1>7
<1>8. ASSUME NEW w \in Worker, SendCommand(w)
      PROVE  LinkEvidence'
  <2> DEFINE k == task[w].via
             c == task[w].cmd
  <2>1. k \in Conn /\ c \in Cmd /\ Handed(row'[c])
    BY <1>1, <1>8 DEF SendCommand, TypeOK, TaskEvidence
  <2>2. UNCHANGED <<up, job>> /\ (chan' = [chan EXCEPT ![k] = Append(@, c)] \/ UNCHANGED chan)
    BY <1>8 DEF SendCommand, agentVars
  <2>3. ASSUME chan' = [chan EXCEPT ![k] = Append(@, c)], NEW m \in Conn
        PROVE  ChanOK(m)
    <3>1. CASE m = k
      <4>1. chan'[k] = Append(chan[k], c) /\ chan[k] \in Seq(Cmd)
        BY <2>1, <2>3 DEF TypeOK
      <4>2. \A i \in 1..Len(chan'[k]) : chan'[k][i] = c \/ \E n \in 1..Len(chan[k]) : chan'[k][i] = chan[k][n]
        BY <4>1
      <4>3. \A n \in 1..Len(chan[k]) : chan[k][n] \in Cmd /\ Handed(row'[chan[k][n]])
        BY <1>1, <2>1, <4>1 DEF LinkEvidence
      <4>4. QED
        BY <2>1, <3>1, <4>2, <4>3
    <3>2. CASE m # k
      BY <1>4, <2>3, <3>2 DEF TypeOK
    <3>3. QED
      BY <3>1, <3>2
  <2>4. QED
    BY <1>3, <1>4, <1>5, <1>6, <2>2, <2>3
<1>9. ASSUME NEW k \in Conn, ReadResult(k)
      PROVE  LinkEvidence'
  <2>1. UNCHANGED <<chan, job>> /\ up[k] # <<>> /\ up' = [up EXCEPT ![k] = Tail(@)]
    BY <1>9 DEF ReadResult, agentVars
  <2>2. \A m \in Conn : up'[m] = up[m] \/ (up[m] # <<>> /\ up'[m] = Tail(up[m]))
    BY <2>1 DEF TypeOK
  <2>3. QED
    BY <1>3, <1>4, <1>5, <1>6, <2>1, <2>2
<1>10. ASSUME NEW k \in Conn, Unregister(k)
       PROVE  LinkEvidence'
  BY <1>3, <1>4, <1>5, <1>6, <1>10 DEF Unregister, TypeOK
<1>11. CASE ServerDown
  BY <1>3, <1>4, <1>5, <1>6, <1>11 DEF ServerDown
<1>12. ASSUME NEW k \in Conn, Deliver(k)
       PROVE  LinkEvidence'
  <2>1. chan[k] # <<>> /\ chan' = [chan EXCEPT ![k] = Tail(@)] /\ UNCHANGED up
    BY <1>12 DEF Deliver
  <2>2. \A m \in Conn : chan'[m] = chan[m] \/ (chan[m] # <<>> /\ chan'[m] = Tail(chan[m]))
    BY <2>1 DEF TypeOK
  <2>3. Handed(row'[Head(chan[k])])
    <3>1. Head(chan[k]) = chan[k][1] /\ 1 \in 1..Len(chan[k]) /\ Head(chan[k]) \in Cmd
      BY <2>1 DEF TypeOK
    <3>2. QED
      BY <1>1, <3>1 DEF LinkEvidence
  <2>4. \A j \in Job : JobOK(j)
    <3>1. CASE UNCHANGED job
      BY <1>6, <3>1
    <3>2. CASE \E j \in Job : job' = [job EXCEPT ![j] = [pc |-> "received", cmd |-> Head(chan[k])]]
      BY <1>6, <2>3, <3>2 DEF TypeOK
    <3>3. QED
      BY <1>12, <3>1, <3>2 DEF Deliver
  <2>5. QED
    BY <1>3, <1>4, <1>5, <2>1, <2>2, <2>4
<1>13. ASSUME NEW j \in Job, NEW s, Report(job[j].cmd, s), job[j].pc # "idle",
              s = "completed" => job[j].cmd \in succeeded',
              s = "failed" => job[j].cmd \in failed'
       PROVE  \A k \in Conn : UpOK(k)
  <2> DEFINE m == [cmd |-> job[j].cmd, status |-> s]
  <2>1. m.cmd = job[j].cmd /\ m.status = s /\ m.cmd \in Cmd /\ Handed(row'[m.cmd])
    BY <1>1, <1>13 DEF LinkEvidence, TypeOK
  <2>2. StillReported(m.cmd, m.status)
    BY <1>13, <2>1
  <2>3. CASE UNCHANGED up
    BY <1>5, <2>3
  <2>4. CASE agentConn \in Conn /\ up' = [up EXCEPT ![agentConn] = Append(@, m)]
    <3>1. SUFFICES ASSUME NEW k \in Conn
                   PROVE  UpOK(k)
      OBVIOUS
    <3>2. CASE k = agentConn
      <4>1. up'[k] = Append(up[k], m) /\ up[k] \in Seq(ReportMsg)
        BY <2>4, <3>2 DEF TypeOK
      <4>2. \A i \in 1..Len(up'[k]) : up'[k][i] = m \/ \E n \in 1..Len(up[k]) : up'[k][i] = up[k][n]
        BY <4>1
      <4>3. \A n \in 1..Len(up[k]) : StillReported(up[k][n].cmd, up[k][n].status)
        <5>1. \A n \in 1..Len(up[k]) : up[k][n].cmd \in Cmd
          <6>1. \A n \in 1..Len(up[k]) : up[k][n] \in ReportMsg
            BY <4>1
          <6>2. QED
            BY <6>1 DEF ReportMsg
        <5>2. QED
          BY <1>1, <1>2, <5>1 DEF LinkEvidence
      <4>4. QED
        BY <2>2, <4>2, <4>3
    <3>3. CASE k # agentConn
      BY <1>5, <2>4, <3>3 DEF TypeOK
    <3>4. QED
      BY <3>2, <3>3
  <2>5. QED
    BY <1>13, <2>3, <2>4 DEF Report, TypeOK
<1>14. ASSUME NEW j \in Job, ReportExecuting(j)
       PROVE  LinkEvidence'
  <2>1. \A k \in Conn : UpOK(k)
    BY <1>13, <1>14 DEF ReportExecuting
  <2>2. UNCHANGED chan /\ \A i \in Job : job'[i] = job[i] \/ (job[i].pc # "idle" /\ job'[i].cmd = job[i].cmd)
    BY <1>14 DEF ReportExecuting, TypeOK
  <2>3. QED
    BY <1>3, <1>4, <1>6, <2>1, <2>2
<1>15. ASSUME NEW j \in Job, Finish(j)
       PROVE  LinkEvidence'
  <2>1. \A k \in Conn : UpOK(k)
    BY <1>13, <1>15 DEF Finish
  <2>2. UNCHANGED chan /\ \A i \in Job : job'[i] = job[i] \/ job'[i].pc = "idle"
    BY <1>15 DEF Finish, TypeOK, NoJob
  <2>3. QED
    BY <1>3, <1>4, <1>6, <2>1, <2>2
<1>16. CASE AgentRestarts
  <2>1. UNCHANGED <<chan, up>> /\ \A i \in Job : job'[i].pc = "idle"
    BY <1>16 DEF AgentRestarts, linkVars, NoJob
  <2>2. QED
    BY <1>3, <1>4, <1>5, <1>6, <2>1
<1>17. ASSUME NEW c \in Cmd, CheckIdempotency(c) \/ CreateCommand(c)
       PROVE  LinkEvidence'
  BY <1>7, <1>17 DEF CheckIdempotency, CreateCommand, linkVars, agentVars
<1>18. ASSUME NEW w \in Worker, \/ LoadConnection(w) \/ SaveDispatched(w)
                                \/ RevertToPending(w) \/ ListPending(w)
       PROVE  LinkEvidence'
  BY <1>7, <1>18 DEF LoadConnection, SaveDispatched, RevertToPending, ListPending, linkVars, agentVars
<1>19. ASSUME NEW k \in Conn, SaveResult(k) \/ Connect(k)
       PROVE  LinkEvidence'
  BY <1>7, <1>19 DEF SaveResult, Connect, linkVars, agentVars
<1>20. CASE ScanTimeouts \/ SaveTimeout \/ AgentDrops \/ UNCHANGED vars
  BY <1>7, <1>20 DEF ScanTimeouts, SaveTimeout, AgentDrops, vars, linkVars, agentVars
<1>21. QED
  BY <1>8, <1>9, <1>10, <1>11, <1>12, <1>14, <1>15, <1>16, <1>17, <1>18, <1>19, <1>20
     DEF Next, BusStep, Crash, SendOnClosed

\* What the row of a command says of the agent is true, for every number of
\* commands, connections and goroutines, and every order of the stale saves.
THEOREM EvidenceCorrect == Spec => []Evidence
<1>1. Init => Evidence
  BY EvidenceInit
<1>2. TypeOK /\ Evidence /\ [Next]_vars => Evidence'
  BY RowStep, TaskStep, CopyStep, LinkStep DEF Evidence
<1>3. QED
  BY <1>1, <1>2, TypeCorrect, PTL DEF Spec

\* A row past pending has its DispatchedAt and its attempt.
THEOREM DispatchEvidenceCorrect == Spec => []DispatchEvidence
<1>1. Evidence => DispatchEvidence
  BY DEF Evidence, RowEvidence
<1>2. QED
  BY <1>1, EvidenceCorrect, PTL

\* A completed command was executed by the agent.
THEOREM CompletedWasExecutedCorrect == Spec => []CompletedWasExecuted
<1>1. Evidence => CompletedWasExecuted
  BY DEF Evidence, RowEvidence
<1>2. QED
  BY <1>1, EvidenceCorrect, PTL

\* A dead letter failed on the agent with all its attempts used.
THEOREM DeadLetterIsExhaustedCorrect == Spec => []DeadLetterIsExhausted
<1>1. Evidence => DeadLetterIsExhausted
  BY DEF Evidence, RowEvidence
<1>2. QED
  BY <1>1, EvidenceCorrect, PTL
-----------------------------------------------------------------------------
(* No lost wake-up.                                                        *)

LEMMA FreeSlotsStep == TypeOK /\ FreeSlots /\ [Next]_vars => FreeSlots'
<1> SUFFICES ASSUME TypeOK, FreeSlots, [Next]_vars
             PROVE  FreeSlots'
  OBVIOUS
<1> USE DEF FreeSlots
<1>1. ASSUME NEW w \in Worker, \A v \in Worker \ {w} : task'[v] = task[v],
             task'[w].pc = "idle" => task'[w].todo = {}
      PROVE  FreeSlots'
  BY <1>1
<1>2. ASSUME NEW w \in Worker, NEW todo \in SUBSET Held, Proceed(w, todo)
      PROVE  FreeSlots'
  BY <1>1, <1>2, ProceedFacts DEF Idle
<1>3. ASSUME NEW t, Spawn(t), t.pc # "idle"
      PROVE  FreeSlots'
  BY <1>1, <1>3, SpawnFacts
<1>4. ASSUME NEW w \in Worker, LoadConnection(w)
      PROVE  FreeSlots'
  <2>1. CASE Proceed(w, task[w].todo)
    BY <1>2, <2>1 DEF TypeOK, Task
  <2>2. CASE task' = [task EXCEPT ![w] = [@ EXCEPT !.pc = "save", !.via = registry]]
    BY <2>2 DEF TypeOK, Task
  <2>3. QED
    BY <1>4, <2>1, <2>2 DEF LoadConnection
<1>5. ASSUME NEW w \in Worker, SaveDispatched(w)
      PROVE  FreeSlots'
  BY <1>5 DEF SaveDispatched, TypeOK, Task
<1>6. ASSUME NEW w \in Worker, SendCommand(w)
      PROVE  FreeSlots'
  <2>1. CASE Proceed(w, task[w].todo)
    BY <1>2, <2>1 DEF TypeOK, Task
  <2>2. CASE task' = [task EXCEPT ![w] = [task[w] EXCEPT !.pc = "revert",
                                                         !.copy = Marked(task[w].copy, "pending")]]
    BY <2>2 DEF TypeOK, Task
  <2>3. QED
    BY <1>6, <2>1, <2>2 DEF SendCommand
<1>7. ASSUME NEW w \in Worker, RevertToPending(w)
      PROVE  FreeSlots'
  BY <1>2, <1>7 DEF RevertToPending, TypeOK, Task
<1>8. ASSUME NEW w \in Worker, ListPending(w)
      PROVE  FreeSlots'
  <2> DEFINE P == {[cmd |-> c, copy |-> row[c]] : c \in {d \in Cmd : row[d].status = "pending"}}
  <2>1. P \in SUBSET Held
    BY DEF Held, TypeOK
  <2>2. QED
    BY <1>2, <1>8, <2>1 DEF ListPending
<1>9. ASSUME NEW c \in Cmd, CreateCommand(c)
      PROVE  FreeSlots'
  BY <1>3, <1>9 DEF CreateCommand, Attempt
<1>10. ASSUME NEW k \in Conn, SaveResult(k)
       PROVE  FreeSlots'
  BY <1>3, <1>10 DEF SaveResult, Attempt
<1>11. ASSUME NEW k \in Conn, Connect(k)
       PROVE  FreeSlots'
  BY <1>3, <1>11 DEF Connect, Listing, Idle
<1>12. CASE ServerDown
  BY <1>12 DEF ServerDown, Idle
<1>13. CASE UNCHANGED task
  BY <1>13
<1>14. QED
  BY <1>4, <1>5, <1>6, <1>7, <1>8, <1>9, <1>10, <1>11, <1>12, <1>13
     DEF Next, BusStep, Crash, SendOnClosed, CheckIdempotency, ReadResult, Unregister, Deliver,
         ScanTimeouts, SaveTimeout, AgentDrops, AgentRestarts, ReportExecuting, Finish, vars, busVars

LEMMA WakeupStep == TypeOK /\ FreeSlots /\ NoLostWakeup /\ [Next]_vars => NoLostWakeup'
<1> SUFFICES ASSUME TypeOK, FreeSlots, NoLostWakeup, [Next]_vars
             PROVE  NoLostWakeup'
  OBVIOUS
<1> DEFINE Will(t, c) == \/ t.pc = "list"
                         \/ t.pc \in {"load", "save"} /\ t.cmd = c
                         \/ \E h \in t.todo : h.cmd = c
           Waits(c) == row[c].status = "pending" /\ registry # NoConn /\ c \notin reverted
           WaitsNext(c) == row'[c].status = "pending" /\ registry' # NoConn /\ c \notin reverted'
<1>1. \A c \in Cmd : Waits(c) => \E w \in Worker : Will(task[w], c)
  BY DEF NoLostWakeup, WillTry
<1>2. (\A c \in Cmd : WaitsNext(c) => \E w \in Worker : Will(task'[w], c)) => NoLostWakeup'
  BY DEF NoLostWakeup, WillTry
\* One goroutine moves: it keeps the commands it holds that still wait, and
\* takes every command that begins to wait.
<1>3. ASSUME NEW w \in Worker, \A v \in Worker \ {w} : task'[v] = task[v],
             \A c \in Cmd : WaitsNext(c) /\ Will(task[w], c) => Will(task'[w], c),
             \A c \in Cmd : WaitsNext(c) => Waits(c) \/ Will(task'[w], c)
      PROVE  NoLostWakeup'
  BY <1>1, <1>2, <1>3
<1>4. ASSUME UNCHANGED task, \A c \in Cmd : WaitsNext(c) => Waits(c)
      PROVE  NoLostWakeup'
  BY <1>1, <1>2, <1>4
<1>5. ASSUME NEW w \in Worker, NEW todo \in SUBSET Held, Proceed(w, todo),
             NEW c \in Cmd, \E h \in todo : h.cmd = c
      PROVE  Will(task'[w], c)
  BY <1>5, ProceedFacts
<1>6. ASSUME NEW t, Spawn(t),
             \A c \in Cmd : WaitsNext(c) => Waits(c) \/ Will(t, c)
      PROVE  NoLostWakeup'
  <2>1. PICK w \in Worker : /\ task[w].pc = "idle" /\ task'[w] = t
                            /\ \A v \in Worker \ {w} : task'[v] = task[v]
    BY <1>6, SpawnFacts
  <2>2. \A c \in Cmd : ~Will(task[w], c)
    BY <2>1 DEF FreeSlots
  <2>3. QED
    BY <1>3, <1>6, <2>1, <2>2
<1>7. ASSUME NEW c \in Cmd, CreateCommand(c)
      PROVE  NoLostWakeup'
  <2> DEFINE new == [status |-> "pending", attempts |-> 0, dispatched |-> FALSE,
                     createdAt |-> clock + 1]
  <2>1. /\ Spawn(Attempt(c, new, {})) /\ UNCHANGED <<registry, reverted>>
        /\ row' = [row EXCEPT ![c] = new]
    BY <1>7 DEF CreateCommand, linkVars
  <2>2. Will(Attempt(c, new, {}), c)
    BY DEF Attempt
  <2>3. \A d \in Cmd : WaitsNext(d) => Waits(d) \/ Will(Attempt(c, new, {}), d)
    BY <2>1, <2>2 DEF TypeOK
  <2>4. QED
    BY <1>6, <2>1, <2>3
<1>8. ASSUME NEW w \in Worker, LoadConnection(w)
      PROVE  NoLostWakeup'
  <2>1. UNCHANGED <<row, registry, reverted>>
    BY <1>8 DEF LoadConnection, linkVars
  <2>2. CASE registry = NoConn
    BY <1>2, <2>1, <2>2
  <2>3. CASE task' = [task EXCEPT ![w] = [@ EXCEPT !.pc = "save", !.via = registry]]
    <3>1. /\ task'[w].pc = "save" /\ task'[w].cmd = task[w].cmd /\ task'[w].todo = task[w].todo
          /\ \A v \in Worker \ {w} : task'[v] = task[v]
      BY <2>3 DEF TypeOK, Task
    <3>2. task[w].pc = "load"
      BY <1>8 DEF LoadConnection
    <3>3. QED
      BY <1>3, <2>1, <3>1, <3>2
  <2>4. QED
    BY <1>8, <2>2, <2>3 DEF LoadConnection
<1>9. ASSUME NEW w \in Worker, SaveDispatched(w)
      PROVE  NoLostWakeup'
  <2>1. /\ task[w].pc = "save" /\ task[w].cmd \in Cmd
        /\ task'[w].todo = task[w].todo
        /\ \A v \in Worker \ {w} : task'[v] = task[v]
    BY <1>9 DEF SaveDispatched, TypeOK, Task
  <2>2. /\ UNCHANGED <<registry, reverted>>
        /\ row'[task[w].cmd].status = "dispatched"
        /\ \A c \in Cmd \ {task[w].cmd} : row'[c] = row[c]
    BY <1>9, <2>1 DEF SaveDispatched, TypeOK, Dispatched, linkVars
  <2>3. QED
    BY <1>3, <2>1, <2>2
<1>10. ASSUME NEW w \in Worker, SendCommand(w)
       PROVE  NoLostWakeup'
  <2>1. UNCHANGED <<row, registry, reverted>> /\ task[w].pc = "send"
    BY <1>10 DEF SendCommand
  <2>2. CASE Proceed(w, task[w].todo)
    <3>1. task[w].todo \in SUBSET Held
      BY DEF TypeOK, Task
    <3>2. QED
      BY <1>3, <1>5, <2>1, <2>2, <3>1, ProceedFacts
  <2>3. CASE task' = [task EXCEPT ![w] = [task[w] EXCEPT !.pc = "revert",
                                                         !.copy = Marked(task[w].copy, "pending")]]
    <3>1. task'[w].todo = task[w].todo /\ \A v \in Worker \ {w} : task'[v] = task[v]
      BY <2>3 DEF TypeOK, Task
    <3>2. QED
      BY <1>3, <2>1, <3>1
  <2>4. QED
    BY <1>10, <2>2, <2>3 DEF SendCommand
<1>11. ASSUME NEW w \in Worker, RevertToPending(w)
       PROVE  NoLostWakeup'
  <2>1. /\ task[w].pc = "revert" /\ task[w].cmd \in Cmd /\ task[w].todo \in SUBSET Held
        /\ Proceed(w, task[w].todo) /\ UNCHANGED registry
        /\ reverted' = reverted \cup {task[w].cmd}
        /\ \A c \in Cmd \ {task[w].cmd} : row'[c] = row[c]
    BY <1>11 DEF RevertToPending, TypeOK, Task, linkVars
  <2>2. QED
    BY <1>3, <1>5, <2>1, ProceedFacts
<1>12. ASSUME NEW w \in Worker, ListPending(w)
       PROVE  NoLostWakeup'
  <2> DEFINE P == {[cmd |-> c, copy |-> row[c]] : c \in {d \in Cmd : row[d].status = "pending"}}
  <2>1. P \in SUBSET Held
    BY DEF Held, TypeOK
  <2>2. Proceed(w, P) /\ UNCHANGED <<row, registry, reverted>>
    BY <1>12 DEF ListPending, linkVars
  <2>3. \A c \in Cmd : row[c].status = "pending" => \E h \in P : h.cmd = c
    <3>1. SUFFICES ASSUME NEW c \in Cmd, row[c].status = "pending"
                   PROVE  \E h \in P : h.cmd = c
      OBVIOUS
    <3>2. [cmd |-> c, copy |-> row[c]] \in P /\ [cmd |-> c, copy |-> row[c]].cmd = c
      BY <3>1
    <3>3. QED
      BY <3>2
  <2>4. \A c \in Cmd : WaitsNext(c) => Will(task'[w], c)
    BY <1>5, <2>1, <2>2, <2>3
  <2>5. QED
    BY <1>3, <2>1, <2>2, <2>4, ProceedFacts
<1>13. ASSUME NEW k \in Conn, SaveResult(k)
       PROVE  NoLostWakeup'
  <2> DEFINE r == reader[k]
  <2>1. r.cmd \in Cmd /\ r.copy \in Command /\ UNCHANGED <<registry, reverted>>
    BY <1>13 DEF SaveResult, TypeOK, Reading, linkVars
  <2>2. ASSUME NEW s \in Status, row' = [row EXCEPT ![r.cmd] = Marked(r.copy, s)]
        PROVE  row'[r.cmd].status = s /\ \A c \in Cmd \ {r.cmd} : row'[c] = row[c]
    BY <2>1, <2>2, HandedFacts DEF TypeOK
  <2>3. ASSUME NEW s \in Status, s # "pending", UNCHANGED task,
               row' = [row EXCEPT ![r.cmd] = Marked(r.copy, s)]
        PROVE  NoLostWakeup'
    BY <1>4, <2>1, <2>2, <2>3
  <2>4. ASSUME row' = [row EXCEPT ![r.cmd] = Marked(r.copy, "pending")],
               Spawn(Attempt(r.cmd, Marked(r.copy, "pending"), {}))
        PROVE  NoLostWakeup'
    <3>1. "pending" \in Status
      BY DEF Status
    <3>2. Will(Attempt(r.cmd, Marked(r.copy, "pending"), {}), r.cmd)
      BY DEF Attempt
    <3>3. \A c \in Cmd : WaitsNext(c) => Waits(c) \/ Will(Attempt(r.cmd, Marked(r.copy, "pending"), {}), c)
      BY <2>1, <2>2, <2>4, <3>1, <3>2
    <3>4. QED
      BY <1>6, <2>4, <3>3
  <2>5. QED
    BY <1>13, <2>3, <2>4 DEF SaveResult, Status
<1>14. CASE SaveTimeout
  <2>1. PICK h \in expired : row' = [row EXCEPT ![h.cmd] = Marked(h.copy, "timeout")]
    BY <1>14 DEF SaveTimeout
  <2>2. h.cmd \in Cmd /\ h.copy \in Command
    BY DEF TypeOK, Held
  <2>3. row'[h.cmd].status = "timeout" /\ \A c \in Cmd \ {h.cmd} : row'[c] = row[c]
    BY <2>1, <2>2, HandedFacts DEF TypeOK, Status
  <2>4. UNCHANGED <<task, registry, reverted>>
    BY <1>14 DEF SaveTimeout, linkVars
  <2>5. QED
    BY <1>4, <2>2, <2>3, <2>4
<1>15. ASSUME NEW k \in Conn, Connect(k)
       PROVE  NoLostWakeup'
  <2>1. Spawn(Listing) /\ \A c \in Cmd : Will(Listing, c)
    BY <1>15 DEF Connect, Listing, Idle
  <2>2. QED
    BY <1>6, <2>1
<1>16. CASE ServerDown
  BY <1>2, <1>16 DEF ServerDown
<1>17. ASSUME NEW k \in Conn, Unregister(k)
       PROVE  NoLostWakeup'
  BY <1>2, <1>17 DEF Unregister
<1>18. CASE UNCHANGED <<task, row, registry, reverted>>
  BY <1>4, <1>18
<1>19. QED
  BY <1>7, <1>8, <1>9, <1>10, <1>11, <1>12, <1>13, <1>14, <1>15, <1>16, <1>17, <1>18
     DEF Next, BusStep, Crash, SendOnClosed, CheckIdempotency, ReadResult, Deliver, ScanTimeouts,
         AgentDrops, AgentRestarts, ReportExecuting, Finish, vars, busVars, linkVars

\* While the agent is registered, a pending command the full channel did not
\* put back is in the hands of a goroutine that will dispatch it.
THEOREM NoLostWakeupCorrect == Spec => []NoLostWakeup
<1>1. Init => FreeSlots /\ NoLostWakeup
  BY DEF Init, FreeSlots, NoLostWakeup, Idle
<1>2. TypeOK /\ FreeSlots /\ NoLostWakeup /\ [Next]_vars => (FreeSlots /\ NoLostWakeup)'
  BY FreeSlotsStep, WakeupStep
<1>3. QED
  BY <1>1, <1>2, TypeCorrect, PTL DEF Spec

\* The registry is emptied by every clean-up and by the end of the process, so
\* it never names a connection whose channel is closed.
THEOREM RegisteredIsOpenCorrect == Spec => []RegisteredIsOpen
<1>1. Init => RegisteredIsOpen
  BY DEF Init, RegisteredIsOpen
<1>2. TypeOK /\ RegisteredIsOpen /\ [Next]_vars => RegisteredIsOpen'
  <2> SUFFICES ASSUME TypeOK, RegisteredIsOpen, [Next]_vars
               PROVE  RegisteredIsOpen'
    OBVIOUS
  <2>1. ASSUME NEW k \in Conn, Connect(k)
        PROVE  RegisteredIsOpen'
    BY <2>1 DEF Connect, RegisteredIsOpen, TypeOK
  <2>2. ASSUME NEW k \in Conn, Unregister(k)
        PROVE  RegisteredIsOpen'
    BY <2>2 DEF Unregister, RegisteredIsOpen
  <2>3. CASE ServerDown
    BY <2>3 DEF ServerDown, RegisteredIsOpen
  <2>4. CASE UNCHANGED <<registry, conn>>
    BY <2>4 DEF RegisteredIsOpen
  <2>5. ASSUME NEW c \in Cmd, CheckIdempotency(c) \/ CreateCommand(c)
        PROVE  UNCHANGED <<registry, conn>>
    BY <2>5 DEF CheckIdempotency, CreateCommand, linkVars
  <2>6. ASSUME NEW w \in Worker, BusStep(w)
        PROVE  UNCHANGED <<registry, conn>> \/ ServerDown
    BY <2>6 DEF BusStep, LoadConnection, SaveDispatched, SendCommand, RevertToPending,
                ListPending, SendOnClosed, linkVars
  <2>7. ASSUME NEW k \in Conn, ReadResult(k) \/ SaveResult(k) \/ Deliver(k)
        PROVE  UNCHANGED <<registry, conn>>
    BY <2>7 DEF ReadResult, SaveResult, Deliver, linkVars
  <2>8. CASE ScanTimeouts \/ SaveTimeout \/ AgentDrops \/ AgentRestarts \/ UNCHANGED vars
    <3>1. UNCHANGED <<registry, conn>>
      BY <2>8 DEF ScanTimeouts, SaveTimeout, AgentDrops, AgentRestarts, vars, linkVars
    <3>2. QED
      BY <2>4, <3>1
  <2>9. ASSUME NEW j \in Job, ReportExecuting(j) \/ Finish(j)
        PROVE  UNCHANGED <<registry, conn>>
    BY <2>9 DEF ReportExecuting, Finish
  <2>10. QED
    BY <2>1, <2>2, <2>3, <2>4, <2>5, <2>6, <2>7, <2>8, <2>9 DEF Next, Crash
<1>3. QED
  BY <1>1, <1>2, TypeCorrect, PTL DEF Spec
-----------------------------------------------------------------------------
(* The bus implements CommandContract.                                     *)
LEMMA ContractStep == TypeOK /\ Evidence /\ [Next]_vars => [Contract!Next]_Contract!vars
<1> SUFFICES ASSUME TypeOK, Evidence, [Next]_vars
             PROVE  Contract!Next \/ UNCHANGED Contract!vars
  OBVIOUS
<1> DEFINE Goal == Contract!Next \/ UNCHANGED Contract!vars
           St(r) == [c \in Cmd |-> r[c].status]
           Hd(r) == {c \in Cmd : Handed(r[c])}
<1> USE DEF Contract!Next, Contract!vars, Contract!Show
<1>1. /\ \A c \in Cmd : Handed(row[c]) => Handed(row'[c])
      /\ RowEvidence /\ TaskEvidence /\ CopyEvidence /\ LinkEvidence
  BY RowStep DEF Evidence, Handed
<1>2. ASSUME UNCHANGED row, UNCHANGED <<succeeded, failed>>
      PROVE  Goal
  BY <1>2 DEF Handed
\* A row is saved: the mapped variables change at that command only.
<1>3. ASSUME NEW c \in Cmd, NEW new \in Command, row' = [row EXCEPT ![c] = new]
      PROVE  St(row') = [St(row) EXCEPT ![c] = new.status]
  BY <1>3 DEF TypeOK
<1>4. ASSUME NEW c \in Cmd, NEW new \in Command, row' = [row EXCEPT ![c] = new],
             Handed(row[c]), Handed(new), UNCHANGED <<succeeded, failed>>,
             new.status \in {"pending", "executing", "timeout", "completed", "dead_letter"},
             new.status = "completed" => c \in succeeded,
             new.status = "dead_letter" => c \in failed
      PROVE  Goal
  <2>1. Hd(row') = Hd(row) /\ c \in Hd(row)
    BY <1>4 DEF TypeOK
  <2>2. St(row') = [St(row) EXCEPT ![c] = new.status]
    BY <1>3, <1>4
  <2>3. Contract!Settle(c, new.status)
    BY <1>4, <2>1, <2>2 DEF Contract!Settle, Contract!Reason, Handed
  <2>4. QED
    BY <1>4, <2>3
<1>5. ASSUME NEW c \in Cmd, CreateCommand(c)
      PROVE  Goal
  <2> DEFINE new == [status |-> "pending", attempts |-> 0, dispatched |-> FALSE,
                     createdAt |-> clock + 1]
  <2>1. /\ new \in Command /\ new.status = "pending" /\ ~Handed(new)
        /\ row[c].status = "absent" /\ ~Handed(row[c])
        /\ row' = [row EXCEPT ![c] = new] /\ UNCHANGED <<succeeded, failed>>
    BY <1>1, <1>5 DEF CreateCommand, RowEvidence, Absent, Handed, Command, Status, TypeOK, agentVars
  <2>2. St(row') = [St(row) EXCEPT ![c] = "pending"] /\ St(row)[c] = "absent"
    BY <1>3, <2>1
  <2>3. Hd(row') = Hd(row)
    BY <2>1 DEF TypeOK
  <2>4. Contract!Submit(c)
    BY <2>1, <2>2, <2>3 DEF Contract!Submit, Handed
  <2>5. QED
    BY <2>4
<1>6. ASSUME NEW w \in Worker, SaveDispatched(w), NEW c \in Cmd, c = task[w].cmd
      PROVE  Goal
  <2> DEFINE new == Dispatched(task[w].copy)
  <2>1. task[w].copy \in Command /\ api[c] = "created"
    BY <1>1, <1>6 DEF SaveDispatched, TypeOK, Task, TaskEvidence
  <2>2. new \in Command /\ Handed(new) /\ new.status = "dispatched"
    BY <2>1, CommandTypes, HandedFacts
  <2>3. row' = [row EXCEPT ![c] = new] /\ UNCHANGED <<succeeded, failed>>
    BY <1>6 DEF SaveDispatched, agentVars
  <2>4. St(row') = [St(row) EXCEPT ![c] = "dispatched"]
    BY <1>3, <2>1, <2>2, <2>3
  <2>5. Hd(row') = Hd(row) \cup {c}
    BY <2>1, <2>2, <2>3 DEF TypeOK
  <2>6. CASE St(row)[c] # "absent"
    <3>1. Contract!Hand(c)
      BY <2>3, <2>4, <2>5, <2>6 DEF Contract!Hand, Handed
    <3>2. QED
      BY <3>1
  <2>7. row[c].status # "absent"
    BY <1>1, <2>1 DEF RowEvidence
  <2>8. QED
    BY <2>1, <2>6, <2>7
<1>7. ASSUME NEW w \in Worker, SaveDispatched(w)
      PROVE  Goal
  <2>1. task[w].cmd \in Cmd
    BY <1>7 DEF SaveDispatched, TypeOK
  <2>2. QED
    BY <1>7, <1>6, <2>1
<1>8. ASSUME NEW w \in Worker, RevertToPending(w)
      PROVE  Goal
  <2>1. /\ task[w].cmd \in Cmd /\ task[w].copy \in Command
        /\ Handed(task[w].copy) /\ Handed(row[task[w].cmd]) /\ task[w].copy.status = "pending"
        /\ row' = [row EXCEPT ![task[w].cmd] = task[w].copy]
        /\ UNCHANGED <<succeeded, failed>>
    BY <1>1, <1>8 DEF RevertToPending, TypeOK, Task, TaskEvidence, agentVars
  <2>2. QED
    BY <1>4, <2>1
<1>9. ASSUME NEW k \in Conn, SaveResult(k)
      PROVE  Goal
  <2> DEFINE r == reader[k]
  <2>1. /\ r.cmd \in Cmd /\ r.copy \in Command
        /\ Handed(r.copy) /\ Reported(r.cmd, r.status)
    BY <1>1, <1>9 DEF SaveResult, TypeOK, Reading, CopyEvidence
  <2>2. PICK s \in Status :
          /\ row' = [row EXCEPT ![r.cmd] = Marked(r.copy, s)]
          /\ s \in {"executing", "completed", "pending", "dead_letter"}
          /\ s = "completed" => r.status = "completed"
          /\ s = "dead_letter" => r.status = "failed"
    BY <1>9 DEF SaveResult, Status
  <2>3. UNCHANGED <<succeeded, failed>>
    BY <1>9 DEF SaveResult, agentVars
  <2>4. /\ Marked(r.copy, s) \in Command /\ Handed(Marked(r.copy, s))
        /\ Marked(r.copy, s).status = s
    BY <2>1, CommandTypes, HandedFacts
  <2>5. QED
    BY <1>4, <2>1, <2>2, <2>3, <2>4 DEF Reported
<1>10. CASE SaveTimeout
  <2>1. PICK h \in expired : row' = [row EXCEPT ![h.cmd] = Marked(h.copy, "timeout")]
    BY <1>10 DEF SaveTimeout
  <2>2. /\ h.cmd \in Cmd /\ h.copy \in Command
        /\ Handed(h.copy) /\ Handed(row[h.cmd])
    BY <1>1 DEF TypeOK, Held, CopyEvidence
  <2>3. /\ Marked(h.copy, "timeout") \in Command /\ Handed(Marked(h.copy, "timeout"))
        /\ Marked(h.copy, "timeout").status = "timeout"
    BY <2>2, CommandTypes, HandedFacts DEF Status
  <2>4. UNCHANGED <<succeeded, failed>>
    BY <1>10 DEF SaveTimeout, agentVars
  <2>5. QED
    BY <1>4, <2>1, <2>2, <2>3, <2>4
<1>11. ASSUME NEW j \in Job, Finish(j)
       PROVE  Goal
  <2>1. /\ job[j].cmd \in Cmd /\ Handed(row[job[j].cmd]) /\ UNCHANGED row
        /\ \/ succeeded' = succeeded \cup {job[j].cmd} /\ UNCHANGED failed
           \/ failed' = failed \cup {job[j].cmd} /\ UNCHANGED succeeded
    BY <1>1, <1>11 DEF Finish, TypeOK, LinkEvidence, busVars
  <2>2. St(row') = St(row) /\ Hd(row') = Hd(row) /\ job[j].cmd \in Hd(row)
    BY <2>1
  <2>3. Contract!Run(job[j].cmd)
    BY <2>1, <2>2 DEF Contract!Run, Handed
  <2>4. \A d \in Cmd : Contract!Run(d) => Contract!Next
    OBVIOUS
  <2>5. QED
    BY <2>1, <2>3, <2>4
<1>12. ASSUME NEW c \in Cmd, CheckIdempotency(c)
       PROVE  Goal
  BY <1>2, <1>12 DEF CheckIdempotency, agentVars
<1>13. ASSUME NEW w \in Worker, LoadConnection(w) \/ SendCommand(w) \/ ListPending(w)
       PROVE  Goal
  BY <1>2, <1>13 DEF LoadConnection, SendCommand, ListPending, agentVars
<1>14. ASSUME NEW k \in Conn, ReadResult(k) \/ Connect(k) \/ Unregister(k) \/ Deliver(k)
       PROVE  Goal
  BY <1>2, <1>14 DEF ReadResult, Connect, Unregister, Deliver, agentVars, busVars
<1>15. CASE ScanTimeouts \/ AgentDrops \/ AgentRestarts \/ ServerDown \/ UNCHANGED vars
  BY <1>2, <1>15 DEF ScanTimeouts, AgentDrops, AgentRestarts, ServerDown, vars, agentVars, busVars
<1>16. ASSUME NEW j \in Job, ReportExecuting(j)
       PROVE  Goal
  BY <1>2, <1>16 DEF ReportExecuting, busVars
<1>17. Next => Goal
  BY <1>5, <1>7, <1>8, <1>9, <1>10, <1>11, <1>12, <1>13, <1>14, <1>15, <1>16
     DEF Next, BusStep, Crash, SendOnClosed
<1>18. QED
  BY <1>15, <1>17

\* The bus implements its contract, for every value of the constants.
THEOREM ContractCorrect == Spec => ImplementsContract
<1>1. Init => Contract!Init
  BY HandedFacts DEF Init, Contract!Init, Handed, Absent
<1>2. TypeOK /\ Evidence /\ [Next]_vars => [Contract!Next]_Contract!vars
  BY ContractStep
<1>3. QED
  BY <1>1, <1>2, TypeCorrect, EvidenceCorrect, PTL DEF Spec, ImplementsContract, Contract!Spec
=============================================================================
