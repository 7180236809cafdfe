--------------------------- MODULE CommandContract ---------------------------
(***************************************************************************)
(* What the command bus promises of an agent_commands row to those who     *)
(* read it (GET /api/commands/:id, the dashboard), with no goroutine,      *)
(* connection or stale copy in sight.                                      *)
(*                                                                         *)
(* The promise is weaker than the names of the statuses suggest: a status  *)
(* can be left again, the terminal ones included.  What does hold is that  *)
(* a status is only ever given for a reason that has really occurred: the  *)
(* command was handed to a connection, the agent finished it, or an        *)
(* execution of it failed on the agent.                                    *)
(***************************************************************************)
CONSTANT Cmd

VARIABLES status,    \* status[c] as the table shows it
          handed,    \* commands that were handed to a connection
          succeeded, \* commands the agent has executed
          failed     \* commands that failed on the agent

vars == <<status, handed, succeeded, failed>>

Init == /\ status = [c \in Cmd |-> "absent"]
        /\ handed = {}
        /\ succeeded = {}
        /\ failed = {}

Show(c, s) == status' = [status EXCEPT ![c] = s]

Submit(c) == /\ status[c] = "absent"
             /\ Show(c, "pending")
             /\ UNCHANGED <<handed, succeeded, failed>>

Hand(c) == /\ status[c] # "absent"
           /\ Show(c, "dispatched")
           /\ handed' = handed \cup {c}
           /\ UNCHANGED <<succeeded, failed>>

\* The statuses a handed command may show, each with its reason.
Reason(c, s) == \/ s \in {"pending", "executing", "timeout"}
                \/ s = "completed" /\ c \in succeeded
                \/ s = "dead_letter" /\ c \in failed

Settle(c, s) == /\ c \in handed
                /\ Reason(c, s)
                /\ Show(c, s)
                /\ UNCHANGED <<handed, succeeded, failed>>

\* The agent finishes an execution, well or not.
Run(c) == /\ c \in handed
          /\ \/ succeeded' = succeeded \cup {c} /\ UNCHANGED failed
             \/ failed' = failed \cup {c} /\ UNCHANGED succeeded
          /\ UNCHANGED <<status, handed>>

Next == \E c \in Cmd :
           \/ Submit(c) \/ Hand(c) \/ Run(c)
           \/ \E s \in {"pending", "executing", "timeout", "completed", "dead_letter"} : Settle(c, s)

Spec == Init /\ [][Next]_vars
==============================================================================
