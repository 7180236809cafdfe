--------------------------- MODULE MCAgentPresence ---------------------------
(* Instances of AgentPresence for TLC.                                     *)
EXTENDS AgentPresence, TLC

\* Connections, request slots and tokens are interchangeable.
Interchangeable == Permutations(Conn) \cup Permutations(Req) \cup Permutations(Token)

Quiet(p) == proc[p].pc \in {"idle", "closed"}

\* Bound: two requests overlap only while no connection is open and the sweep
\* rests; one of them runs beside two connections and the sweep.
Focus == (\A q \in Req : ~Quiet(q)) => (\A k \in Conn : Quiet(k)) /\ sweep = {} /\ marking = {}
==============================================================================
