------------------------------ MODULE MCRouting ------------------------------
(* Instances of Routing for TLC.                                           *)
EXTENDS Routing, TLC

OwnAgent == CHOOSE f \in [Proxy -> Agent] : IsInjective(f)
OnePool == [p \in Proxy |-> CHOOSE o \in Pool : TRUE]
AllFit == [k \in Key |-> Proxy]
Durations == [sticky_30m |-> 1, sticky_6h |-> 2]

\* Proxies are exchanged together with their agents.
Alike == {f \in Permutations(Proxy \cup Agent \cup Req) :
            /\ \A x \in Proxy : f[x] \in Proxy /\ AgentOf[f[x]] = f[AgentOf[x]]
            /\ \A q \in Req : f[q] \in Req}

Unusual == Cardinality(offline) + Cardinality({p \in Proxy : status[p] # "running"})
              + Cardinality({p \in Proxy : checks[p] # <<>>}) + Cardinality({p \in Proxy : load[p] # 0})
              + Cardinality({k \in Key : reserved[k] # {}})

Syncs == {q \in Req : At(q, "sync") \/ q \in Unwritten}
Lists == {q \in Req : proc[q].mode = "list"}
Chosen(k) == bound[k] # NoBinding \/ k \in mixed \/ \E q \in Req : proc[q].key = k

UsualRow == [score |-> 70, health |-> "healthy", status |-> "active", load |-> 0]
Odd == {p \in Proxy : ~({member[p], judged[p]} \subseteq {NoMember, UsualRow})}

\* Proxies are deleted and inserted again, and nothing else happens to them.
Plain == /\ offline = {}
         /\ \A p \in Proxy : /\ checks[p] = <<>> /\ load[p] = 0 /\ status[p] \in {"none", "running"}
                             /\ member[p].score \in {0, 70} /\ member[p].load = 0

\* In error, and the agent offline.
Both == {p \in Proxy : status[p] = "error" /\ AgentOf[p] \in offline}

\* Bound while no proxy is selected: one dashboard is asked for, nothing is
\* reserved, and one thing is unusual at a time, two when a score is first
\* calculated. Beside the dashboard another request writes rows while proxies are
\* deleted and inserted; while anything else happens to them a request is alone,
\* and one row at most is not the usual one.
RowsAlone ==
    /\ Cardinality(Lists) <= 1
    /\ \A k \in Key : reserved[k] = {}
    /\ \/ Plain /\ Unusual <= 1
       \/ /\ Unusual <= (IF Odd \cup Lists = {} /\ Both # {} THEN 2 ELSE 1)
          /\ Cardinality(Syncs \cup Lists) <= 1
          /\ Cardinality(Odd) <= 1
          /\ \A q \in Syncs : proc[q].listed = status
          /\ Lists # {} => /\ offline = {}
                          /\ \A p \in Proxy : /\ checks[p] = <<>> /\ load[p] = 0 /\ status[p] # "stopped"
                                              /\ member[p].score \in {0, 25, 70} /\ member[p].load = 0

\* Bound while proxies are selected, which reads no member's row: these are the
\* usual ones, one key is in use, one request at a time writes rows, one at most
\* is for no session, and none runs beside them. One thing is unusual for a
\* customer's session that is not mixed, and nothing while rows are written.
Selections ==
    /\ \A p \in Proxy : member[p] = UsualRow
    /\ Cardinality(Syncs) <= 1
    /\ \A q \in Req : At(q, "idle") \/ proc[q].key # Nothing
    /\ \A j, k \in Key : Chosen(j) /\ Chosen(k) => j = k
    /\ Cardinality({q \in Req : proc[q].key # Nothing /\ proc[q].mode = "rotating"}) <= 1
    /\ Unusual <= (IF Syncs # {} \/ mixed # {} \/ \E k \in Anonymous : Chosen(k) THEN 0 ELSE 1)

Focus == IF \E k \in Key : Chosen(k) THEN Selections ELSE RowsAlone
=============================================================================
