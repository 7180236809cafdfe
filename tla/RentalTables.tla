---------------------------- MODULE RentalTables ----------------------------
(***************************************************************************)
(* The tables that billing (internal/billing) and the customer service     *)
(* (internal/customer) share, and the requests under way.                  *)
(*                                                                         *)
(* The database has one connection: a statement or a transaction is        *)
(* atomic, a request made of several is not.                               *)
(***************************************************************************)
EXTENDS Naturals, FiniteSets

CONSTANTS Customer, Plan, Sub, Invoice, Alloc, Proxy, Key, \* rows, each created once
          Req,         \* requests in flight (bound)
          Nobody,
          Nothing,
          MaxProxies   \* the quota of every plan

ASSUME RentalAssumption ==
    /\ Nobody \notin Customer
    /\ Nothing \notin Sub \cup Invoice \cup Alloc \cup Proxy \cup Key
    /\ MaxProxies \in Nat \ {0}
    /\ IsFiniteSet(Req) /\ IsFiniteSet(Alloc)

VARIABLES account, \* account[c]: status of the customer, or "none"
          plan,    \* plan[p]: status of the commercial plan, or "none"
          legacy,  \* customers with an active subscription of the first kind
          sub,     \* the commercial subscriptions
          alloc,   \* the proxies given to customers
          proc     \* proc[q]: where a request stands

tables == <<account, plan, legacy, sub, alloc>>
-----------------------------------------------------------------------------
\* "closed" stands for suspended, expired and cancelled, which the code
\* treats alike; current says that the present is within the dates.
NoSub   == [status |-> "none", customer |-> Nobody, plan |-> Nothing, current |-> FALSE]
NoAlloc == [status |-> "none", customer |-> Nobody, proxy |-> Nothing]

Idle == [pc |-> "idle", next |-> "none", who |-> Nobody, on |-> Nothing, via |-> Nothing]

At(q, pc)   == proc[q].pc = pc
Goto(q, pc) == proc' = [proc EXCEPT ![q].pc = pc]
Done(q)     == proc' = [proc EXCEPT ![q] = Idle]
Enter(q, pc, next, who, on, via) ==
    /\ At(q, "idle")
    /\ proc' = [proc EXCEPT ![q] = [pc |-> pc, next |-> next, who |-> who, on |-> on, via |-> via]]

TablesInit == /\ account = [c \in Customer |-> "none"]
              /\ plan = [p \in Plan |-> "none"]
              /\ legacy = {}
              /\ sub = [s \in Sub |-> NoSub]
              /\ alloc = [a \in Alloc |-> NoAlloc]
              /\ proc = [q \in Req |-> Idle]

\* ActiveCommercialSubscription looks at one of these, the last to expire
\* (any of them here), whose plan must be active too.
Subscribed(c) == {s \in Sub : sub[s].customer = c /\ sub[s].status = "active" /\ sub[s].current}
Entitles(s) == plan[sub[s].plan] = "active"

Active(c) == {a \in Alloc : alloc[a].customer = c /\ alloc[a].status = "active"}

\* SuspendExistingAllocations: only active rows are suspended.
SuspendActive(c) == [a \in Alloc |-> IF a \in Active(c) THEN [alloc[a] EXCEPT !.status = "suspended"]
                                                       ELSE alloc[a]]
=============================================================================
