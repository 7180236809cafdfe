------------------------------- MODULE Rental -------------------------------
(***************************************************************************)
(* Billing and the customer service over the tables they share.            *)
(***************************************************************************)
EXTENDS Billing, Allocation

vars == <<tables, proc, books, custody>>

Init == TablesInit /\ BillingInit /\ AllocationInit

Next == \/ BillingNext /\ UNCHANGED custody
        \/ AllocationNext /\ UNCHANGED books

Spec == Init /\ [][Next]_vars
-----------------------------------------------------------------------------
\* What a request of a customer goes on with once it is authenticated.
Operations == {"allocate", "createKey", "deleteKey", "release", "rotateProxy", "rotateCredential"}
Pcs == Operations \cup {"idle", "suspendAllocations", "pay", "refund", "refunded", "stamp",
                        "enforce", "check", "select", "insert", "renew"}

ProcType == [pc : Pcs, next : Operations \cup {"none"}, who : Customer \cup {Nobody},
             on : Invoice \cup Alloc \cup Key \cup {Nothing}, via : Proxy \cup Key \cup {Nothing}]

\* Request r names what its step pc works on.
Ready(r, pc) ==
    /\ pc \in Operations \cup {"suspendAllocations", "stamp", "enforce", "check", "select", "insert", "renew"}
          => r.who \in Customer
    /\ pc \in {"pay", "refund", "refunded"} => r.on \in Invoice /\ invoice[r.on] # NoInvoice
    /\ pc \in {"release", "rotateProxy", "rotateCredential", "renew"} => r.on \in Alloc /\ alloc[r.on] # NoAlloc
    /\ pc = "deleteKey" => r.on \in Key /\ key[r.on] # NoKey
    /\ pc \in {"insert", "renew"} => r.via \in Proxy
    /\ pc = "stamp" => /\ r.via \in Key /\ key[r.via] # NoKey
                       /\ r.next \in Operations

RequestsOK == /\ proc \in [Req -> ProcType]
              /\ \A q \in Req : /\ Ready(proc[q], proc[q].pc)
                                /\ At(q, "stamp") => Ready(proc[q], proc[q].next)

TablesOK ==
    /\ account \in [Customer -> {"none", "active", "suspended"}]
    /\ plan \in [Plan -> {"none", "active", "inactive"}]
    /\ legacy \subseteq Customer
    /\ sub \in [Sub -> {NoSub} \cup [status : {"pending", "active", "closed"}, customer : Customer,
                                     plan : Plan, current : BOOLEAN]]
    /\ alloc \in [Alloc -> {NoAlloc} \cup [status : {"active", "suspended", "deleted"},
                                           customer : Customer, proxy : Proxy]]

BooksOK ==
    /\ invoice \in [Invoice -> {NoInvoice} \cup [status : {"pending", "paid", "refunded"}, sub : Sub]]
    /\ \A i \in Invoice : invoice[i] # NoInvoice => sub[invoice[i].sub] # NoSub
    /\ refunds \in [Invoice -> Nat] /\ pays \in [Invoice -> Nat]
    /\ contested \subseteq Invoice /\ cut \subseteq Customer

CustodyOK ==
    /\ issued \in Nat /\ secret \in [Alloc -> 0..issued] /\ login \in [Proxy -> 0..issued]
    /\ copy \in [Proxy -> {NoCopy} \cup 0..issued] /\ disturbed \subseteq Proxy
    /\ key \in [Key -> {NoKey} \cup [status : {"active", "revoked"}, customer : Customer]]
    /\ revoked \subseteq Key /\ reused \subseteq Key
    /\ crowd \in [Customer -> Nat]
    /\ overtaken \subseteq Alloc

\* Type invariant: every row is complete, and a request names what its step
\* works on, also the step after its API key is stamped.
TypeOK == TablesOK /\ BooksOK /\ CustodyOK /\ RequestsOK

\* A customer whose account is suspended or whose subscriptions are all closed
\* holds no proxy, once the request that did it has ended; except a proxy
\* given by a request that was under way, and after a crash in that request.
BarredLosesProxies ==
    \A c \in Customer \ cut : Barred(c) /\ Closing(c) = {} => Active(c) \subseteq overtaken
=============================================================================
