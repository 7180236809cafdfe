------------------------------- MODULE Billing -------------------------------
(***************************************************************************)
(* Billing (internal/billing/service.go) and the administration of         *)
(* accounts: plans, subscriptions, invoices, refunds, suspensions.         *)
(***************************************************************************)
EXTENDS RentalTables

CONSTANT MaxRefunds \* refunds of an invoice, payments of it (bound)

VARIABLES invoice,
          refunds,   \* refunds[i]: what the payment provider was told
          pays,      \* history: how often the invoice became paid
          contested, \* history: invoices with two refunds at once, or one cut off
          cut        \* history: customers whose suspension a crash cut off

books == <<invoice, refunds, pays, contested, cut>>
-----------------------------------------------------------------------------
NoInvoice == [status |-> "none", sub |-> Nothing]

BillingInit == /\ invoice = [i \in Invoice |-> NoInvoice]
               /\ refunds = [i \in Invoice |-> 0]
               /\ pays = [i \in Invoice |-> 0]
               /\ contested = {}
               /\ cut = {}

\* Requests that have passed the check of RefundInvoice.
Refunding(i) == {q \in Req : proc[q].pc \in {"refund", "refunded"} /\ proc[q].on = i}
\* Requests that have closed the account or a subscription, not the proxies yet.
Closing(c) == {q \in Req : proc[q].pc = "suspendAllocations" /\ proc[q].who = c}
-----------------------------------------------------------------------------
(* Plans and subscriptions.                                                *)

CreatePlan(p) == /\ plan[p] = "none"
                 /\ plan' = [plan EXCEPT ![p] = "active"]
                 /\ UNCHANGED <<account, legacy, sub, alloc, proc, books>>

UpdatePlan(p, status) == /\ plan[p] # "none"
                         /\ plan' = [plan EXCEPT ![p] = status]
                         /\ UNCHANGED <<account, legacy, sub, alloc, proc, books>>

\* Neither customer nor plan is looked up, and the status is not checked.
CreateSubscription(s, c, p, status) ==
    /\ sub[s] = NoSub
    /\ sub' = [sub EXCEPT ![s] = [status |-> status, customer |-> c, plan |-> p, current |-> TRUE]]
    /\ UNCHANGED <<account, plan, legacy, alloc, proc, books>>

SaveStatus(s, status) == sub' = [sub EXCEPT ![s].status = status]

UpdateSubscriptionStatus(s, status) ==
    /\ sub[s] # NoSub
    /\ SaveStatus(s, status)
    /\ UNCHANGED <<account, plan, legacy, alloc, proc, books>>

\* Mutant of CloseSubscription: the proxies first, then the status.
CloseLast(q, s) ==
    \/ /\ sub[s] # NoSub
       /\ Enter(q, "closeLast", "none", sub[s].customer, s, Nothing)
       /\ alloc' = SuspendActive(sub[s].customer)
       /\ UNCHANGED <<account, plan, legacy, sub, books>>
    \/ /\ At(q, "closeLast") /\ proc[q].on = s
       /\ SaveStatus(s, "closed")
       /\ Done(q)
       /\ UNCHANGED <<account, plan, legacy, alloc, books>>
CloseSubscription(q, s) ==
    /\ sub[s] # NoSub
    /\ Enter(q, "suspendAllocations", "none", sub[s].customer, Nothing, Nothing)
    /\ SaveStatus(s, "closed")
    /\ UNCHANGED <<account, plan, legacy, alloc, books>>

SuspendExistingAllocations(q) ==
    /\ At(q, "suspendAllocations")
    /\ alloc' = SuspendActive(proc[q].who)
    /\ Done(q)
    /\ UNCHANGED <<account, plan, legacy, sub, books>>

TimePasses(s) == /\ sub[s].current
                 /\ sub' = [sub EXCEPT ![s].current = FALSE]
                 /\ UNCHANGED <<account, plan, legacy, alloc, proc, books>>
-----------------------------------------------------------------------------
(* Invoices.                                                               *)

GenerateInvoice(i, s) ==
    /\ invoice[i] = NoInvoice
    /\ sub[s] # NoSub /\ plan[sub[s].plan] # "none"
    /\ invoice' = [invoice EXCEPT ![i] = [status |-> "pending", sub |-> s]]
    /\ UNCHANGED <<tables, proc, refunds, pays, contested, cut>>

\* One transaction: whatever the subscription was, it is active again.
Pay(i) ==
    /\ pays[i] < MaxRefunds
    /\ invoice' = [invoice EXCEPT ![i].status = "paid"]
    /\ pays' = IF invoice[i].status = "paid" THEN pays ELSE [pays EXCEPT ![i] = @ + 1]
    /\ SaveStatus(invoice[i].sub, "active")
    /\ UNCHANGED <<account, plan, legacy, alloc, refunds, contested, cut>>

MarkInvoicePaid(i) == /\ invoice[i] # NoInvoice
                      /\ Pay(i)
                      /\ UNCHANGED proc

\* The provider says that it was paid; a refunded invoice is not paid here.
VerifyInvoicePayment(q, i) ==
    /\ invoice[i].status \notin {"none", "paid"}
    /\ Enter(q, "pay", "none", Nobody, i, Nothing)
    /\ UNCHANGED <<tables, books>>

PayVerified(q) == At(q, "pay") /\ Pay(proc[q].on) /\ Done(q)

\* Mutant of MayRefund: the status is not checked.
MayAlways(i) == invoice[i] # NoInvoice
\* service.go:276, "only paid invoices can be refunded".
MayRefund(i) == invoice[i].status = "paid"

RefundInvoice(q, i) ==
    /\ MayRefund(i)
    /\ Enter(q, "refund", "none", Nobody, i, Nothing)
    /\ contested' = IF Refunding(i) = {} THEN contested ELSE contested \cup {i}
    /\ UNCHANGED <<tables, invoice, refunds, pays, cut>>

RefundPayment(q) ==
    /\ At(q, "refund")
    /\ refunds[proc[q].on] < MaxRefunds
    /\ refunds' = [refunds EXCEPT ![proc[q].on] = @ + 1]
    /\ Goto(q, "refunded")
    /\ UNCHANGED <<tables, invoice, pays, contested, cut>>

RefundFails(q) == At(q, "refund") /\ Done(q) /\ UNCHANGED <<tables, books>>

SaveRefunded(q) ==
    /\ At(q, "refunded")
    /\ invoice' = [invoice EXCEPT ![proc[q].on].status = "refunded"]
    /\ Done(q)
    /\ UNCHANGED <<tables, refunds, pays, contested, cut>>
-----------------------------------------------------------------------------
(* Accounts.                                                               *)

SaveAccount(c, status) == account' = [account EXCEPT ![c] = status]

Register(c) == /\ account[c] = "none"
               /\ SaveAccount(c, "active")
               /\ UNCHANGED <<plan, legacy, sub, alloc, proc, books>>

\* Billing suspends in one transaction.
SuspendCustomer(c) ==
    /\ account[c] # "none"
    /\ SaveAccount(c, "suspended")
    /\ sub' = [s \in Sub |-> IF sub[s].customer = c THEN [sub[s] EXCEPT !.status = "closed"] ELSE sub[s]]
    /\ alloc' = SuspendActive(c)
    /\ UNCHANGED <<plan, legacy, proc, books>>

\* The abuse service suspends in two statements, and leaves the subscriptions.
AbuseSuspendCustomer(q, c) ==
    /\ account[c] # "none"
    /\ Enter(q, "suspendAllocations", "none", c, Nothing, Nothing)
    /\ SaveAccount(c, "suspended")
    /\ UNCHANGED <<plan, legacy, sub, alloc, books>>

\* Also UnsuspendCustomer: subscriptions and proxies stay as they are.
ActivateCustomer(c) ==
    /\ account[c] = "suspended"
    /\ SaveAccount(c, "active")
    /\ UNCHANGED <<plan, legacy, sub, alloc, proc, books>>

\* SuspendProxy: any allocation, a released one too.
SuspendProxy(a) ==
    /\ alloc[a] # NoAlloc
    /\ alloc' = [alloc EXCEPT ![a].status = "suspended"]
    /\ UNCHANGED <<account, plan, legacy, sub, proc, books>>

\* AdminCreateSubscription still makes subscriptions of the first kind.
ActivateSubscription(c) ==
    /\ legacy' = legacy \cup {c}
    /\ UNCHANGED <<account, plan, sub, alloc, proc, books>>

Crash == /\ proc' = [q \in Req |-> Idle]
         /\ cut' = cut \cup {c \in Customer : Closing(c) # {}}
         /\ contested' = contested \cup {i \in Invoice : Refunding(i) # {}}
         /\ UNCHANGED <<tables, invoice, refunds, pays>>

\* What the administrators may ask for.
AdminRequest ==
    \/ \E p \in Plan : CreatePlan(p) \/ \E status \in {"active", "inactive"} : UpdatePlan(p, status)
    \/ \E s \in Sub : \/ \E status \in {"pending", "active"} : UpdateSubscriptionStatus(s, status)
                      \/ \E q \in Req : CloseSubscription(q, s)
                      \/ \E c \in Customer, p \in Plan, status \in {"pending", "active", "closed"} :
                            CreateSubscription(s, c, p, status)
    \/ \E i \in Invoice : \/ MarkInvoicePaid(i) \/ \E s \in Sub : GenerateInvoice(i, s)
                          \/ \E q \in Req : VerifyInvoicePayment(q, i) \/ RefundInvoice(q, i)
    \/ \E c \in Customer : SuspendCustomer(c) \/ ActivateCustomer(c) \/ ActivateSubscription(c)

BillingNext ==
    \/ AdminRequest
    \/ \E s \in Sub : TimePasses(s)
    \/ \E q \in Req : \/ PayVerified(q) \/ RefundPayment(q) \/ RefundFails(q) \/ SaveRefunded(q)
                      \/ SuspendExistingAllocations(q)
                      \/ \E c \in Customer : AbuseSuspendCustomer(q, c)
    \/ \E c \in Customer : Register(c)
    \/ \E a \in Alloc : SuspendProxy(a)
    \/ Crash

\* The provider is told to refund an invoice at most once for each time it
\* became paid, unless two refunds overlap or a crash comes between the
\* provider's answer and the save.
RefundedOncePerPayment == \A i \in Invoice \ contested : refunds[i] <= pays[i]
=============================================================================
